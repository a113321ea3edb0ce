---------------------------- MODULE VideoCallProofs ----------------------------
(***************************************************************************)
(* Proofs about VideoCall, for any number of clicks, broken connections    *)
(* and failures: what every start of a camera was paid with, and, from     *)
(* there, the course each tab's calls take, that no camera outlives it,    *)
(* and that a call the server has is on in both tabs once all is quiet.    *)
(***************************************************************************)
EXTENDS VideoCall, FiniteSetTheorems, TLAPS

-----------------------------------------------------------------------------
(* The invariant: types, and what each request and each start has cost.    *)

Begins == {"initiate", "start"}
Ends == {"end", "left", "gone"}

\* How many of some messages are in a sequence.
Count(kinds, msgs) == Cardinality({i \in DOMAIN msgs : msgs[i].m \in kinds})
One(b) == IF b THEN 1 ELSE 0

\* Starts u is still entitled to, and clicks that may still become a call.
Due(u) == Count({"request", "accept"}, up[u]) + One(req = u) + Count(Begins, down[u])
Asking(u) == Count({"request"}, up[u]) + One(tab[u].explain = "request")

\* A start on its way belongs to a call; the ends the server sends have no number.
EventsFit == \A u \in Users : \A i \in DOMAIN down[u] :
    /\ down[u][i].m \in Begins => down[u][i].call \in 1..calls
    /\ down[u][i].m = "end" => down[u][i].call = 0
Paid == \A u \in Users : Due(u) <= credit[u]
Clicked == \A u \in Users :
    calls + One(req # None) + Asking(u) + Asking(Partner(u)) <= requests
\* Nothing is on its way from a tab without a connection.
Unplugged == \A u \in Users \ linked : up[u] = <<>>
CallInv == TypeOK /\ Unplugged /\ EventsFit /\ Paid /\ Clicked

-----------------------------------------------------------------------------
(* Helpers.                                                                *)

\* The two members: everybody has a partner, and there is nobody else.
LEMMA PartnerIsOther ==
    ASSUME NEW u \in Users
    PROVE  /\ Partner(u) \in Users /\ Partner(u) # u /\ Users = {u, Partner(u)}
           /\ Partner(Partner(u)) = u
<1>1. PICK a, b \in Users : a # b /\ Users = {a, b}
    BY TwoMembers
<1>2. \A x \in Users : Partner(x) \in Users /\ Partner(x) # x
    <2>1. TAKE x \in Users
    <2>2. \E v \in Users : v # x
        BY <1>1
    <2>3. QED
        BY <2>2 DEF Partner
<1>3. QED
    BY <1>1, <1>2

\* What Count says of sequences that are joined, and of one that loses its head.
LEMMA CountType ==
    ASSUME NEW msgs \in Seq(Msg), NEW kinds
    PROVE  Count(kinds, msgs) \in Nat /\ IsFiniteSet({i \in DOMAIN msgs : msgs[i].m \in kinds})
<1>1. IsFiniteSet(DOMAIN msgs)
    BY FS_Interval
<1>2. {i \in DOMAIN msgs : msgs[i].m \in kinds} \in SUBSET DOMAIN msgs
    OBVIOUS
<1>3. IsFiniteSet({i \in DOMAIN msgs : msgs[i].m \in kinds})
    BY <1>1, <1>2, FS_Subset
<1>4. QED
    BY <1>3, FS_CardinalityType DEF Count

LEMMA CountJoined ==
    ASSUME NEW s \in Seq(Msg), NEW t \in Seq(Msg), NEW kinds
    PROVE  Count(kinds, s \o t) = Count(kinds, s) + Count(kinds, t)
<1> DEFINE In(x) == {i \in DOMAIN x : x[i].m \in kinds}
           Moved == {i \in (Len(s) + 1)..(Len(s) + Len(t)) : t[i - Len(s)].m \in kinds}
<1>1. s \o t \in Seq(Msg)
    OBVIOUS
<1>2. /\ IsFiniteSet(In(s)) /\ IsFiniteSet(In(t)) /\ IsFiniteSet(In(s \o t))
      /\ Count(kinds, s) \in Nat /\ Count(kinds, t) \in Nat
    BY <1>1, CountType
<1>3. In(s \o t) = In(s) \cup Moved
    <2>1. \A i \in In(s \o t) : i \in In(s) \cup Moved
        OBVIOUS
    <2>2. \A i \in In(s) : i \in In(s \o t)
        OBVIOUS
    <2>3. \A i \in Moved : i \in In(s \o t)
        OBVIOUS
    <2>4. QED
        BY <2>1, <2>2, <2>3
<1>4. In(s) \cap Moved = {}
    OBVIOUS
<1>5. IsFiniteSet(Moved) /\ Cardinality(Moved) = Cardinality(In(t))
    <2>1. ExistsBijection(In(t), Moved)
        <3> DEFINE f == [i \in In(t) |-> i + Len(s)]
        <3>1. f \in [In(t) -> Moved]
            OBVIOUS
        <3>2. \A i, j \in In(t) : f[i] = f[j] => i = j
            OBVIOUS
        <3>3. \A k \in Moved : \E i \in In(t) : f[i] = k
            <4>1. TAKE k \in Moved
            <4>2. k - Len(s) \in In(t)
                OBVIOUS
            <4>3. f[k - Len(s)] = k
                BY <4>2
            <4>4. QED
                BY <4>2, <4>3
        <3>4. f \in Bijection(In(t), Moved)
            BY <3>1, <3>2, <3>3 DEF Bijection, Injection, Surjection, IsInjective
        <3>5. QED
            BY <3>4 DEF ExistsBijection
    <2>2. QED
        BY <1>2, <2>1, FS_Bijection
<1>6. Cardinality(In(s) \cap Moved) = 0
    BY <1>4, FS_EmptySet
<1>7. Cardinality(In(s) \cup Moved) = Cardinality(In(s)) + Cardinality(Moved)
    <2>1. Cardinality(In(s) \cup Moved) =
              Cardinality(In(s)) + Cardinality(Moved) - Cardinality(In(s) \cap Moved)
        BY <1>2, <1>5, FS_Union
    <2>2. Cardinality(In(s)) \in Nat /\ Cardinality(Moved) \in Nat
        BY <1>2, <1>5, FS_CardinalityType
    <2>3. QED
        BY <1>6, <2>1, <2>2
<1>8. QED
    BY <1>3, <1>5, <1>7 DEF Count

LEMMA CountFew ==
    ASSUME NEW kinds
    PROVE  Count(kinds, <<>>) = 0 /\ \A m \in Msg : Count(kinds, <<m>>) = One(m.m \in kinds)
<1>1. \A m \in Msg : m.m \in kinds => {i \in DOMAIN <<m>> : <<m>>[i].m \in kinds} = {1}
    OBVIOUS
<1>2. \A m \in Msg : m.m \notin kinds => {i \in DOMAIN <<m>> : <<m>>[i].m \in kinds} = {}
    OBVIOUS
<1>3. {i \in DOMAIN <<>> : <<>>[i].m \in kinds} = {}
    OBVIOUS
<1>4. QED
    BY <1>1, <1>2, <1>3, FS_EmptySet, FS_Singleton DEF Count, One

LEMMA CountRest ==
    ASSUME NEW s \in Seq(Msg), s # <<>>, NEW kinds
    PROVE  Count(kinds, s) = Count(kinds, Tail(s)) + One(Head(s).m \in kinds)
<1>1. s = <<Head(s)>> \o Tail(s) /\ Tail(s) \in Seq(Msg) /\ Head(s) \in Msg
    OBVIOUS
<1>2. <<Head(s)>> \in Seq(Msg)
    BY <1>1
<1>3. Count(kinds, s) = Count(kinds, <<Head(s)>>) + Count(kinds, Tail(s))
    BY <1>1, <1>2, CountJoined, ZenonT(60)
<1>4. Count(kinds, Tail(s)) \in Nat
    BY <1>1, CountType
<1>5. Count(kinds, <<Head(s)>>) = One(Head(s).m \in kinds)
    BY <1>1, CountFew
<1>6. One(Head(s).m \in kinds) \in Nat
    BY DEF One
<1>7. QED
    BY <1>3, <1>4, <1>5, <1>6

LEMMA OneType == \A b \in BOOLEAN : One(b) \in 0..1
BY DEF One

\* rooms.send() appends at most one event for each member.
Notes == [Users -> {<<>>} \cup {<<m>> : m \in Msg}]
LEMMA Told ==
    ASSUME TypeOK, NEW msgs \in Notes, Tell(msgs)
    PROVE  /\ down' \in [Users -> Seq(Msg)]
           /\ \A v \in Users :
                 \/ down'[v] = down[v]
                 \/ v \in live /\ \E m \in Msg : msgs[v] = <<m>> /\ down'[v] = Append(down[v], m)
<1>1. down \in [Users -> Seq(Msg)]
    BY DEF TypeOK
<1>2. ASSUME NEW v \in Users PROVE down[v] \o msgs[v] \in Seq(Msg) /\
          (down[v] \o msgs[v] = down[v] \/ \E m \in Msg : msgs[v] = <<m>> /\ down[v] \o msgs[v] = Append(down[v], m))
    <2>1. CASE msgs[v] = <<>>
        BY <1>1, <2>1
    <2>2. CASE \E m \in Msg : msgs[v] = <<m>>
        <3>1. PICK m \in Msg : msgs[v] = <<m>>
            BY <2>2
        <3>2. down[v] \o <<m>> = Append(down[v], m)
            BY <1>1
        <3>3. QED
            BY <1>1, <3>1, <3>2
    <2>3. QED
        BY <2>1, <2>2 DEF Notes
<1>3. QED
    BY <1>1, <1>2 DEF Tell

\* The events of the handlers.
LEMMA NotesFit ==
    /\ ToNobody \in Notes
    /\ \A u \in Users : \A m \in Msg : ToPartner(u, m) \in Notes
    /\ \A u \in Users : \A m, n \in Msg : [ToPartner(u, m) EXCEPT ![u] = <<n>>] \in Notes
    /\ {M("request"), M("asked"), M("reject"), M("end"), M("left"), M("gone"), M("accept"),
        M("rejoin"), M("skip")} \subseteq Msg
<1>1. 0 \in 0..MaxRequests
    BY BoundsAreNumbers
<1>2. QED
    BY <1>1 DEF Notes, ToNobody, ToPartner, M, Msg

LEMMA AskingType == TypeOK => \A v \in Users : Asking(v) \in Nat
<1> SUFFICES ASSUME TypeOK, NEW v \in Users PROVE Asking(v) \in Nat
    OBVIOUS
<1>1. Count({"request"}, up[v]) \in Nat
    BY CountType DEF TypeOK
<1>2. One(tab[v].explain = "request") \in Nat
    BY DEF One
<1>3. QED
    BY <1>1, <1>2 DEF Asking

-----------------------------------------------------------------------------
(* The handlers keep types, and what requests and starts have cost.        *)

\* An event reaches v, of one of some kinds and with the number it should have, or none.
Fits(m) == (m.m = "end" => m.call = 0) /\ (m.m \in Begins => m.call = calls)
Gets(v, kinds) ==
    \/ down'[v] = down[v]
    \/ \E m \in Msg : m.m \in kinds /\ Fits(m)' /\ down'[v] = Append(down[v], m)

LEMMA TypesKept ==
    ASSUME TypeOK, EventsFit, UNCHANGED <<linked, tab, starts, lit, credit, requests>>,
           upsets' \in 0..MaxUpsets,
           up' \in [Users -> Seq(Msg)], down' \in [Users -> Seq(Msg)],
           NEW kinds, \A v \in Users : Gets(v, kinds),
           open' \in {"yes", "no"}, locked' = locked, live' \subseteq linked,
           req' \in Users \cup {None}, call' \in {0, calls'}, calls' \in calls..MaxRequests,
           kinds \cap Begins # {} => calls' > 0,
           marred' \subseteq Users
    PROVE  TypeOK' /\ EventsFit'
<1>0. calls \in Nat /\ calls' \in Nat /\ calls <= calls' /\ calls' <= MaxRequests
    BY BoundsAreNumbers DEF TypeOK
<1>1. TypeOK'
    BY <1>0 DEF TypeOK
<1>2. ASSUME NEW v \in Users, NEW i \in DOMAIN down'[v]
      PROVE  /\ down'[v][i].m \in Begins => down'[v][i].call \in 1..calls'
             /\ down'[v][i].m = "end" => down'[v][i].call = 0
    <2>0. down[v] \in Seq(Msg)
        BY DEF TypeOK
    <2>1. ASSUME i \in DOMAIN down[v], down'[v][i] = down[v][i]
          PROVE  /\ down'[v][i].m \in Begins => down'[v][i].call \in 1..calls'
                 /\ down'[v][i].m = "end" => down'[v][i].call = 0
        <3>1. down[v][i].m \in Begins => down[v][i].call \in 1..calls
            BY <2>1 DEF EventsFit
        <3>2. down[v][i].m = "end" => down[v][i].call = 0
            BY <2>1 DEF EventsFit
        <3>3. QED
            BY <1>0, <2>1, <3>1, <3>2
    <2>2. CASE down'[v] = down[v]
        BY <1>2, <2>1, <2>2
    <2>3. ASSUME NEW m \in Msg, m.m \in kinds, Fits(m)', down'[v] = Append(down[v], m)
          PROVE  /\ down'[v][i].m \in Begins => down'[v][i].call \in 1..calls'
                 /\ down'[v][i].m = "end" => down'[v][i].call = 0
        <3>1. CASE i \in DOMAIN down[v]
            BY <2>0, <2>1, <2>3, <3>1
        <3>2. CASE i \notin DOMAIN down[v]
            <4>1. down'[v][i] = m
                BY <1>2, <2>0, <2>3, <3>2
            <4>2. m.m \in Begins => calls' \in 1..calls'
                BY <1>0, <2>3
            <4>3. QED
                BY <2>3, <4>1, <4>2 DEF Fits
        <3>3. QED
            BY <3>1, <3>2
    <2>4. QED
        BY <2>2, <2>3 DEF Gets
<1>3. QED
    BY <1>1, <1>2 DEF EventsFit

\* How many starts are on their way to v after a handler.
LEMMA BeginsCounted ==
    ASSUME TypeOK, NEW v \in Users, NEW kinds, Gets(v, kinds)
    PROVE  /\ Count(Begins, down[v]) \in Nat /\ Count(Begins, down'[v]) \in Nat
           /\ Count(Begins, down'[v]) <= Count(Begins, down[v]) + 1
           /\ kinds \cap Begins = {} => Count(Begins, down'[v]) = Count(Begins, down[v])
<1>0. down[v] \in Seq(Msg) /\ Count(Begins, down[v]) \in Nat
    BY CountType DEF TypeOK
<1>1. CASE down'[v] = down[v]
    BY <1>0, <1>1
<1>2. ASSUME NEW m \in Msg, m.m \in kinds, down'[v] = Append(down[v], m)
      PROVE  Count(Begins, down'[v]) = Count(Begins, down[v]) + One(m.m \in Begins)
    <2>1. <<m>> \in Seq(Msg) /\ Append(down[v], m) = down[v] \o <<m>>
        BY <1>0
    <2>2. Count(Begins, <<m>>) = One(m.m \in Begins)
        BY CountFew
    <2>3. Count(Begins, down[v] \o <<m>>) = Count(Begins, down[v]) + Count(Begins, <<m>>)
        BY <1>0, <2>1, CountJoined
    <2>4. QED
        BY <1>2, <2>1, <2>2, <2>3
<1>3. QED
    BY <1>0, <1>1, <1>2 DEF Gets, One

LEMMA DuePrimed ==
    ASSUME NEW v \in Users
    PROVE  /\ Due(v)' = Count({"request", "accept"}, up'[v]) + One(req' = v) + Count(Begins, down'[v])
           /\ Asking(v)' = Count({"request"}, up'[v]) + One(tab'[v].explain = "request")
BY DEF Due, Asking, Count, One

\* A handler takes one message; unless it accepts, nobody is told to start.
LEMMA OrdinaryInv ==
    ASSUME CallInv, NEW u \in Users, up[u] # <<>>, up' = [up EXCEPT ![u] = Tail(@)],
           UNCHANGED <<linked, tab, starts, lit, credit, bounds, calls, locked>>,
           down' \in [Users -> Seq(Msg)],
           NEW kinds, kinds \cap Begins = {}, \A v \in Users : Gets(v, kinds),
           open' \in {"yes", "no"}, live' \subseteq linked, call' \in {0, call},
           req' \in {None, req} \/ (req' = u /\ Head(up[u]).m = "request"),
           marred' \subseteq Users
    PROVE  CallInv'
<1> DEFINE msg == Head(up[u])
<1>0. /\ up \in [Users -> Seq(Msg)] /\ msg \in Msg /\ calls \in Nat /\ calls <= MaxRequests
      /\ requests \in Nat /\ credit \in [Users -> Int] /\ req \in Users \cup {None}
      /\ call \in {0, calls} /\ upsets \in 0..MaxUpsets
    BY BoundsAreNumbers DEF CallInv, TypeOK
<1>1. up' \in [Users -> Seq(Msg)]
    BY <1>0
<1>2. req' \in Users \cup {None}
    BY <1>0
<1>3. TypeOK' /\ EventsFit' /\ Unplugged'
    <2>1. calls' \in calls..MaxRequests /\ call' \in {0, calls'}
        BY <1>0, BoundsAreNumbers
    <2>2. Unplugged'
        BY <1>0, <1>1 DEF CallInv, Unplugged
    <2>3. QED
        BY <1>0, <1>1, <1>2, <2>1, <2>2, TypesKept DEF CallInv, bounds
<1>4. \A v \in Users : \A k : /\ Count(k, up[v]) \in Nat /\ Count(k, up'[v]) \in Nat
                              /\ Count(k, up[v]) = Count(k, up'[v]) + One(v = u /\ msg.m \in k)
    <2>1. TAKE v \in Users
    <2>k. TAKE k
    <2>2. Count(k, up[v]) \in Nat /\ Count(k, up'[v]) \in Nat
        BY <1>0, <1>1, CountType
    <2>3. CASE v = u
        <3>1. Count(k, up[u]) = Count(k, Tail(up[u])) + One(msg.m \in k)
            BY <1>0, CountRest
        <3>2. up'[u] = Tail(up[u])
            BY <1>0
        <3>3. One(v = u /\ msg.m \in k) = One(msg.m \in k)
            BY <2>3 DEF One
        <3>4. QED
            BY <2>2, <2>3, <3>1, <3>2, <3>3
    <2>4. CASE v # u
        BY <1>0, <2>2, <2>4 DEF One
    <2>5. QED
        BY <2>2, <2>3, <2>4
<1>5. Paid'
    <2>1. ASSUME NEW v \in Users PROVE Due(v)' <= credit'[v]
        <3>1. /\ Count(Begins, down[v]) \in Nat
              /\ Count(Begins, down'[v]) = Count(Begins, down[v])
            BY BeginsCounted DEF CallInv
        <3>2. Due(v) <= credit[v] /\ credit[v] \in Int
            BY <1>0 DEF CallInv, Paid
        <3>3. One(req' = v) <= One(req = v) + One(v = u /\ msg.m \in {"request", "accept"})
            BY TwoMembers DEF One
        <3>4. One(req' = v) \in Nat /\ One(req = v) \in Nat /\ One(v = u /\ msg.m \in {"request", "accept"}) \in Nat
            BY DEF One
        <3>5. /\ Count({"request", "accept"}, up[v]) \in Nat /\ Count({"request", "accept"}, up'[v]) \in Nat
              /\ Count({"request", "accept"}, up[v]) = Count({"request", "accept"}, up'[v])
                                                      + One(v = u /\ msg.m \in {"request", "accept"})
            BY <1>4
        <3>a. Due(v)' = Count({"request", "accept"}, up'[v]) + One(req' = v) + Count(Begins, down'[v])
            BY DuePrimed
        <3>b. Due(v) = Count({"request", "accept"}, up[v]) + One(req = v) + Count(Begins, down[v])
            BY DEF Due
        <3>c. Due(v) \in Int
            BY <3>1, <3>4, <3>5, <3>b
        <3>d. Due(v)' \in Int
            BY <3>1, <3>4, <3>5, <3>a
        <3>e. Count({"request", "accept"}, up'[v]) + One(req' = v) <= Count({"request", "accept"}, up[v]) + One(req = v)
            BY <3>3, <3>4, <3>5
        <3>6. Due(v)' <= Due(v)
            BY <3>1, <3>4, <3>5, <3>a, <3>b, <3>e
        <3>8. QED
            BY <3>2, <3>6, <3>c, <3>d
    <2>2. QED
        BY <2>1 DEF Paid
<1>6. Clicked'
    <2>1. ASSUME NEW v \in Users
          PROVE  calls' + One(req' # None) + Asking(v)' + Asking(Partner(v))' <= requests'
        <3>1. calls + One(req # None) + Asking(v) + Asking(Partner(v)) <= requests
            BY DEF CallInv, Clicked
        <3>2. Partner(v) \in Users /\ Partner(v) # v /\ u \in {v, Partner(v)}
            BY PartnerIsOther
        <3>3. One(req' # None) <= One(req # None) + One(msg.m \in {"request"})
            BY DEF One
        <3>4. One(req' # None) \in Nat /\ One(req # None) \in Nat /\ One(msg.m \in {"request"}) \in Nat
            BY DEF One
        <3>5. \A x \in Users :
                  /\ Asking(x) = Asking(x)' + One(x = u /\ msg.m \in {"request"})
                  /\ Asking(x)' \in Nat
            <4>1. TAKE x \in Users
            <4>2. /\ Count({"request"}, up[x]) \in Nat /\ Count({"request"}, up'[x]) \in Nat
                  /\ Count({"request"}, up[x]) = Count({"request"}, up'[x]) + One(x = u /\ msg.m \in {"request"})
                BY <1>4
            <4>3. One(tab[x].explain = "request") \in Nat /\ One(x = u /\ msg.m \in {"request"}) \in Nat
                BY DEF One
            <4>4. One(tab'[x].explain = "request") = One(tab[x].explain = "request")
                OBVIOUS
            <4>5. Asking(x)' = Count({"request"}, up'[x]) + One(tab'[x].explain = "request")
                BY DuePrimed
            <4>6. Asking(x) = Count({"request"}, up[x]) + One(tab[x].explain = "request")
                BY DEF Asking
            <4>7. QED
                BY <4>2, <4>3, <4>4, <4>5, <4>6
        <3>6. One(v = u /\ msg.m \in {"request"}) + One(Partner(v) = u /\ msg.m \in {"request"})
                  = One(msg.m \in {"request"})
            BY <3>2 DEF One
        <3>7. One(v = u /\ msg.m \in {"request"}) \in Nat /\ One(Partner(v) = u /\ msg.m \in {"request"}) \in Nat
            BY DEF One
        <3>8. /\ Asking(v) = Asking(v)' + One(v = u /\ msg.m \in {"request"}) /\ Asking(v)' \in Nat
              /\ Asking(Partner(v))' \in Nat
              /\ Asking(Partner(v)) = Asking(Partner(v))' + One(Partner(v) = u /\ msg.m \in {"request"})
            BY <3>2, <3>5
        <3>9. calls' = calls /\ requests' = requests
            BY DEF bounds
        <3>a. Asking(v) + Asking(Partner(v)) = Asking(v)' + Asking(Partner(v))' + One(msg.m \in {"request"})
            BY <3>4, <3>6, <3>7, <3>8
        <3>b. Asking(v) \in Nat /\ Asking(Partner(v)) \in Nat
            BY <3>7, <3>8
        <3>c. PICK now \in Nat : now = One(req' # None)
            BY <3>4
        <3>d. PICK before \in Nat : before = One(req # None)
            BY <3>4
        <3>e. PICK one \in Nat : one = One(msg.m \in {"request"})
            BY <3>4
        <3>f. PICK mine \in Nat : mine = Asking(v)'
            BY <3>8
        <3>g. PICK yours \in Nat : yours = Asking(Partner(v))'
            BY <3>8
        <3>h. calls + before + (mine + yours + one) <= requests
            BY <1>0, <3>1, <3>a, <3>b, <3>d, <3>e, <3>f, <3>g
        <3>i. now <= before + one
            BY <3>3, <3>c, <3>d, <3>e
        <3>j. calls + now + mine + yours <= requests
            BY <1>0, <3>h, <3>i
        <3>10. calls + One(req' # None) + Asking(v)' + Asking(Partner(v))' <= requests
            BY <3>c, <3>f, <3>g, <3>j
        <3>11. QED
            BY <3>9, <3>10
    <2>2. QED
        BY <2>1 DEF Clicked
<1>7. QED
    BY <1>3, <1>5, <1>6 DEF CallInv

\* A partner's request is accepted: the request and the acceptance pay for the starts.
LEMMA AcceptInv ==
    ASSUME CallInv, NEW u \in Users, up[u] # <<>>, Head(up[u]).m = "accept",
           up' = [up EXCEPT ![u] = Tail(@)],
           UNCHANGED <<linked, tab, starts, lit, credit, bounds, locked, open, live>>,
           down' \in [Users -> Seq(Msg)], \A v \in Users : Gets(v, Begins),
           req = Partner(u), req' = None, call' = calls + 1, calls' = calls + 1,
           marred' \subseteq Users
    PROVE  CallInv'
<1> DEFINE p == Partner(u)
<1>0. /\ up \in [Users -> Seq(Msg)] /\ calls \in Nat /\ Head(up[u]) \in Msg
      /\ requests \in Nat /\ requests <= MaxRequests /\ credit \in [Users -> Int]
      /\ open \in {"yes", "no"} /\ live \subseteq linked /\ upsets \in 0..MaxUpsets
    BY BoundsAreNumbers DEF CallInv, TypeOK
<1>1. up' \in [Users -> Seq(Msg)]
    BY <1>0
<1>2. p \in Users /\ p # u /\ Users = {u, p} /\ p # None /\ Partner(p) = u
    BY PartnerIsOther, TwoMembers
<1>3. \A v \in Users : \A k : /\ Count(k, up[v]) \in Nat /\ Count(k, up'[v]) \in Nat
                              /\ Count(k, up[v]) = Count(k, up'[v]) + One(v = u /\ Head(up[u]).m \in k)
    <2>1. TAKE v \in Users
    <2>k. TAKE k
    <2>2. Count(k, up[v]) \in Nat /\ Count(k, up'[v]) \in Nat
        BY <1>0, <1>1, CountType
    <2>3. CASE v = u
        <3>1. Count(k, up[u]) = Count(k, Tail(up[u])) + One(Head(up[u]).m \in k)
            BY <1>0, CountRest
        <3>2. up'[u] = Tail(up[u])
            BY <1>0
        <3>3. One(v = u /\ Head(up[u]).m \in k) = One(Head(up[u]).m \in k)
            BY <2>3 DEF One
        <3>4. QED
            BY <2>2, <2>3, <3>1, <3>2, <3>3
    <2>4. CASE v # u
        BY <1>0, <2>2, <2>4 DEF One
    <2>5. QED
        BY <2>2, <2>3, <2>4
<1>4. \A x \in Users : Asking(x)' = Asking(x) /\ Asking(x) \in Nat
    <2>1. TAKE x \in Users
    <2>2. /\ Count({"request"}, up[x]) \in Nat /\ Count({"request"}, up'[x]) \in Nat
          /\ Count({"request"}, up[x]) = Count({"request"}, up'[x]) + One(x = u /\ Head(up[u]).m \in {"request"})
        BY <1>3
    <2>3. One(x = u /\ Head(up[u]).m \in {"request"}) = 0 /\ One(tab[x].explain = "request") \in Nat
        BY DEF One
    <2>4. One(tab'[x].explain = "request") = One(tab[x].explain = "request")
        OBVIOUS
    <2>5. Asking(x)' = Count({"request"}, up'[x]) + One(tab'[x].explain = "request")
        BY DuePrimed
    <2>6. Asking(x) = Count({"request"}, up[x]) + One(tab[x].explain = "request")
        BY DEF Asking
    <2>7. QED
        BY <2>2, <2>3, <2>4, <2>5, <2>6
<1>5. \A v \in Users : calls + 1 + Asking(v) + Asking(Partner(v)) <= requests
    <2>1. TAKE v \in Users
    <2>2. calls + One(req # None) + Asking(v) + Asking(Partner(v)) <= requests
        BY DEF CallInv, Clicked
    <2>3. One(req # None) = 1
        BY <1>2 DEF One
    <2>4. QED
        BY <2>2, <2>3
<1>6. calls + 1 <= MaxRequests
    <2>1. Asking(u) \in Nat /\ Asking(p) \in Nat /\ calls + 1 + Asking(u) + Asking(p) <= requests
        BY <1>2, <1>4, <1>5
    <2>2. QED
        BY <1>0, <2>1, BoundsAreNumbers
<1>7. TypeOK' /\ EventsFit' /\ Unplugged'
    <2>1. calls' \in calls..MaxRequests /\ call' \in {0, calls'} /\ calls' > 0
        BY <1>0, <1>6, BoundsAreNumbers
    <2>2. Unplugged'
        BY <1>0, <1>1 DEF CallInv, Unplugged
    <2>3. QED
        BY <1>0, <1>1, <2>1, <2>2, TypesKept DEF CallInv, bounds
<1>8. Clicked'
    <2>1. ASSUME NEW v \in Users
          PROVE  calls' + One(req' # None) + Asking(v)' + Asking(Partner(v))' <= requests'
        <3>1. Partner(v) \in Users
            BY PartnerIsOther
        <3>2. Asking(v)' = Asking(v) /\ Asking(Partner(v))' = Asking(Partner(v))
            BY <1>4, <3>1
        <3>3. Asking(v) \in Nat /\ Asking(Partner(v)) \in Nat
            BY <1>4, <3>1
        <3>4. One(req' # None) = 0
            BY DEF One
        <3>5. requests' = requests /\ calls' = calls + 1
            BY DEF bounds
        <3>6. calls + 1 + Asking(v) + Asking(Partner(v)) <= requests
            BY <1>5
        <3>7. QED
            BY <1>0, <3>2, <3>3, <3>4, <3>5, <3>6
    <2>2. QED
        BY <2>1 DEF Clicked
<1>9. Paid'
    <2>1. ASSUME NEW v \in Users PROVE Due(v)' <= credit'[v]
        <3>1. /\ Count(Begins, down[v]) \in Nat /\ Count(Begins, down'[v]) \in Nat
              /\ Count(Begins, down'[v]) <= Count(Begins, down[v]) + 1
            BY BeginsCounted DEF CallInv
        <3>2. Due(v) <= credit[v] /\ credit[v] \in Int
            BY <1>0 DEF CallInv, Paid
        <3>3. One(req' = v) = 0
            BY TwoMembers DEF One
        <3>4. /\ Count({"request", "accept"}, up[v]) \in Nat /\ Count({"request", "accept"}, up'[v]) \in Nat
              /\ Count({"request", "accept"}, up[v]) = Count({"request", "accept"}, up'[v])
                                          + One(v = u /\ Head(up[u]).m \in {"request", "accept"})
            BY <1>3
        <3>5. One(v = u /\ Head(up[u]).m \in {"request", "accept"}) + One(req = v) = 1
            BY <1>2 DEF One
        <3>6. One(v = u /\ Head(up[u]).m \in {"request", "accept"}) \in Nat /\ One(req = v) \in Nat
            BY DEF One
        <3>7. Due(v)' = Count({"request", "accept"}, up'[v]) + One(req' = v) + Count(Begins, down'[v])
            BY DuePrimed
        <3>8. Due(v) = Count({"request", "accept"}, up[v]) + One(req = v) + Count(Begins, down[v])
            BY DEF Due
        <3>9. Count({"request", "accept"}, up[v]) + One(req = v) = Count({"request", "accept"}, up'[v]) + 1
            BY <3>4, <3>5, <3>6
        <3>10. Due(v)' \in Int
            BY <3>1, <3>3, <3>4, <3>7
        <3>13. Due(v) \in Int
            BY <3>1, <3>4, <3>6, <3>8
        <3>11. Due(v)' <= Due(v)
            BY <3>1, <3>3, <3>4, <3>6, <3>7, <3>8, <3>9
        <3>12. QED
            BY <3>2, <3>10, <3>13, <3>11
    <2>2. QED
        BY <2>1 DEF Paid
<1>10. QED
    BY <1>7, <1>8, <1>9 DEF CallInv

\* What each of them sends.
LEMMA GetsTold ==
    ASSUME TypeOK, NEW kinds, NEW msgs \in Notes, Tell(msgs),
           \A v \in Users : \A m \in Msg : msgs[v] = <<m>> => m.m \in kinds /\ Fits(m)'
    PROVE  down' \in [Users -> Seq(Msg)] /\ \A v \in Users : Gets(v, kinds)
BY Told DEF Gets

LEMMA HandleInv ==
    ASSUME CallInv, NEW u \in Users, Handle(u)
    PROVE  CallInv'
<1> DEFINE msg == Head(up[u])
           Plain == Msg
<1>0. /\ TypeOK /\ up[u] \in Seq(Msg) /\ up[u] # <<>> /\ msg \in Msg
      /\ up' = [up EXCEPT ![u] = Tail(@)]
      /\ UNCHANGED <<linked, tab, starts, lit, credit, bounds>>
    BY DEF CallInv, TypeOK, Handle, tabs
<1>1. /\ open \in {"yes", "no"} /\ live \subseteq linked /\ call \in {0, calls} /\ calls \in Nat
      /\ linked \subseteq Users
      /\ marred' \subseteq Users /\ Partner(u) \in Users /\ req \in Users \cup {None}
    <2>1. marred' \subseteq Users
        BY <1>0 DEF Handle, EndAstray, TypeOK
    <2>2. QED
        BY <1>0, <2>1, PartnerIsOther DEF TypeOK
\* Nobody is told to start.
<1>2. ASSUME NEW kinds, kinds \cap Begins = {}, NEW msgs \in Notes, Tell(msgs),
             \A v \in Users : \A m \in Msg : msgs[v] = <<m>> => m.m \in kinds /\ Fits(m)',
             open' \in {"yes", "no"}, live' \subseteq linked, call' \in {0, call},
             req' \in {None, req} \/ (req' = u /\ msg.m = "request"),
             UNCHANGED <<calls, locked>>
      PROVE  CallInv'
    <2>1. down' \in [Users -> Seq(Msg)] /\ \A v \in Users : Gets(v, kinds)
        BY <1>0, <1>2, GetsTold
    <2>2. QED
        BY <1>0, <1>1, <1>2, <2>1, OrdinaryInv
<1>3. CASE Tell(ToNobody) /\ UNCHANGED server
    <2>1. ToNobody \in Notes /\ \A v \in Users : \A m \in Msg : ToNobody[v] # <<m>>
        BY NotesFit DEF ToNobody
    <2>2. {} \cap Begins = {} /\ UNCHANGED <<open, locked, live, req, call, calls>>
        BY <1>3 DEF server
    <2>3. QED
        BY <1>1, <1>2, <1>3, <2>1, <2>2
<1>4. CASE msg.m = "request" /\ VideoRequest(u)
    <2>1. CASE ~(locked = "yes" \/ call # 0)
        <3> DEFINE msgs == [ToPartner(u, M("request")) EXCEPT ![u] = <<M("asked")>>]
        <3>1. msgs \in Notes
            BY NotesFit
        <3>2. \A v \in Users : \A m \in Msg : msgs[v] = <<m>> => m.m \in {"request", "asked"}
            BY DEF ToPartner, M
        <3>3. QED
            BY <1>1, <1>2, <1>4, <2>1, <3>1, <3>2, ZenonT(60) DEF VideoRequest, Begins, Fits
    <2>2. QED
        BY <1>3, <1>4, <2>1 DEF VideoRequest
<1>5. CASE msg.m = "accept" /\ VideoAccept(u)
    <2>1. CASE req = Partner(u)
        <3> DEFINE msgs == [v \in Users |-> <<[m |-> IF v = u THEN "start" ELSE "initiate", call |-> call']>>]
        <3>0. call' = calls + 1 /\ calls' = calls + 1 /\ Tell(msgs)
            BY <1>5, <2>1 DEF VideoAccept
        <3>1. calls + 1 \in 0..MaxRequests
            <4>1. calls + One(req # None) + Asking(u) + Asking(Partner(u)) <= requests
                BY DEF CallInv, Clicked
            <4>2. One(req # None) = 1
                BY <1>1, <2>1, TwoMembers DEF One
            <4>3. \A v \in Users : Asking(v) \in Nat
                BY <1>0, AskingType
            <4>4. requests \in Nat /\ requests <= MaxRequests
                BY <1>0, BoundsAreNumbers DEF TypeOK
            <4>5. Asking(u) \in Nat /\ Asking(Partner(u)) \in Nat
                BY <1>1, <4>3
            <4>6. QED
                BY <1>1, <4>1, <4>2, <4>4, <4>5, BoundsAreNumbers
        <3>2. msgs \in Notes
            BY <3>0, <3>1 DEF Notes, Msg
        <3>3. \A v \in Users : \A m \in Msg : msgs[v] = <<m>> => m.m \in Begins /\ Fits(m)'
            BY <3>0 DEF Begins, Fits
        <3>4. down' \in [Users -> Seq(Msg)] /\ \A v \in Users : Gets(v, Begins)
            BY <1>0, <3>0, <3>2, <3>3, GetsTold
        <3>5. QED
            BY <1>0, <1>1, <1>5, <2>1, <3>0, <3>4, AcceptInv DEF VideoAccept
    <2>2. QED
        BY <1>3, <1>5, <2>1 DEF VideoAccept
<1>6. CASE msg.m = "reject" /\ VideoReject(u)
    <2>1. CASE req = Partner(u)
        <3>1. ToPartner(u, M("reject")) \in Notes
            BY NotesFit
        <3>2. \A v \in Users : \A m \in Msg : ToPartner(u, M("reject"))[v] = <<m>> => m.m \in {"reject"}
            BY DEF ToPartner, M
        <3>3. QED
            BY <1>1, <1>2, <1>6, <2>1, <3>1, <3>2 DEF VideoReject, Begins, Fits
    <2>2. QED
        BY <1>3, <1>6, <2>1 DEF VideoReject
<1>7. CASE msg.m = "end" /\ VideoEnd(u)
    <2> DEFINE msgs == IF call # 0 THEN ToPartner(u, M("end")) ELSE ToNobody
    <2>1. msgs \in Notes
        BY NotesFit
    <2>2. \A v \in Users : \A m \in Msg : msgs[v] = <<m>> => m.m \in {"end"} /\ m.call = 0
        BY DEF ToPartner, ToNobody, M
    <2>3. \A v \in Users : \A m \in Msg : msgs[v] = <<m>> => m.m \in {"end"} /\ Fits(m)'
        BY <2>2 DEF Fits, Begins
    <2>4. {"end"} \cap Begins = {}
        BY DEF Begins
    <2>5. call' = 0 /\ Tell(msgs) /\ UNCHANGED <<open, locked, live, req, calls>>
        BY <1>7 DEF VideoEnd
    <2>6. QED
        BY <1>1, <1>2, <2>1, <2>3, <2>4, <2>5
<1>8. CASE msg \in Signals /\ RtcSignal(u, msg)
    <2> DEFINE msgs == IF call # 0 THEN ToPartner(u, msg) ELSE ToNobody
    <2>1. msgs \in Notes
        BY <1>0, NotesFit
    <2>2. \A v \in Users : \A m \in Msg : msgs[v] = <<m>> => m.m \in {"offer", "answer"}
        BY <1>8 DEF ToPartner, ToNobody, Signals
    <2>3. \A v \in Users : \A m \in Msg : msgs[v] = <<m>> => m.m \in {"offer", "answer"} /\ Fits(m)'
        BY <2>2 DEF Fits, Begins
    <2>4. {"offer", "answer"} \cap Begins = {}
        BY DEF Begins
    <2>5. Tell(msgs) /\ UNCHANGED <<open, locked, live, req, call, calls>>
        BY <1>8 DEF RtcSignal, server
    <2>6. QED
        BY <1>1, <1>2, <2>1, <2>3, <2>4, <2>5
<1>9. CASE msg.m = "skip" /\ Close(u)
    <2> DEFINE msgs == [v \in Users |-> IF v = u THEN <<>> ELSE <<M("left")>>]
    <2>1. msgs \in Notes
        BY NotesFit DEF Notes
    <2>2. \A v \in Users : \A m \in Msg : msgs[v] = <<m>> => m.m \in {"left"}
        BY DEF M
    <2>3. QED
        BY <1>1, <1>2, <1>9, <2>1, <2>2 DEF Close, Begins, Fits
<1>10. CASE msg.m = "rejoin" /\ Rejoin(u)
    <2>0. u \in linked
        BY <1>0 DEF CallInv, Unplugged
    <2>1. down \in [Users -> Seq(Msg)] /\ {M("gone"), M("end")} \subseteq Msg
        BY <1>0, NotesFit DEF TypeOK
    <2>2. CASE open = "no"
        <3>1. down' = [down EXCEPT ![u] = Append(@, M("gone"))] /\ UNCHANGED server
            BY <1>10, <2>2 DEF Rejoin
        <3>2. down' \in [Users -> Seq(Msg)]
            BY <2>1, <3>1
        <3>3. \A v \in Users : Gets(v, {"gone"})
            BY <2>1, <3>1 DEF Gets, Fits, M, Begins
        <3>4. QED
            BY <1>0, <1>1, <3>1, <3>2, <3>3, OrdinaryInv DEF server, Begins
    <2>3. CASE open # "no"
        <3>1. /\ live' = live \cup {u} /\ call' = 0 /\ UNCHANGED <<open, locked, req, calls>>
              /\ down' = [v \in Users |->
                    IF v \in live' /\ call # 0 THEN Append(down[v], M("end")) ELSE down[v]]
            BY <1>10, <2>3 DEF Rejoin
        <3>2. down' \in [Users -> Seq(Msg)]
            BY <2>1, <3>1
        <3>3. \A v \in Users : Gets(v, {"end"})
            BY <2>1, <3>1 DEF Gets, Fits, M, Begins
        <3>4. QED
            BY <1>0, <1>1, <2>0, <3>1, <3>2, <3>3, OrdinaryInv DEF Begins
    <2>4. QED
        BY <2>2, <2>3
<1>11. QED
    BY <1>0, <1>3, <1>4, <1>5, <1>6, <1>7, <1>8, <1>9, <1>10 DEF Handle

-----------------------------------------------------------------------------
(* So do the timers, the connections and the tabs.                         *)

LEMMA RoomEndsInv == CallInv /\ RoomEnds => CallInv'
<1> SUFFICES ASSUME CallInv, RoomEnds PROVE CallInv'
    OBVIOUS
<1>0. TypeOK /\ EventsFit /\ Unplugged
    BY DEF CallInv
<1>1. PICK w \in Users \cup {None} : Close(w)
    BY DEF RoomEnds
<1> DEFINE msgs == [v \in Users |-> IF v = w THEN <<>> ELSE <<M("left")>>]
<1>2. Tell(msgs) /\ open' = "no" /\ live' = {} /\ call' = 0 /\ req' = None /\ UNCHANGED <<locked, calls>>
    BY <1>1 DEF Close
<1>3. UNCHANGED <<linked, up, tab, starts, lit, marred, credit, requests>> /\ upsets' \in 0..MaxUpsets
    BY <1>0, BoundsAreNumbers DEF RoomEnds, tabs, TypeOK
<1>4. down' \in [Users -> Seq(Msg)] /\ \A v \in Users : Gets(v, {"left"})
    <2>1. msgs \in Notes
        BY NotesFit DEF Notes
    <2>2. \A v \in Users : \A m \in Msg : msgs[v] = <<m>> => m.m \in {"left"} /\ Fits(m)'
        BY DEF M, Fits, Begins
    <2>3. QED
        BY <1>0, <1>2, <2>1, <2>2, GetsTold
<1>5. TypeOK' /\ EventsFit'
    <2>1. calls' \in calls..MaxRequests /\ marred' \subseteq Users /\ open' \in {"yes", "no"}
        BY <1>0, <1>2, <1>3, BoundsAreNumbers DEF TypeOK
    <2>2. live' \subseteq linked /\ up' \in [Users -> Seq(Msg)] /\ call' \in {0, calls'}
          /\ {"left"} \cap Begins = {} /\ req' \in Users \cup {None}
        BY <1>0, <1>2, <1>3 DEF TypeOK, Begins
    <2>3. QED
        BY <1>0, <1>2, <1>3, <1>4, <2>1, <2>2, TypesKept
<1>6. Unplugged'
    BY <1>0, <1>3 DEF Unplugged
<1>7. Paid'
    <2>1. ASSUME NEW v \in Users PROVE Due(v)' <= credit'[v]
        <3>1. Count(Begins, down'[v]) = Count(Begins, down[v]) /\ Count(Begins, down[v]) \in Nat
            <4>1. {"left"} \cap Begins = {}
                BY DEF Begins
            <4>2. Gets(v, {"left"})
                BY <1>4
            <4>3. QED
                BY <1>0, <4>1, <4>2, BeginsCounted
        <3>2. Due(v)' = Count({"request", "accept"}, up'[v]) + One(req' = v) + Count(Begins, down'[v])
            BY DuePrimed
        <3>3. Due(v) = Count({"request", "accept"}, up[v]) + One(req = v) + Count(Begins, down[v])
            BY DEF Due
        <3>4. Count({"request", "accept"}, up[v]) \in Nat
            BY <1>0, CountType DEF TypeOK
        <3>5. One(req' = v) = 0 /\ One(req = v) \in Nat
            BY <1>2, TwoMembers DEF One
        <3>6. Due(v)' <= Due(v) /\ Due(v) \in Int
            BY <1>3, <3>1, <3>2, <3>3, <3>4, <3>5
        <3>7. Due(v)' \in Int
            BY <1>3, <3>1, <3>2, <3>4, <3>5
        <3>8. Due(v) <= credit[v] /\ credit[v] \in Int
            BY <1>0 DEF CallInv, Paid, TypeOK
        <3>9. QED
            BY <1>3, <3>6, <3>7, <3>8
    <2>2. QED
        BY <2>1 DEF Paid
<1>8. Clicked'
    <2>1. ASSUME NEW v \in Users
          PROVE  calls' + One(req' # None) + Asking(v)' + Asking(Partner(v))' <= requests'
        <3>1. Asking(v)' = Asking(v) /\ Asking(Partner(v))' = Asking(Partner(v))
            BY <1>3 DEF Asking, Count, One
        <3>2. calls + One(req # None) + Asking(v) + Asking(Partner(v)) <= requests
            BY DEF CallInv, Clicked
        <3>3. One(req' # None) = 0 /\ One(req # None) \in Nat
            BY <1>2 DEF One
        <3>4. \A x \in Users : Asking(x) \in Nat
            BY <1>0, AskingType
        <3>5. Asking(v) \in Nat /\ Asking(Partner(v)) \in Nat
            BY <3>4, PartnerIsOther
        <3>6. calls \in Nat /\ calls' = calls /\ requests \in Nat /\ requests' = requests
            BY <1>0, <1>2, <1>3, BoundsAreNumbers DEF TypeOK
        <3>7. QED
            BY <3>1, <3>2, <3>3, <3>5, <3>6
    <2>2. QED
        BY <2>1 DEF Clicked
<1>9. QED
    BY <1>5, <1>6, <1>7, <1>8 DEF CallInv

\* One asks less, or has clicked more: it adds up.
LEMMA FewerAsk ==
    ASSUME NEW n \in Nat, NEW o \in Nat, NEW a \in Nat, NEW b \in Nat, NEW d \in Nat,
           NEW r \in Nat, NEW s \in Nat, n + o + a + b <= r, d - s <= a - r
    PROVE  n + o + d + b <= s /\ n + o + b + d <= s
OBVIOUS

\* What one member's tab, or connection, does: its messages pay for themselves.
LEMMA OneTabInv ==
    ASSUME CallInv, NEW u \in Users, UNCHANGED <<open, locked, req, call, calls>>,
           live' \subseteq live, live' \subseteq linked', linked' \subseteq Users,
           \A v \in Users \ {u} : v \in linked' <=> v \in linked,
           u \notin linked' => up'[u] = <<>>,
           NEW t \in Tab, tab' = [tab EXCEPT ![u] = t],
           starts' \in [Users -> SUBSET Start], lit' \in [Users -> SUBSET Calls], marred' \subseteq Users,
           NEW newUp \in Seq(Msg), up' = [up EXCEPT ![u] = newUp],
           NEW newDown \in Seq(Msg), down' = [down EXCEPT ![u] = newDown],
           \A i \in DOMAIN newDown : \E j \in DOMAIN down[u] : newDown[i] = down[u][j],
           NEW c \in Int, credit' = [credit EXCEPT ![u] = c],
           Count({"request", "accept"}, newUp) + Count(Begins, newDown) - c
               <= Count({"request", "accept"}, up[u]) + Count(Begins, down[u]) - credit[u],
           requests' \in 0..MaxRequests, upsets' \in 0..MaxUpsets,
           Count({"request"}, newUp) + One(t.explain = "request") - requests'
               <= Asking(u) - requests, requests <= requests'
    PROVE  CallInv'
<1>0. /\ TypeOK /\ Unplugged /\ EventsFit /\ Paid /\ Clicked
      /\ calls \in Nat /\ requests \in Nat /\ requests' \in Nat /\ credit \in [Users -> Int]
      /\ up \in [Users -> Seq(Msg)] /\ down \in [Users -> Seq(Msg)] /\ tab \in [Users -> Tab]
    BY BoundsAreNumbers DEF CallInv, TypeOK
<1>1. TypeOK'
    BY <1>0 DEF TypeOK
<1>2. Unplugged'
    BY <1>0 DEF Unplugged
<1>3. EventsFit'
    <2>1. ASSUME NEW v \in Users, NEW i \in DOMAIN down'[v]
          PROVE  /\ down'[v][i].m \in Begins => down'[v][i].call \in 1..calls'
                 /\ down'[v][i].m = "end" => down'[v][i].call = 0
        <3>1. PICK j \in DOMAIN down[v] : down'[v][i] = down[v][j]
            BY <1>0, <2>1
        <3>2. QED
            BY <1>0, <3>1 DEF EventsFit
    <2>2. QED
        BY <2>1 DEF EventsFit
<1>4. Paid'
    <2>1. ASSUME NEW v \in Users PROVE Due(v)' <= credit'[v]
        <3>1. Due(v)' = Count({"request", "accept"}, up'[v]) + One(req' = v) + Count(Begins, down'[v])
            BY DuePrimed
        <3>2. Due(v) = Count({"request", "accept"}, up[v]) + One(req = v) + Count(Begins, down[v])
            BY DEF Due
        <3>3. Due(v) <= credit[v] /\ credit[v] \in Int
            BY <1>0 DEF Paid
        <3>4. One(req' = v) = One(req = v) /\ One(req = v) \in Nat
            BY DEF One
        <3>5. CASE v # u
            <4>1. up'[v] = up[v] /\ down'[v] = down[v] /\ credit'[v] = credit[v]
                BY <1>0, <3>5
            <4>2. QED
                BY <3>1, <3>2, <3>3, <3>4, <4>1
        <3>6. CASE v = u
            <4>1. up'[v] = newUp /\ down'[v] = newDown /\ credit'[v] = c
                BY <1>0, <3>6
            <4>2. /\ Count({"request", "accept"}, newUp) \in Nat /\ Count(Begins, newDown) \in Nat
                  /\ Count({"request", "accept"}, up[u]) \in Nat /\ Count(Begins, down[u]) \in Nat
                BY <1>0, CountType
            <4>3. PICK o \in Nat : o = One(req = v)
                BY <3>4
            <4>4. Count({"request", "accept"}, up[u]) + Count(Begins, down[u]) + o <= credit[u]
                BY <3>2, <3>3, <3>6, <4>2, <4>3
            <4>a. PICK p1 \in Nat, q1 \in Nat : p1 = Count({"request", "accept"}, newUp) /\ q1 = Count(Begins, newDown)
                BY <4>2
            <4>b. PICK p2 \in Nat, q2 \in Nat : p2 = Count({"request", "accept"}, up[u]) /\ q2 = Count(Begins, down[u])
                BY <4>2
            <4>c. PICK d \in Int : d = credit[u]
                BY <1>0
            <4>d. p1 + q1 - c <= p2 + q2 - d /\ p2 + q2 + o <= d
                BY <4>4, <4>a, <4>b, <4>c
            <4>e. p1 + q1 + o <= c
                BY <4>d
            <4>5. Count({"request", "accept"}, newUp) + Count(Begins, newDown) + o <= c
                BY <4>a, <4>e
            <4>6. QED
                BY <3>1, <3>4, <4>1, <4>2, <4>3, <4>5, SMTT(30)
        <3>7. QED
            BY <3>5, <3>6
    <2>2. QED
        BY <2>1 DEF Paid
<1>5. Clicked'
    <2>n. calls \in Nat /\ calls' = calls /\ requests \in Nat /\ requests' \in Nat
        BY <1>0
    <2>0. \A x \in Users : Asking(x) \in Nat
        BY <1>0, AskingType
    <2>1. ASSUME NEW x \in Users, x # u PROVE Asking(x)' = Asking(x)
        <3>1. up'[x] = up[x] /\ tab'[x] = tab[x]
            BY <1>0, <2>1
        <3>2. QED
            BY <3>1 DEF Asking, Count, One
    <2>2. Asking(u)' - requests' <= Asking(u) - requests /\ Asking(u)' \in Nat
        <3>1. Asking(u)' = Count({"request"}, up'[u]) + One(tab'[u].explain = "request")
            BY DuePrimed
        <3>2. up'[u] = newUp /\ tab'[u] = t
            BY <1>0
        <3>3. Count({"request"}, newUp) \in Nat /\ One(t.explain = "request") \in Nat
            BY CountType DEF One
        <3>4. QED
            BY <3>1, <3>2, <3>3
    <2>3. ASSUME NEW v \in Users
          PROVE  calls' + One(req' # None) + Asking(v)' + Asking(Partner(v))' <= requests'
        <3>1. Partner(v) \in Users /\ Partner(v) # v /\ u \in {v, Partner(v)}
            BY PartnerIsOther
        <3>2. calls + One(req # None) + Asking(v) + Asking(Partner(v)) <= requests
            BY <1>0 DEF Clicked
        <3>3. PICK o \in Nat : o = One(req # None) /\ o = One(req' # None)
            BY DEF One
        <3>4. PICK x \in Users : x # u /\ {v, Partner(v)} = {u, x}
            BY <3>1
        <3>5. PICK a \in Nat, b \in Nat, d \in Nat : a = Asking(u) /\ b = Asking(x) /\ d = Asking(u)'
            BY <2>0, <2>2, <3>4
        <3>6. Asking(x)' = b /\ Asking(x) = b
            BY <2>1, <3>4, <3>5
        <3>7. \/ Asking(v) = a /\ Asking(Partner(v)) = b /\ Asking(v)' = d /\ Asking(Partner(v))' = b
              \/ Asking(v) = b /\ Asking(Partner(v)) = a /\ Asking(v)' = b /\ Asking(Partner(v))' = d
            <4>1. (v = u /\ Partner(v) = x) \/ (v = x /\ Partner(v) = u)
                BY <3>1, <3>4
            <4>2. QED
                BY <3>5, <3>6, <4>1
        <3>8. calls + o + a + b <= requests
            <4>1. calls + o + Asking(v) + Asking(Partner(v)) <= requests
                BY <3>2, <3>3
            <4>2. Asking(v) + Asking(Partner(v)) = a + b
                BY <3>5, <3>7
            <4>3. Asking(v) \in Nat /\ Asking(Partner(v)) \in Nat
                BY <3>5, <3>7
            <4>4. QED
                BY <2>n, <4>1, <4>2, <4>3
        <3>9. d - requests' <= a - requests
            BY <2>2, <3>5
        <3>10. calls + o + d + b <= requests' /\ calls + o + b + d <= requests'
            BY <2>n, <3>8, <3>9, FewerAsk
        <3>11. CASE Asking(v)' = d /\ Asking(Partner(v))' = b
            BY <2>n, <3>3, <3>10, <3>11, Zenon
        <3>12. CASE Asking(v)' = b /\ Asking(Partner(v))' = d
            BY <2>n, <3>3, <3>10, <3>12, Zenon
        <3>13. QED
            BY <3>7, <3>11, <3>12
    <2>4. QED
        BY <2>3 DEF Clicked
<1>6. QED
    BY <1>1, <1>2, <1>3, <1>4, <1>5 DEF CallInv

\* A message that is sent is the last of its tab, if that has a connection.
LEMMA SentLast ==
    ASSUME CallInv, NEW u \in Users, NEW msgs \in Seq(Msg), Sends(u, msgs)
    PROVE  \E new \in Seq(Msg) : /\ up' = [up EXCEPT ![u] = new]
                                 /\ u \notin linked => new = <<>>
                                 /\ new = up[u] \/ new = up[u] \o msgs
                                 /\ \A k : Count(k, new) <= Count(k, up[u]) + Count(k, msgs)
<1>0. up \in [Users -> Seq(Msg)] /\ up[u] \in Seq(Msg)
    BY DEF CallInv, TypeOK
<1> DEFINE new == IF u \in linked THEN up[u] \o msgs ELSE up[u]
<1>1. new \in Seq(Msg) /\ up' = [up EXCEPT ![u] = new]
    BY <1>0 DEF Sends
<1>2. u \notin linked => new = <<>>
    BY DEF CallInv, Unplugged
<1>3. ASSUME NEW k PROVE Count(k, new) <= Count(k, up[u]) + Count(k, msgs)
    <2>1. Count(k, up[u]) \in Nat /\ Count(k, msgs) \in Nat
        BY <1>0, CountType
    <2>2. Count(k, up[u] \o msgs) = Count(k, up[u]) + Count(k, msgs)
        BY <1>0, CountJoined
    <2>3. QED
        BY <2>1, <2>2
<1>4. QED
    BY <1>1, <1>2, <1>3

LEMMA SendsNothing ==
    ASSUME TypeOK, NEW u \in Users, up' = up PROVE Sends(u, <<>>)
<1>1. up \in [Users -> Seq(Msg)]
    BY DEF TypeOK
<1>2. up[u] \o <<>> = up[u]
    BY <1>1
<1>3. QED
    BY <1>1, <1>2 DEF Sends

\* A click, or the end of something a tab waited for.
LEMMA ClickInv ==
    ASSUME CallInv, NEW u \in Users, UNCHANGED <<server, linked, down>>,
           NEW t \in Tab, tab' = [tab EXCEPT ![u] = t],
           starts' \in [Users -> SUBSET Start], lit' \in [Users -> SUBSET Calls], marred' \subseteq Users,
           NEW msgs \in Seq(Msg), Sends(u, msgs),
           NEW c \in Int, credit' = [credit EXCEPT ![u] = c],
           credit[u] + Count({"request", "accept"}, msgs) <= c,
           requests' \in 0..MaxRequests, upsets' \in 0..MaxUpsets, requests <= requests',
           Count({"request"}, msgs) + One(t.explain = "request") + requests
               <= One(tab[u].explain = "request") + requests'
    PROVE  CallInv'
<1>0. /\ up \in [Users -> Seq(Msg)] /\ up[u] \in Seq(Msg) /\ down[u] \in Seq(Msg) /\ down \in [Users -> Seq(Msg)]
      /\ live \subseteq linked /\ linked \subseteq Users /\ credit[u] \in Int /\ requests \in Nat /\ requests' \in Nat
    BY BoundsAreNumbers DEF CallInv, TypeOK
<1>1. PICK new \in Seq(Msg) : /\ up' = [up EXCEPT ![u] = new]
                              /\ u \notin linked => new = <<>>
                              /\ \A k : Count(k, new) <= Count(k, up[u]) + Count(k, msgs)
    BY SentLast
<1>2. /\ Count({"request", "accept"}, new) \in Nat /\ Count({"request", "accept"}, up[u]) \in Nat
      /\ Count({"request"}, new) \in Nat /\ Count({"request"}, up[u]) \in Nat
      /\ Count({"request", "accept"}, msgs) \in Nat /\ Count({"request"}, msgs) \in Nat
      /\ Count(Begins, down[u]) \in Nat
    BY <1>0, CountType
<1>a. PICK na \in Nat, ua \in Nat, ma \in Nat, bd \in Nat :
        /\ na = Count({"request", "accept"}, new) /\ ua = Count({"request", "accept"}, up[u])
        /\ ma = Count({"request", "accept"}, msgs) /\ bd = Count(Begins, down[u])
    BY <1>2
<1>b. PICK nr \in Nat, ur \in Nat, mr \in Nat :
        /\ nr = Count({"request"}, new) /\ ur = Count({"request"}, up[u])
        /\ mr = Count({"request"}, msgs)
    BY <1>2
<1>c. PICK a \in Nat, b \in Nat : a = One(t.explain = "request") /\ b = One(tab[u].explain = "request")
    BY DEF One
<1>d. PICK have \in Int : have = credit[u]
    BY <1>0
<1>e. PICK r \in Nat, s \in Nat : r = requests /\ s = requests'
    BY <1>0
<1>3. Count({"request", "accept"}, new) + Count(Begins, down[u]) - c
               <= Count({"request", "accept"}, up[u]) + Count(Begins, down[u]) - credit[u]
    <2>1. na <= ua + ma
        BY <1>1, <1>a
    <2>2. have + ma <= c
        BY <1>a, <1>d
    <2>3. na + bd - c <= ua + bd - have
        BY <2>1, <2>2
    <2>4. QED
        BY <2>3, <1>a, <1>d
<1>4. Count({"request"}, new) + One(t.explain = "request") - requests' <= Asking(u) - requests
    <2>1. nr <= ur + mr
        BY <1>1, <1>b
    <2>2. mr + a + r <= b + s
        BY <1>b, <1>c, <1>e
    <2>3. Asking(u) = ur + b
        BY <1>b, <1>c DEF Asking
    <2>4. nr + a - s <= (ur + b) - r
        BY <2>1, <2>2
    <2>5. QED
        BY <2>3, <2>4, <1>b, <1>c, <1>e
<1>5. down' = [down EXCEPT ![u] = down[u]]
    BY <1>0
<1>6. UNCHANGED <<open, locked, live, req, call, calls>>
    BY DEF server
<1>7. \A i \in DOMAIN down[u] : \E j \in DOMAIN down[u] : down[u][i] = down[u][j]
    OBVIOUS
<1>8. u \notin linked' => up'[u] = <<>>
    BY <1>0, <1>1
<1>9. live' \subseteq live /\ live' \subseteq linked' /\ linked' \subseteq Users
      /\ \A v \in Users \ {u} : v \in linked' <=> v \in linked
    BY <1>0, <1>6
<1>10. QED
    BY <1>0, <1>1, <1>3, <1>4, <1>5, <1>6, <1>7, <1>8, <1>9, OneTabInv

LEMMA CleanupFacts ==
    ASSUME TypeOK, NEW u \in Users, NEW t \in Tab, Cleanup(u, t)
    PROVE  \E clean \in Tab : /\ tab' = [tab EXCEPT ![u] = clean]
                              /\ clean.explain = t.explain /\ clean.chat = t.chat
                              /\ clean.media = 0 /\ clean.pc = 0 /\ clean.state = "idle"
                              /\ lit' = [lit EXCEPT ![u] = @ \ {t.pc, t.media}]
                              /\ lit' \in [Users -> SUBSET Calls] /\ marred' \subseteq Users
                              /\ marred' = IF starts'[u] = {} THEN marred ELSE marred \cup {u}
<1> DEFINE clean == [t EXCEPT !.media = 0, !.pc = 0, !.heard = "no", !.pending = <<>>, !.state = "idle"]
<1>1. 0 \in 0..MaxRequests /\ <<>> \in Seq(Signals)
    BY BoundsAreNumbers
<1>2. clean \in Tab /\ clean.explain = t.explain /\ clean.chat = t.chat /\ clean.media = 0 /\ clean.pc = 0
      /\ clean.state = "idle"
    BY <1>1 DEF Tab
<1>3. lit' \in [Users -> SUBSET Calls] /\ marred' \subseteq Users
    BY DEF Cleanup, TypeOK
<1>4. QED
    BY <1>2, <1>3 DEF Cleanup

LEMMA ClicksInv ==
    ASSUME CallInv, NEW u \in Users,
           \/ ClickRequest(u) \/ ClickRespond(u, TRUE) \/ ClickRespond(u, FALSE)
           \/ Confirm(u) \/ CancelExplainer(u)
    PROVE  CallInv'
<1>0. /\ TypeOK /\ tab \in [Users -> Tab] /\ tab[u] \in Tab /\ up \in [Users -> Seq(Msg)]
      /\ starts \in [Users -> SUBSET Start] /\ lit \in [Users -> SUBSET Calls] /\ marred \subseteq Users
      /\ credit \in [Users -> Int] /\ requests \in 0..MaxRequests /\ upsets \in 0..MaxUpsets
      /\ requests \in Nat /\ credit[u] \in Int
    BY BoundsAreNumbers DEF CallInv, TypeOK
<1>1. /\ <<M("request")>> \in Seq(Msg) /\ <<M("accept")>> \in Seq(Msg) /\ <<M("reject")>> \in Seq(Msg)
      /\ <<>> \in Seq(Msg)
      /\ M("request") \in Msg /\ M("accept") \in Msg /\ M("reject") \in Msg
    BY NotesFit
<1>2. /\ Count({"request"}, <<>>) = 0 /\ Count({"request", "accept"}, <<>>) = 0
      /\ Count({"request"}, <<M("request")>>) = 1 /\ Count({"request", "accept"}, <<M("request")>>) = 1
      /\ Count({"request"}, <<M("accept")>>) = 0 /\ Count({"request", "accept"}, <<M("accept")>>) = 1
      /\ Count({"request"}, <<M("reject")>>) = 0 /\ Count({"request", "accept"}, <<M("reject")>>) = 0
    <2>1. \A k : \A m \in {"request", "accept", "reject"} : Count(k, <<M(m)>>) = One(m \in k)
        <3>1. TAKE k
        <3>2. TAKE m \in {"request", "accept", "reject"}
        <3>3. M(m) \in Msg /\ M(m).m = m
            BY <1>1 DEF M
        <3>4. QED
            BY <3>3, CountFew
    <2>2. QED
        BY <2>1, CountFew DEF One
<1>3. One(TRUE) = 1 /\ One(FALSE) = 0
    BY DEF One
\* A tab whose explainer becomes what t says, and what it sends.
<1>4. ASSUME UNCHANGED <<server, linked, down, starts, lit, marred, upsets>>,
             NEW t \in Tab, tab' = [tab EXCEPT ![u] = t],
             NEW msgs \in {<<>>, <<M("request")>>, <<M("accept")>>, <<M("reject")>>}, Sends(u, msgs),
             NEW extra \in {0, 1}, extra = Count({"request", "accept"}, msgs),
             credit' = [credit EXCEPT ![u] = credit[u] + extra],
             requests' \in 0..MaxRequests, requests <= requests',
             Count({"request"}, msgs) + One(t.explain = "request") + requests
                 <= One(tab[u].explain = "request") + requests'
      PROVE  CallInv'
    <2>1. credit[u] + Count({"request", "accept"}, msgs) <= credit[u] + extra /\ credit[u] + extra \in Int
        BY <1>0, <1>4
    <2>2. /\ starts' \in [Users -> SUBSET Start] /\ lit' \in [Users -> SUBSET Calls] /\ marred' \subseteq Users
          /\ upsets' \in 0..MaxUpsets /\ msgs \in Seq(Msg)
        BY <1>0, <1>1, <1>4
    <2>3. QED
        BY <1>4, <2>1, <2>2, ClickInv
<1>5. CASE ClickRequest(u)
    <2>0. requests' = requests + 1 /\ requests' \in 0..MaxRequests /\ requests <= requests'
          /\ UNCHANGED <<server, linked, down, starts, lit, marred, upsets>>
        BY <1>0, <1>5, BoundsAreNumbers DEF ClickRequest
    <2>1. CASE Ask(u) /\ UNCHANGED tab
        <3>1. Sends(u, <<M("request")>>) /\ credit' = [credit EXCEPT ![u] = credit[u] + 1]
            BY <1>0, <2>1 DEF Ask
        <3>2. tab' = [tab EXCEPT ![u] = tab[u]]
            BY <1>0, <2>1
        <3>3. 1 + One(tab[u].explain = "request") + requests <= One(tab[u].explain = "request") + requests'
            <4>1. PICK o \in Nat : o = One(tab[u].explain = "request")
                BY DEF One
            <4>2. QED
                BY <1>0, <2>0, <4>1
        <3>4. QED
            BY <1>0, <1>2, <1>4, <2>0, <3>1, <3>2, <3>3
    <2>2. CASE tab' = [tab EXCEPT ![u].explain = "request"] /\ UNCHANGED <<up, credit>>
        <3> DEFINE t == [tab[u] EXCEPT !.explain = "request"]
        <3>1. t \in Tab /\ tab' = [tab EXCEPT ![u] = t] /\ t.explain = "request"
            BY <1>0, <2>2 DEF Tab
        <3>2. Sends(u, <<>>) /\ credit' = [credit EXCEPT ![u] = credit[u] + 0]
            BY <1>0, <2>2, SendsNothing
        <3>3. 0 + One(t.explain = "request") + requests <= One(tab[u].explain = "request") + requests'
            <4>1. PICK o \in Nat : o = One(tab[u].explain = "request")
                BY DEF One
            <4>2. One(t.explain = "request") = 1
                BY <3>1 DEF One
            <4>3. 0 + 1 + requests <= o + requests'
                BY <1>0, <2>0
            <4>4. QED
                BY <4>1, <4>2, <4>3
        <3>4. QED
            BY <1>0, <1>2, <1>4, <2>0, <3>1, <3>2, <3>3
    <2>3. QED
        BY <1>5, <2>1, <2>2 DEF ClickRequest
\* The others ask for nothing that was not being explained.
<1>6. ASSUME NEW t \in Tab, NEW msgs \in {<<>>, <<M("accept")>>, <<M("reject")>>, <<M("request")>>},
             msgs = <<M("request")>> => tab[u].explain = "request" /\ t.explain # "request",
             t.explain = "request" => tab[u].explain = "request", requests' = requests
      PROVE  Count({"request"}, msgs) + One(t.explain = "request") + requests
                 <= One(tab[u].explain = "request") + requests'
    <2>1. CASE msgs = <<M("request")>>
        <3>1. One(t.explain = "request") = 0 /\ One(tab[u].explain = "request") = 1
            BY <1>6, <2>1 DEF One
        <3>2. QED
            BY <1>0, <1>2, <1>6, <2>1, <3>1
    <2>2. CASE msgs # <<M("request")>>
        <3>1. PICK a \in Nat, b \in Nat : a = One(t.explain = "request") /\ b = One(tab[u].explain = "request") /\ a <= b
            BY <1>6 DEF One
        <3>2. Count({"request"}, msgs) = 0
            BY <1>2, <1>6, <2>2
        <3>3. 0 + a + requests <= b + requests
            BY <1>0, <3>1
        <3>4. QED
            BY <1>6, <3>1, <3>2, <3>3
    <2>3. QED
        BY <2>1, <2>2
<1>7. ASSUME NEW accept \in BOOLEAN, ClickRespond(u, accept) PROVE CallInv'
    <2>0. requests' = requests /\ requests' \in 0..MaxRequests /\ requests <= requests'
          /\ UNCHANGED <<server, linked, down, starts, lit, marred, upsets>>
        BY <1>0, <1>7 DEF ClickRespond, bounds
    <2>1. CASE accept /\ tab[u].explained = "no"
        <3> DEFINE t == [tab[u] EXCEPT !.incoming = "no", !.explain = "accept"]
        <3>1. t \in Tab /\ tab' = [tab EXCEPT ![u] = t] /\ t.explain = "accept"
            BY <1>0, <1>7, <2>1 DEF Tab, ClickRespond
        <3>2. Sends(u, <<>>) /\ credit' = [credit EXCEPT ![u] = credit[u] + 0]
            BY <1>0, <1>7, <2>1, SendsNothing DEF ClickRespond
        <3>3. Count({"request"}, <<>>) + One(t.explain = "request") + requests <= One(tab[u].explain = "request") + requests'
            <4>1. <<>> # <<M("request")>>
                OBVIOUS
            <4>2. QED
                BY <1>6, <2>0, <3>1, <4>1
        <3>4. QED
            BY <1>0, <1>2, <1>4, <2>0, <3>1, <3>2, <3>3
    <2>2. CASE ~(accept /\ tab[u].explained = "no")
        <3> DEFINE t == [tab[u] EXCEPT !.incoming = "no"]
        <3>1. t \in Tab /\ tab' = [tab EXCEPT ![u] = t] /\ t.explain = tab[u].explain
            BY <1>0, <1>7, <2>2 DEF Tab, ClickRespond
        <3>2. PICK msgs \in {<<M("accept")>>, <<M("reject")>>}, extra \in {0, 1} :
                  Sends(u, msgs) /\ extra = Count({"request", "accept"}, msgs)
                  /\ credit' = [credit EXCEPT ![u] = credit[u] + extra]
            <4>1. CASE accept
                <5>1. Sends(u, <<M("accept")>>) /\ credit' = [credit EXCEPT ![u] = credit[u] + 1]
                    BY <1>0, <1>7, <2>2, <4>1 DEF ClickRespond, Accept
                <5>2. QED
                    BY <1>2, <5>1
            <4>2. CASE ~accept
                <5>1. Sends(u, <<M("reject")>>) /\ credit' = [credit EXCEPT ![u] = credit[u] + 0]
                    BY <1>0, <1>7, <2>2, <4>2 DEF ClickRespond
                <5>2. QED
                    BY <1>2, <5>1
            <4>3. QED
                BY <4>1, <4>2
        <3>3. Count({"request"}, msgs) + One(t.explain = "request") + requests <= One(tab[u].explain = "request") + requests'
            <4>1. msgs # <<M("request")>>
                BY <3>2 DEF M
            <4>2. QED
                BY <1>6, <2>0, <3>1, <3>2, <4>1
        <3>4. QED
            BY <1>0, <1>4, <2>0, <3>1, <3>2, <3>3
    <2>3. QED
        BY <2>1, <2>2
<1>8. CASE Confirm(u)
    <2>0. requests' = requests /\ requests' \in 0..MaxRequests /\ requests <= requests'
          /\ UNCHANGED <<server, linked, down, starts, lit, marred, upsets>>
        BY <1>0, <1>8 DEF Confirm, bounds
    <2> DEFINE t == [tab[u] EXCEPT !.explain = "none", !.explained = "yes"]
    <2>1. t \in Tab /\ tab' = [tab EXCEPT ![u] = t] /\ t.explain = "none"
        BY <1>0, <1>8 DEF Tab, Confirm
    <2>2. PICK msgs \in {<<M("accept")>>, <<M("request")>>} :
              Sends(u, msgs) /\ credit' = [credit EXCEPT ![u] = credit[u] + 1]
              /\ (msgs = <<M("request")>> => tab[u].explain = "request")
        <3>1. <<M("accept")>> # <<M("request")>>
            BY DEF M
        <3>2. QED
            BY <1>0, <1>8, <3>1 DEF Confirm, Ask, Accept
    <2>3. Count({"request"}, msgs) + One(t.explain = "request") + requests <= One(tab[u].explain = "request") + requests'
        BY <1>6, <2>0, <2>1, <2>2
    <2>4. 1 = Count({"request", "accept"}, msgs)
        BY <1>2, <2>2
    <2>5. QED
        BY <1>0, <1>4, <2>0, <2>1, <2>2, <2>3, <2>4
<1>9. CASE CancelExplainer(u)
    <2>0. requests' = requests /\ requests' \in 0..MaxRequests /\ requests <= requests'
          /\ UNCHANGED <<server, linked, down, starts, lit, marred, upsets>>
        BY <1>0, <1>9 DEF CancelExplainer, bounds, net
    <2> DEFINE t == [tab[u] EXCEPT !.explain = "none"]
    <2>1. t \in Tab /\ tab' = [tab EXCEPT ![u] = t] /\ t.explain = "none"
        BY <1>0, <1>9 DEF Tab, CancelExplainer
    <2>2. Sends(u, <<>>) /\ credit' = [credit EXCEPT ![u] = credit[u] + 0]
        BY <1>0, <1>9, SendsNothing DEF CancelExplainer, net
    <2>3. Count({"request"}, <<>>) + One(t.explain = "request") + requests <= One(tab[u].explain = "request") + requests'
        <3>1. <<>> # <<M("request")>>
            OBVIOUS
        <3>2. QED
            BY <1>6, <2>0, <2>1, <3>1
    <2>4. QED
        BY <1>0, <1>2, <1>4, <2>0, <2>1, <2>2, <2>3
<1>10. QED
    BY <1>5, <1>7, <1>8, <1>9

LEMMA CountNone ==
    ASSUME NEW msgs \in Seq(Msg), NEW k, \A i \in DOMAIN msgs : msgs[i].m \notin k
    PROVE  Count(k, msgs) = 0
<1>1. {i \in DOMAIN msgs : msgs[i].m \in k} = {}
    OBVIOUS
<1>2. QED
    BY <1>1, FS_EmptySet DEF Count

LEMMA AnswersFit ==
    ASSUME NEW c \in 0..MaxRequests, NEW signals \in Seq(Signals)
    PROVE  Answers(c, signals) \in Seq(Msg)
           /\ \A i \in DOMAIN Answers(c, signals) : Answers(c, signals)[i] = [m |-> "answer", call |-> c]
<1> DEFINE offers == {j \in DOMAIN signals : signals[j].m = "offer"}
           answer == [m |-> "answer", call |-> c]
<1>1. IsFiniteSet(offers)
    <2>1. IsFiniteSet(DOMAIN signals) /\ offers \in SUBSET DOMAIN signals
        BY FS_Interval
    <2>2. QED
        BY <2>1, FS_Subset
<1>2. Cardinality(offers) \in Nat
    BY <1>1, FS_CardinalityType
<1>3. answer \in Msg
    BY DEF Msg
<1>4. PICK n \in Nat : n = Cardinality(offers)
    BY <1>2
<1>5. [i \in 1..n |-> answer] \in Seq(Msg)
    BY <1>3
<1>6. Answers(c, signals) = [i \in 1..n |-> answer]
    BY <1>4 DEF Answers
<1>7. QED
    BY <1>5, <1>6

LEMMA OffersFit ==
    ASSUME NEW s \in Start
    PROVE  Offers(s) \in Seq(Msg)
           /\ \A i \in DOMAIN Offers(s) : Offers(s)[i] = [m |-> "offer", call |-> s.call]
<1>1. [m |-> "offer", call |-> s.call] \in Msg
    BY BoundsAreNumbers DEF Msg, Start, Calls
<1>2. QED
    BY <1>1 DEF Offers

\* A tab that asks for nothing and accepts nothing.
LEMMA TalkInv ==
    ASSUME CallInv, NEW u \in Users, UNCHANGED <<server, linked, down, credit, requests>>,
           NEW t \in Tab, tab' = [tab EXCEPT ![u] = t], t.explain = "request" => tab[u].explain = "request",
           starts' \in [Users -> SUBSET Start], lit' \in [Users -> SUBSET Calls], marred' \subseteq Users,
           NEW msgs \in Seq(Msg), Sends(u, msgs),
           \A i \in DOMAIN msgs : msgs[i].m \notin {"request", "accept"},
           upsets' \in 0..MaxUpsets
    PROVE  CallInv'
<1>0. credit \in [Users -> Int] /\ credit[u] \in Int /\ requests \in 0..MaxRequests /\ requests \in Nat
    BY BoundsAreNumbers DEF CallInv, TypeOK
<1>1. Count({"request", "accept"}, msgs) = 0
    BY CountNone
<1>2. Count({"request"}, msgs) = 0
    BY CountNone
<1>3. credit' = [credit EXCEPT ![u] = credit[u]] /\ credit[u] + Count({"request", "accept"}, msgs) <= credit[u]
    BY <1>0, <1>1
<1>4. Count({"request"}, msgs) + One(t.explain = "request") + requests
          <= One(tab[u].explain = "request") + requests'
    <2>1. PICK a \in Nat, b \in Nat : a = One(t.explain = "request") /\ b = One(tab[u].explain = "request") /\ a <= b
        BY DEF One
    <2>2. 0 + a + requests <= b + requests
        BY <1>0, <2>1
    <2>3. QED
        BY <1>2, <2>1, <2>2
<1>5. requests' \in 0..MaxRequests /\ requests <= requests'
    BY <1>0
<1>6. QED
    BY <1>0, <1>3, <1>4, <1>5, ClickInv

LEMMA TalksInv ==
    ASSUME CallInv, NEW u \in Users,
           ClickEnd(u) \/ ClickSkip(u) \/ MediaReady(u) \/ CallReady(u) \/ StartFails(u)
    PROVE  CallInv'
<1>0. /\ TypeOK /\ tab \in [Users -> Tab] /\ tab[u] \in Tab /\ up \in [Users -> Seq(Msg)]
      /\ starts \in [Users -> SUBSET Start] /\ lit \in [Users -> SUBSET Calls] /\ marred \subseteq Users
      /\ upsets \in 0..MaxUpsets /\ upsets \in Nat
    BY BoundsAreNumbers DEF CallInv, TypeOK
<1>1. CASE ClickEnd(u)
    <2>1. PICK t \in Tab : /\ tab' = [tab EXCEPT ![u] = t] /\ t.explain = tab[u].explain
                           /\ lit' \in [Users -> SUBSET Calls] /\ marred' \subseteq Users
        BY <1>0, <1>1, CleanupFacts DEF ClickEnd
    <2> DEFINE msgs == <<[m |-> "end", call |-> tab[u].media]>>
    <2>2. msgs \in Seq(Msg) /\ \A i \in DOMAIN msgs : msgs[i].m \notin {"request", "accept"}
        BY <1>0 DEF Msg, Tab
    <2>3. /\ UNCHANGED <<server, linked, down, credit, requests>> /\ Sends(u, msgs)
          /\ starts' \in [Users -> SUBSET Start] /\ upsets' \in 0..MaxUpsets
        BY <1>0, <1>1 DEF ClickEnd, bounds
    <2>4. QED
        BY <2>1, <2>2, <2>3, TalkInv
<1>2. CASE ClickSkip(u)
    <2> DEFINE gone == [tab[u] EXCEPT !.chat = "off", !.incoming = "no", !.explain = "none"]
               msgs == <<M("skip")>>
    <2>1. gone \in Tab /\ gone.explain = "none"
        BY <1>0 DEF Tab
    <2>2. Cleanup(u, gone)
        BY <1>2 DEF ClickSkip, Leave
    <2>3. PICK t \in Tab : /\ tab' = [tab EXCEPT ![u] = t] /\ t.explain = "none"
                           /\ lit' \in [Users -> SUBSET Calls] /\ marred' \subseteq Users
        <3> HIDE DEF gone
        <3>1. QED
            BY <1>0, <2>1, <2>2, CleanupFacts
    <2>4. msgs \in Seq(Msg) /\ \A i \in DOMAIN msgs : msgs[i].m \notin {"request", "accept"}
        BY NotesFit DEF M
    <2>5. /\ UNCHANGED <<server, linked, down, credit, requests>> /\ Sends(u, msgs)
          /\ starts' \in [Users -> SUBSET Start] /\ upsets' \in 0..MaxUpsets
        BY <1>0, <1>2, BoundsAreNumbers DEF ClickSkip
    <2>6. QED
        BY <2>3, <2>4, <2>5, TalkInv
<1>3. CASE MediaReady(u)
    <2>1. PICK s \in starts[u] :
              /\ starts' = [starts EXCEPT ![u] = (@ \ {s}) \cup {[s EXCEPT !.stage = "setup"]}]
              /\ lit' = [lit EXCEPT ![u] = @ \cup {s.call}]
              /\ tab' = [tab EXCEPT ![u].media = s.call,
                                    ![u].state = IF tab[u].chat = "on" THEN "active" ELSE @]
              /\ UNCHANGED <<server, net, marred, credit, bounds>>
        BY <1>3 DEF MediaReady
    <2>2. s \in Start /\ s.call \in Calls /\ s.call \in 0..MaxRequests /\ [s EXCEPT !.stage = "setup"] \in Start
        <3>1. s \in Start
            BY <1>0
        <3>2. s.call \in Calls /\ [s EXCEPT !.stage = "setup"] \in Start
            BY <3>1 DEF Start
        <3>3. QED
            BY <3>1, <3>2, BoundsAreNumbers DEF Calls
    <2> DEFINE t == [tab[u] EXCEPT !.media = s.call, !.state = IF tab[u].chat = "on" THEN "active" ELSE @]
    <2>3. t \in Tab /\ tab' = [tab EXCEPT ![u] = t] /\ t.explain = tab[u].explain
        BY <1>0, <2>1, <2>2 DEF Tab
    <2>4. starts' \in [Users -> SUBSET Start] /\ lit' \in [Users -> SUBSET Calls]
        BY <1>0, <2>1, <2>2
    <2>5. Sends(u, <<>>) /\ <<>> \in Seq(Msg) /\ \A i \in DOMAIN <<>> : <<>>[i].m \notin {"request", "accept"}
        BY <1>0, <2>1, SendsNothing DEF net
    <2>6. /\ UNCHANGED <<server, linked, down, credit, requests>>
          /\ upsets' \in 0..MaxUpsets /\ marred' \subseteq Users
        BY <1>0, <2>1 DEF net, bounds
    <2>7. t.explain = "request" => tab[u].explain = "request"
        BY <2>3
    <2> HIDE DEF t
    <2>8. QED
        BY <2>3, <2>4, <2>5, <2>6, <2>7, TalkInv
<1>4. CASE CallReady(u)
    <2>1. PICK s \in starts[u] :
              /\ starts' = [starts EXCEPT ![u] = @ \ {s}]
              /\ tab' = [tab EXCEPT ![u].pc = s.call, ![u].pending = <<>>, ![u].heard = Hears(s.call, tab[u].pending)]
              /\ Sends(u, Offers(s) \o Answers(s.call, tab[u].pending))
              /\ UNCHANGED <<server, linked, down, lit, marred, credit, bounds>>
        BY <1>4 DEF CallReady
    <2>2. s \in Start /\ s.call \in 0..MaxRequests /\ tab[u].pending \in Seq(Signals)
        BY <1>0, BoundsAreNumbers DEF Start, Calls, Tab
    <2> DEFINE t == [tab[u] EXCEPT !.pc = s.call, !.pending = <<>>, !.heard = Hears(s.call, tab[u].pending)]
               msgs == Offers(s) \o Answers(s.call, tab[u].pending)
    <2>3. t \in Tab /\ t.explain = tab[u].explain
        <3>1. Hears(s.call, tab[u].pending) \in {"yes", "no"} /\ <<>> \in Seq(Signals)
            BY DEF Hears
        <3>2. QED
            BY <1>0, <2>2, <3>1 DEF Tab
    <2>4. tab' = [tab EXCEPT ![u] = t]
        BY <1>0, <2>1 DEF Tab
    <2>5. msgs \in Seq(Msg) /\ \A i \in DOMAIN msgs : msgs[i].m \in {"offer", "answer"}
        <3>1. Offers(s) \in Seq(Msg) /\ Answers(s.call, tab[u].pending) \in Seq(Msg)
            BY <2>2, OffersFit, AnswersFit
        <3>2. \A i \in DOMAIN Offers(s) : Offers(s)[i].m = "offer"
            BY <2>2, OffersFit
        <3>3. \A i \in DOMAIN Answers(s.call, tab[u].pending) : Answers(s.call, tab[u].pending)[i].m = "answer"
            BY <2>2, AnswersFit
        <3>4. QED
            BY <3>1, <3>2, <3>3
    <2>6. starts' \in [Users -> SUBSET Start]
        BY <1>0, <2>1
    <2>7. QED
        BY <1>0, <2>1, <2>3, <2>4, <2>5, <2>6, TalkInv DEF bounds
<1>5. CASE StartFails(u)
    <2>1. PICK s \in starts[u] :
              /\ upsets < MaxUpsets /\ upsets' = upsets + 1
              /\ starts' = [starts EXCEPT ![u] = @ \ {s}]
              /\ Cleanup(u, tab[u])
              /\ Sends(u, <<[m |-> "end", call |-> s.call]>>)
              /\ UNCHANGED <<server, linked, down, credit, requests>>
        BY <1>5 DEF StartFails
    <2>2. PICK t \in Tab : /\ tab' = [tab EXCEPT ![u] = t] /\ t.explain = tab[u].explain
                           /\ lit' \in [Users -> SUBSET Calls] /\ marred' \subseteq Users
        BY <1>0, <2>1, CleanupFacts
    <2> DEFINE msgs == <<[m |-> "end", call |-> s.call]>>
    <2>3. msgs \in Seq(Msg) /\ \A i \in DOMAIN msgs : msgs[i].m \notin {"request", "accept"}
        BY <1>0, BoundsAreNumbers DEF Msg, Start, Calls
    <2>4. starts' \in [Users -> SUBSET Start] /\ upsets' \in 0..MaxUpsets
        BY <1>0, <2>1, BoundsAreNumbers
    <2>5. Sends(u, msgs)
        BY <2>1
    <2> HIDE DEF msgs
    <2>6. QED
        BY <2>1, <2>2, <2>3, <2>4, <2>5, TalkInv
<1>6. QED
    BY <1>1, <1>2, <1>3, <1>4, <1>5

LEMMA ConnectionsInv ==
    ASSUME CallInv, NEW u \in Users, Break(u) \/ Reconnect(u)
    PROVE  CallInv'
<1>0. /\ TypeOK /\ Unplugged /\ tab \in [Users -> Tab] /\ tab[u] \in Tab /\ up \in [Users -> Seq(Msg)]
      /\ down \in [Users -> Seq(Msg)] /\ down[u] \in Seq(Msg) /\ up[u] \in Seq(Msg)
      /\ starts \in [Users -> SUBSET Start] /\ lit \in [Users -> SUBSET Calls] /\ marred \subseteq Users
      /\ upsets \in 0..MaxUpsets /\ upsets \in Nat /\ live \subseteq linked /\ linked \subseteq Users
      /\ credit \in [Users -> Int] /\ credit[u] \in Int /\ requests \in 0..MaxRequests /\ requests \in Nat
    BY BoundsAreNumbers DEF CallInv, TypeOK
<1>1. PICK newUp \in Seq(Msg), newDown \in Seq(Msg) :
          /\ up' = [up EXCEPT ![u] = newUp] /\ down' = [down EXCEPT ![u] = newDown]
          /\ Count({"request", "accept"}, newUp) = 0 /\ Count({"request"}, newUp) = 0
          /\ newDown \in {<<>>, down[u]} /\ (u \notin linked' => newUp = <<>>)
    <2>0. Count({"request", "accept"}, <<>>) = 0 /\ Count({"request"}, <<>>) = 0 /\ <<>> \in Seq(Msg)
        BY CountFew
    <2>1. CASE Break(u)
        BY <2>0, <2>1 DEF Break
    <2>2. CASE Reconnect(u)
        <3>1. <<M("rejoin")>> \in Seq(Msg) /\ \A i \in DOMAIN <<M("rejoin")>> : <<M("rejoin")>>[i].m = "rejoin"
            BY NotesFit DEF M
        <3>2. Count({"request", "accept"}, <<M("rejoin")>>) = 0
            BY <3>1, CountNone
        <3>3. Count({"request"}, <<M("rejoin")>>) = 0
            BY <3>1, CountNone
        <3>4. down' = [down EXCEPT ![u] = down[u]] /\ u \in linked'
            BY <1>0, <2>2 DEF Reconnect
        <3>5. CASE tab[u].chat = "on"
            <4>1. up' = [up EXCEPT ![u] = <<M("rejoin")>>]
                BY <2>2, <3>5 DEF Reconnect
            <4>2. QED
                BY <1>0, <3>1, <3>2, <3>3, <3>4, <4>1
        <3>6. CASE tab[u].chat # "on"
            <4>1. up' = [up EXCEPT ![u] = <<>>]
                BY <2>2, <3>6 DEF Reconnect
            <4>2. QED
                BY <1>0, <2>0, <3>4, <4>1
        <3>7. QED
            BY <3>5, <3>6
    <2>3. QED
        BY <2>1, <2>2
<1>2. /\ UNCHANGED <<open, locked, req, call, calls, tab, starts, lit, credit, requests>>
      /\ live' \subseteq live /\ live' \subseteq linked' /\ linked' \subseteq Users
      /\ \A v \in Users \ {u} : v \in linked' <=> v \in linked
      /\ marred' \subseteq Users /\ upsets' \in 0..MaxUpsets
    <2>1. CASE Break(u)
        BY <1>0, <2>1, BoundsAreNumbers DEF Break, tabs
    <2>2. CASE Reconnect(u)
        BY <1>0, <2>2 DEF Reconnect, server, tabs, bounds
    <2>3. QED
        BY <2>1, <2>2
<1>3. PICK p1 \in Nat, q1 \in Nat, p2 \in Nat, q2 \in Nat :
          /\ p1 = Count({"request", "accept"}, up[u]) /\ q1 = Count(Begins, down[u])
          /\ p2 = Count({"request"}, up[u]) /\ q2 = Count(Begins, newDown) /\ q2 <= q1
    <2>1. /\ Count({"request", "accept"}, up[u]) \in Nat /\ Count(Begins, down[u]) \in Nat
          /\ Count({"request"}, up[u]) \in Nat
        BY <1>0, CountType
    <2>2. Count(Begins, <<>>) = 0
        BY CountFew
    <2>3. QED
        BY <1>1, <2>1, <2>2
<1>4. Count({"request", "accept"}, newUp) + Count(Begins, newDown) - credit[u]
          <= Count({"request", "accept"}, up[u]) + Count(Begins, down[u]) - credit[u]
    <2>1. credit[u] \in Int
        BY <1>0
    <2>2. 0 + q2 - credit[u] <= p1 + q1 - credit[u]
        BY <1>3, <2>1
    <2>3. QED
        BY <1>1, <1>3, <2>2
<1>5. Count({"request"}, newUp) + One(tab[u].explain = "request") - requests' <= Asking(u) - requests
    <2>1. PICK o \in Nat : o = One(tab[u].explain = "request")
        BY DEF One
    <2>2. Asking(u) = p2 + o
        BY <1>3, <2>1 DEF Asking
    <2>3. 0 + o - requests <= (p2 + o) - requests
        BY <1>0
    <2>4. QED
        BY <1>1, <1>2, <2>1, <2>2, <2>3
<1>6. /\ credit' = [credit EXCEPT ![u] = credit[u]] /\ tab' = [tab EXCEPT ![u] = tab[u]]
      /\ requests' \in 0..MaxRequests /\ requests <= requests'
      /\ starts' \in [Users -> SUBSET Start] /\ lit' \in [Users -> SUBSET Calls]
      /\ (u \notin linked' => up'[u] = <<>>)
      /\ \A i \in DOMAIN newDown : \E j \in DOMAIN down[u] : newDown[i] = down[u][j]
    BY <1>0, <1>1, <1>2
<1>7. UNCHANGED <<open, locked, req, call, calls>> /\ tab[u] \in Tab /\ credit[u] \in Int
    BY <1>0, <1>2
<1>8. QED
    BY <1>1, <1>2, <1>4, <1>5, <1>6, <1>7, OneTabInv, ZenonT(60)


\* What reaches a tab: it asks for nothing, and a start uses one entitlement.
LEMMA HeardInv ==
    ASSUME CallInv, NEW u \in Users, down[u] # <<>>, UNCHANGED <<server, linked, bounds>>,
           NEW newDown \in {Tail(down[u]), <<>>}, down' = [down EXCEPT ![u] = newDown],
           NEW t \in Tab, tab' = [tab EXCEPT ![u] = t], t.explain = "request" => tab[u].explain = "request",
           starts' \in [Users -> SUBSET Start], lit' \in [Users -> SUBSET Calls], marred' \subseteq Users,
           NEW msgs \in Seq(Msg), Sends(u, msgs),
           \A i \in DOMAIN msgs : msgs[i].m \notin {"request", "accept"},
           NEW c \in Int, credit' = [credit EXCEPT ![u] = c],
           \/ c = credit[u]
           \/ c = credit[u] - 1 /\ newDown = Tail(down[u]) /\ Head(down[u]).m \in Begins
    PROVE  CallInv'
<1>0. /\ TypeOK /\ up \in [Users -> Seq(Msg)] /\ up[u] \in Seq(Msg) /\ down[u] \in Seq(Msg)
      /\ down \in [Users -> Seq(Msg)] /\ Tail(down[u]) \in Seq(Msg)
      /\ live \subseteq linked /\ linked \subseteq Users /\ credit[u] \in Int
      /\ requests \in 0..MaxRequests /\ requests \in Nat /\ upsets \in 0..MaxUpsets
    BY BoundsAreNumbers DEF CallInv, TypeOK
<1>1. PICK new \in Seq(Msg) : /\ up' = [up EXCEPT ![u] = new]
                              /\ u \notin linked => new = <<>>
                              /\ \A k : Count(k, new) <= Count(k, up[u]) + Count(k, msgs)
    BY SentLast
<1>2. Count({"request", "accept"}, msgs) = 0
    BY CountNone
<1>3. Count({"request"}, msgs) = 0
    BY CountNone
<1>4. newDown \in Seq(Msg) /\ \A i \in DOMAIN newDown : \E j \in DOMAIN down[u] : newDown[i] = down[u][j]
    <2>1. \A i \in DOMAIN Tail(down[u]) : i + 1 \in DOMAIN down[u] /\ Tail(down[u])[i] = down[u][i + 1]
        BY <1>0
    <2>2. CASE newDown = Tail(down[u])
        BY <1>0, <2>1, <2>2
    <2>3. CASE newDown = <<>>
        BY <2>3
    <2>4. QED
        BY <2>2, <2>3
<1>5. PICK na \in Nat, ua \in Nat, nr \in Nat, ur \in Nat :
          /\ na = Count({"request", "accept"}, new) /\ ua = Count({"request", "accept"}, up[u])
          /\ nr = Count({"request"}, new) /\ ur = Count({"request"}, up[u])
          /\ na <= ua /\ nr <= ur
    <2>1. /\ Count({"request", "accept"}, new) \in Nat /\ Count({"request", "accept"}, up[u]) \in Nat
          /\ Count({"request"}, new) \in Nat /\ Count({"request"}, up[u]) \in Nat
        BY <1>0, CountType
    <2>2. Count({"request", "accept"}, new) <= Count({"request", "accept"}, up[u]) + Count({"request", "accept"}, msgs)
        BY <1>1
    <2>3. Count({"request"}, new) <= Count({"request"}, up[u]) + Count({"request"}, msgs)
        BY <1>1
    <2>4. QED
        BY <1>2, <1>3, <2>1, <2>2, <2>3
<1>6. PICK nd \in Nat, od \in Nat, h \in Nat, td \in Nat :
          /\ nd = Count(Begins, newDown) /\ od = Count(Begins, down[u])
          /\ td = Count(Begins, Tail(down[u])) /\ h = One(Head(down[u]).m \in Begins)
          /\ od = td + h /\ (newDown = Tail(down[u]) => nd = td) /\ (newDown = <<>> => nd = 0)
    <2>1. /\ Count(Begins, newDown) \in Nat /\ Count(Begins, down[u]) \in Nat
          /\ Count(Begins, Tail(down[u])) \in Nat
        BY <1>0, <1>4, CountType
    <2>2. Count(Begins, down[u]) = Count(Begins, Tail(down[u])) + One(Head(down[u]).m \in Begins)
        BY <1>0, CountRest
    <2>3. Count(Begins, <<>>) = 0
        BY CountFew
    <2>4. One(Head(down[u]).m \in Begins) \in Nat
        BY DEF One
    <2>5. QED
        BY <2>1, <2>2, <2>3, <2>4
<1>7. PICK d \in Int : d = credit[u]
    BY <1>0
<1>8. Count({"request", "accept"}, new) + Count(Begins, newDown) - c
          <= Count({"request", "accept"}, up[u]) + Count(Begins, down[u]) - credit[u]
    <2>1. nd <= od
        BY <1>6
    <2>2. CASE c = credit[u]
        <3>1. na + nd - c <= ua + od - d
            BY <1>5, <1>7, <2>1, <2>2
        <3>2. QED
            BY <1>5, <1>6, <1>7, <3>1
    <2>3. CASE c = credit[u] - 1 /\ newDown = Tail(down[u]) /\ Head(down[u]).m \in Begins
        <3>1. h = 1
            BY <1>6, <2>3 DEF One
        <3>2. nd + 1 = od
            BY <1>6, <2>3, <3>1
        <3>a. c = d - 1 /\ na <= ua
            BY <1>5, <1>7, <2>3
        <3>3. na + nd - c <= ua + od - d
            BY <3>a, <3>2
        <3>4. QED
            BY <1>5, <1>6, <1>7, <3>3
    <2>4. QED
        BY <2>2, <2>3
<1>9. Count({"request"}, new) + One(t.explain = "request") - requests' <= Asking(u) - requests
    <2>1. PICK a \in Nat, b \in Nat : a = One(t.explain = "request") /\ b = One(tab[u].explain = "request") /\ a <= b
        BY DEF One
    <2>2. Asking(u) = ur + b
        BY <1>5, <2>1 DEF Asking
    <2>a. nr <= ur /\ a <= b /\ requests \in Nat
        BY <1>0, <1>5, <2>1
    <2>3. nr + a - requests <= (ur + b) - requests
        BY <2>a
    <2>4. QED
        BY <1>5, <2>1, <2>2, <2>3 DEF bounds
<1>10. /\ UNCHANGED <<open, locked, req, call, calls>>
       /\ live' \subseteq live /\ live' \subseteq linked' /\ linked' \subseteq Users
       /\ \A v \in Users \ {u} : v \in linked' <=> v \in linked
       /\ u \notin linked' => up'[u] = <<>>
       /\ requests' \in 0..MaxRequests /\ requests <= requests' /\ upsets' \in 0..MaxUpsets
    BY <1>0, <1>1 DEF server, bounds
<1>11. QED
    BY <1>1, <1>4, <1>8, <1>9, <1>10, OneTabInv

LEMMA DeliverInv ==
    ASSUME CallInv, NEW u \in Users, Deliver(u)
    PROVE  CallInv'
<1> DEFINE msg == Head(down[u])
           rest == IF tab[u].chat = "on" THEN Tail(down[u]) ELSE <<>>
<1>0. /\ TypeOK /\ EventsFit /\ tab \in [Users -> Tab] /\ tab[u] \in Tab /\ down \in [Users -> Seq(Msg)]
      /\ starts \in [Users -> SUBSET Start] /\ lit \in [Users -> SUBSET Calls] /\ marred \subseteq Users
      /\ credit \in [Users -> Int] /\ credit[u] \in Int /\ calls \in 0..MaxRequests
      /\ down[u] \in Seq(Msg) /\ 0 \in 0..MaxRequests
    BY BoundsAreNumbers DEF CallInv, TypeOK
<1>1. /\ down[u] # <<>> /\ UNCHANGED <<server, linked, bounds>> /\ msg \in Msg
      /\ rest \in {Tail(down[u]), <<>>} /\ down' = [down EXCEPT ![u] = rest]
    BY <1>0 DEF Deliver
<1>2. credit' = credit => credit' = [credit EXCEPT ![u] = credit[u]]
    BY <1>0
<1>3. up' = up => Sends(u, <<>>) /\ <<>> \in Seq(Msg) /\ \A i \in DOMAIN <<>> : <<>>[i].m \notin {"request", "accept"}
    BY <1>0, SendsNothing
\* The tab shows something.
<1>4. ASSUME NEW t \in Tab, tab' = [tab EXCEPT ![u] = t], t.explain = tab[u].explain,
             UNCHANGED <<starts, lit, marred, credit, up>>
      PROVE  CallInv'
    <2>1. /\ starts' \in [Users -> SUBSET Start] /\ lit' \in [Users -> SUBSET Calls] /\ marred' \subseteq Users
          /\ credit' = [credit EXCEPT ![u] = credit[u]]
        BY <1>0, <1>2, <1>4
    <2>2. up' = up
        BY <1>4
    <2> HIDE DEF rest
    <2>3. QED
        BY <1>0, <1>1, <1>3, <1>4, <2>1, <2>2, HeardInv
\* The tab cleans up.
<1>5. ASSUME NEW t \in Tab, Cleanup(u, t), t.explain \in {"none", tab[u].explain},
             UNCHANGED <<starts, credit, up>>
      PROVE  CallInv'
    <2>1. PICK clean \in Tab : /\ tab' = [tab EXCEPT ![u] = clean] /\ clean.explain = t.explain
                               /\ lit' \in [Users -> SUBSET Calls] /\ marred' \subseteq Users
        BY <1>0, <1>5, CleanupFacts
    <2>2. /\ starts' \in [Users -> SUBSET Start] /\ credit' = [credit EXCEPT ![u] = credit[u]]
          /\ clean.explain = "request" => tab[u].explain = "request"
        BY <1>0, <1>2, <1>5, <2>1
    <2>3. up' = up
        BY <1>5
    <2> HIDE DEF rest
    <2>4. QED
        BY <1>0, <1>1, <1>3, <2>1, <2>2, <2>3, HeardInv
<1>6. CASE tab' = [tab EXCEPT ![u] = tab[u]] /\ UNCHANGED <<starts, lit, marred, credit, up>>
    BY <1>0, <1>4, <1>6
<1>7. CASE tab' = [tab EXCEPT ![u] = [tab[u] EXCEPT !.incoming = "yes"]] /\ UNCHANGED <<starts, lit, marred, credit, up>>
    <2>1. [tab[u] EXCEPT !.incoming = "yes"] \in Tab
        BY <1>0 DEF Tab
    <2>2. [tab[u] EXCEPT !.incoming = "yes"].explain = tab[u].explain
        BY <1>0 DEF Tab
    <2>3. QED
        BY <1>4, <1>7, <2>1, <2>2
<1>8. ASSUME NEW s \in {"requesting", "idle"}, tab' = [tab EXCEPT ![u] = [tab[u] EXCEPT !.state = s]],
             UNCHANGED <<starts, lit, marred, credit, up>>
      PROVE  CallInv'
    <2>1. [tab[u] EXCEPT !.state = s] \in Tab /\ [tab[u] EXCEPT !.state = s].explain = tab[u].explain
        BY <1>0 DEF Tab
    <2>2. QED
        BY <1>4, <1>8, <2>1
<1>9. CASE /\ tab[u].chat = "on" /\ msg.m \in {"initiate", "start"}
           /\ starts' = [starts EXCEPT ![u] = @ \cup {[call |-> msg.call, role |-> msg.m, stage |-> "media"]}]
           /\ credit' = [credit EXCEPT ![u] = @ - 1]
           /\ UNCHANGED <<tab, lit, marred, up>>
    <2>1. 1 \in DOMAIN down[u] /\ msg = down[u][1]
        BY <1>0, <1>1
    <2>2. msg.call \in 1..calls
        BY <1>0, <1>9, <2>1 DEF EventsFit, Begins
    <2>3. msg.call \in Calls
        BY <1>0, <2>2, BoundsAreNumbers DEF Calls
    <2>4. [call |-> msg.call, role |-> msg.m, stage |-> "media"] \in Start
        BY <1>9, <2>3 DEF Start
    <2>5. /\ starts' \in [Users -> SUBSET Start] /\ lit' \in [Users -> SUBSET Calls] /\ marred' \subseteq Users
        BY <1>0, <1>9, <2>4
    <2>6. tab' = [tab EXCEPT ![u] = tab[u]] /\ (tab[u].explain = "request" => tab[u].explain = "request")
        BY <1>0, <1>9
    <2>7. credit[u] - 1 \in Int /\ credit' = [credit EXCEPT ![u] = credit[u] - 1]
        BY <1>0, <1>9
    <2>8. rest = Tail(down[u]) /\ Head(down[u]).m \in Begins
        BY <1>9 DEF Begins
    <2>9. up' = up
        BY <1>9
    <2> HIDE DEF rest
    <2>10. QED
        BY <1>0, <1>1, <1>3, <2>5, <2>6, <2>7, <2>8, <2>9, HeardInv
<1>10. CASE UNCHANGED starts /\ Cleanup(u, tab[u]) /\ UNCHANGED <<credit, up>>
    BY <1>0, <1>5, <1>10
<1>11. CASE UNCHANGED starts /\ Leave(u) /\ UNCHANGED <<credit, up>>
    <2> DEFINE t == [tab[u] EXCEPT !.chat = "off", !.incoming = "no", !.explain = "none"]
    <2>1. t \in Tab /\ t.explain = "none"
        BY <1>0 DEF Tab
    <2>2. Cleanup(u, t)
        BY <1>11 DEF Leave
    <2> HIDE DEF t
    <2>3. QED
        BY <1>5, <1>11, <2>1, <2>2
<1>12. CASE /\ msg \in Signals
            /\ tab' = [tab EXCEPT ![u] = [tab[u] EXCEPT !.pending = Append(@, msg)]]
            /\ UNCHANGED <<starts, lit, marred, credit, up>>
    <2>1. Append(tab[u].pending, msg) \in Seq(Signals)
        BY <1>0, <1>12 DEF Tab
    <2>2. [tab[u] EXCEPT !.pending = Append(@, msg)] \in Tab
        BY <1>0, <2>1 DEF Tab
    <2>3. [tab[u] EXCEPT !.pending = Append(@, msg)].explain = tab[u].explain
        BY <1>0 DEF Tab
    <2>4. QED
        BY <1>4, <1>12, <2>2, <2>3
<1>13. CASE /\ msg \in Signals
            /\ tab' = [tab EXCEPT ![u].heard = IF msg.call = tab[u].pc THEN "yes" ELSE @]
            /\ Sends(u, Answers(tab[u].pc, <<msg>>))
            /\ UNCHANGED <<starts, lit, marred, credit>>
    <2> DEFINE t == [tab[u] EXCEPT !.heard = IF msg.call = tab[u].pc THEN "yes" ELSE @]
               msgs == Answers(tab[u].pc, <<msg>>)
    <2>1. t \in Tab /\ t.explain = tab[u].explain /\ tab' = [tab EXCEPT ![u] = t]
        BY <1>0, <1>13 DEF Tab
    <2>2. <<msg>> \in Seq(Signals) /\ tab[u].pc \in 0..MaxRequests
        BY <1>0, <1>13 DEF Tab
    <2>3. msgs \in Seq(Msg) /\ \A i \in DOMAIN msgs : msgs[i] = [m |-> "answer", call |-> tab[u].pc]
        BY <2>2, AnswersFit
    <2>4. \A i \in DOMAIN msgs : msgs[i].m \notin {"request", "accept"}
        BY <2>3
    <2>5. /\ starts' \in [Users -> SUBSET Start] /\ lit' \in [Users -> SUBSET Calls] /\ marred' \subseteq Users
          /\ credit' = [credit EXCEPT ![u] = credit[u]]
        BY <1>0, <1>2, <1>13
    <2>6. Sends(u, msgs)
        BY <1>13
    <2> HIDE DEF rest, t, msgs
    <2>7. QED
        BY <1>0, <1>1, <2>1, <2>3, <2>4, <2>5, <2>6, HeardInv
<1>14. QED
    BY <1>6, <1>7, <1>8, <1>9, <1>10, <1>11, <1>12, <1>13 DEF Deliver

-----------------------------------------------------------------------------
(* The theorems.                                                           *)

LEMMA CallInvInitially == Init => CallInv
<1> SUFFICES ASSUME Init PROVE CallInv
    OBVIOUS
<1>1. Fresh \in Tab
    <2>1. <<>> \in Seq(Signals) /\ 0 \in 0..MaxRequests
        BY BoundsAreNumbers
    <2>2. QED
        BY <2>1 DEF Fresh, Tab
<1>2. TypeOK
    BY <1>1, BoundsAreNumbers DEF Init, TypeOK
<1>3. Unplugged /\ EventsFit
    BY DEF Init, Unplugged, EventsFit
<1>4. ASSUME NEW u \in Users PROVE Due(u) = 0 /\ Asking(u) = 0
    <2>1. Count({"request", "accept"}, <<>>) = 0 /\ Count({"request"}, <<>>) = 0 /\ Count(Begins, <<>>) = 0
        BY CountFew
    <2>2. up[u] = <<>> /\ down[u] = <<>> /\ req # u /\ tab[u].explain # "request"
        BY TwoMembers DEF Init, Fresh
    <2>3. One(req = u) = 0 /\ One(tab[u].explain = "request") = 0
        BY <2>2 DEF One
    <2>4. QED
        BY <2>1, <2>2, <2>3 DEF Due, Asking
<1>5. Paid
    BY <1>4 DEF Paid, Init
<1>6. Clicked
    <2>1. ASSUME NEW u \in Users PROVE calls + One(req # None) + Asking(u) + Asking(Partner(u)) <= requests
        <3>1. One(req # None) = 0 /\ calls = 0 /\ requests = 0
            BY DEF Init, One
        <3>2. Asking(u) = 0 /\ Asking(Partner(u)) = 0
            BY <1>4, PartnerIsOther
        <3>3. QED
            BY <3>1, <3>2
    <2>2. QED
        BY <2>1 DEF Clicked
<1>7. QED
    BY <1>2, <1>3, <1>5, <1>6 DEF CallInv

LEMMA CallInvUnchanged == CallInv /\ UNCHANGED vars => CallInv'
<1> SUFFICES ASSUME CallInv, UNCHANGED vars PROVE CallInv'
    OBVIOUS
<1>1. UNCHANGED <<open, locked, live, req, call, calls, linked, up, down, tab, starts, lit, marred, credit, requests, upsets>>
    BY DEF vars, server, net, tabs, bounds
<1>2. TypeOK'
    BY <1>1 DEF CallInv, TypeOK
<1>3. Unplugged' /\ EventsFit'
    BY <1>1 DEF CallInv, Unplugged, EventsFit
<1>4. \A u \in Users : Due(u)' = Due(u) /\ Asking(u)' = Asking(u)
    BY <1>1 DEF Due, Asking, Count, One
<1>5. Paid'
    BY <1>1, <1>4 DEF CallInv, Paid
<1>6. Clicked'
    <2>1. ASSUME NEW u \in Users PROVE calls' + One(req' # None) + Asking(u)' + Asking(Partner(u))' <= requests'
        <3>1. Partner(u) \in Users
            BY PartnerIsOther
        <3>2. Asking(u)' = Asking(u) /\ Asking(Partner(u))' = Asking(Partner(u))
            BY <1>4, <3>1
        <3>3. One(req' # None) = One(req # None)
            BY <1>1
        <3>4. QED
            BY <1>1, <3>2, <3>3 DEF CallInv, Clicked
    <2>2. QED
        BY <2>1 DEF Clicked
<1>7. QED
    BY <1>2, <1>3, <1>5, <1>6 DEF CallInv

\* Every reachable state has its types, and has paid for its starts.
THEOREM CallInvAlways == Spec => []CallInv
<1>1. Init => CallInv
    BY CallInvInitially
<1>2. CallInv /\ [Next]_vars => CallInv'
    <2> SUFFICES ASSUME CallInv, [Next]_vars PROVE CallInv'
        OBVIOUS
    <2>1. ASSUME NEW u \in Users,
                 \/ ClickRequest(u) \/ ClickRespond(u, TRUE) \/ ClickRespond(u, FALSE)
                 \/ Confirm(u) \/ CancelExplainer(u)
          PROVE  CallInv'
        BY <2>1, ClicksInv
    <2>2. ASSUME NEW u \in Users,
                 ClickEnd(u) \/ ClickSkip(u) \/ MediaReady(u) \/ CallReady(u) \/ StartFails(u)
          PROVE  CallInv'
        BY <2>2, TalksInv
    <2>3. ASSUME NEW u \in Users, Deliver(u) PROVE CallInv'
        BY <2>3, DeliverInv
    <2>4. ASSUME NEW u \in Users, Handle(u) PROVE CallInv'
        BY <2>4, HandleInv
    <2>5. ASSUME NEW u \in Users, Break(u) \/ Reconnect(u) PROVE CallInv'
        BY <2>5, ConnectionsInv
    <2>6. CASE RoomEnds
        BY <2>6, RoomEndsInv
    <2>7. CASE UNCHANGED vars
        BY <2>7, CallInvUnchanged
    <2>8. QED
        BY <2>1, <2>2, <2>3, <2>4, <2>5, <2>6, <2>7 DEF Next
<1>3. QED
    BY <1>1, <1>2, PTL DEF Spec

\* Whatever crosses whatever on the way: no camera starts that its owner did not
\* ask or accept for (Composer's camera button, the question of the partner, and
\* the explainer in Chat.jsx; index.js:272).
THEOREM CameraAlwaysNeedsConsent == Spec => []CameraNeedsConsent
<1>1. CallInv => CameraNeedsConsent
    <2> SUFFICES ASSUME CallInv PROVE CameraNeedsConsent
        OBVIOUS
    <2>1. ASSUME NEW u \in Users PROVE credit[u] >= 0
        <3>1. Count({"request", "accept"}, up[u]) \in Nat /\ Count(Begins, down[u]) \in Nat
            BY CountType DEF CallInv, TypeOK
        <3>2. One(req = u) \in Nat
            BY DEF One
        <3>3. Due(u) \in Nat
            BY <3>1, <3>2 DEF Due
        <3>4. Due(u) <= credit[u] /\ credit[u] \in Int
            BY DEF CallInv, Paid, TypeOK
        <3>5. QED
            BY <3>3, <3>4
    <2>2. QED
        BY <2>1 DEF CallInv, CameraNeedsConsent, StartsArePaid
<1>2. QED
    BY <1>1, CallInvAlways, PTL

-----------------------------------------------------------------------------
(* The invariant behind OnlyOvertakenStay: the course of the calls in each *)
(* tab.  It speaks of what a tab holds (h: the calls whose camera is on,   *)
(* or starting), of what is on its way to it (d) and from it (q), and of   *)
(* the number of calls (n) and the call (c) of the server.                 *)

Calling(st, li) == {s.call : s \in st} \cup li
Begun(d) == {d[i].call : i \in {j \in DOMAIN d : d[j].m \in Begins}}
\* An end of a call is among the messages i to j.
Ended(d, i, j) == \E k \in i..j : d[k].m \in Ends

\* A tab is in one call at a time, in the chat only.
OneAtATime(chat, media, st, li, n) ==
    /\ media \in 0..n /\ li \subseteq {media} \cap 1..n
    /\ \A s, t \in st : s = t
    /\ \A s \in st : s.call \in 1..n /\ (s.stage = "media" => li = {})
    /\ chat = "off" => st = {} /\ li = {}

\* Between two starts on their way, and before one to a tab in a call, is an end.
StartsAlternate(h, d) ==
    \A k \in DOMAIN d : d[k].m \in Begins =>
        /\ h # {} => Ended(d, 1, k - 1)
        /\ \A j \in 1..(k - 1) : d[j].m \in Begins =>
              Ended(d, j + 1, k - 1) /\ d[j].call # d[k].call

\* What is not about to end is the call the server has.
LatestIsServers(h, d, c) ==
    /\ h # {} => Ended(d, 1, Len(d)) \/ h = {c}
    /\ \A k \in DOMAIN d : d[k].m \in Begins => Ended(d, k + 1, Len(d)) \/ d[k].call = c

\* Nothing of a call comes after its end was sent.
EndedIsOver(media, h, d, q, n) ==
    /\ media \notin Begun(d) /\ h \cap Begun(d) = {}
    /\ \A i \in DOMAIN q : q[i].m = "end" => q[i].call <= n /\ q[i].call \notin h \cup Begun(d)

Holds(u) == Calling(starts[u], lit[u])
Course(u) ==
    /\ OneAtATime(tab[u].chat, tab[u].media, starts[u], lit[u], calls)
    /\ StartsAlternate(Holds(u), down[u])
    /\ open = "yes" => LatestIsServers(Holds(u), down[u], call)
    /\ EndedIsOver(tab[u].media, Holds(u), down[u], up[u], calls)

\* A room that is over takes every chat along, and a seat that is lost is asked for.
Has(q, m) == \E i \in DOMAIN q : q[i].m = m
Farewell(d) == Has(d, "left") \/ Has(d, "gone")
RoomIsKnown(u) ==
    /\ Farewell(down[u]) => open = "no"
    /\ Has(up[u], "skip") => tab[u].chat = "off"
    /\ tab[u].chat = "on" /\ u \in linked /\ ~Has(up[u], "rejoin") =>
         /\ open = "no" => Farewell(down[u])
         /\ open = "yes" => u \in live
RequestsWait == req # None => call = 0

CourseInv ==
    /\ RequestsWait
    /\ \A u \in Users : RoomIsKnown(u)
    /\ \A u \in Users \ marred : Course(u)

-----------------------------------------------------------------------------
(* What an event more, or one less, does to the course of the calls.       *)

LEMMA EndedGrows ==
    ASSUME NEW d \in Seq(Msg), NEW m \in Msg, NEW i \in Nat \ {0}, NEW j \in Nat, j <= Len(d), Ended(d, i, j)
    PROVE  Ended(Append(d, m), i, j) /\ Ended(Append(d, m), i, Len(Append(d, m)))
<1>1. PICK k \in i..j : d[k].m \in Ends
    BY DEF Ended
<1>2. k \in 1..Len(d) /\ Len(Append(d, m)) = Len(d) + 1 /\ Append(d, m)[k] = d[k]
    BY <1>1
<1>3. k \in i..Len(Append(d, m))
    BY <1>1, <1>2
<1>4. QED
    BY <1>1, <1>2, <1>3 DEF Ended

LEMMA BegunAppended ==
    ASSUME NEW d \in Seq(Msg), NEW m \in Msg
    PROVE  Begun(Append(d, m)) = Begun(d) \cup (IF m.m \in Begins THEN {m.call} ELSE {})
<1>1. Len(Append(d, m)) = Len(d) + 1 /\ DOMAIN Append(d, m) = 1..(Len(d) + 1) /\ DOMAIN d = 1..Len(d)
      /\ Append(d, m)[Len(d) + 1] = m /\ \A i \in DOMAIN d : Append(d, m)[i] = d[i]
    OBVIOUS
<1>2. ASSUME NEW x PROVE x \in Begun(Append(d, m)) <=> x \in Begun(d) \/ (m.m \in Begins /\ x = m.call)
    <2>1. ASSUME x \in Begun(Append(d, m)) PROVE x \in Begun(d) \/ (m.m \in Begins /\ x = m.call)
        <3>1. PICK i \in DOMAIN Append(d, m) : Append(d, m)[i].m \in Begins /\ x = Append(d, m)[i].call
            BY <2>1 DEF Begun
        <3>2. CASE i \in DOMAIN d
            BY <1>1, <3>1, <3>2 DEF Begun
        <3>3. CASE i = Len(d) + 1
            BY <1>1, <3>1, <3>3
        <3>4. QED
            BY <1>1, <3>1, <3>2, <3>3
    <2>2. ASSUME x \in Begun(d) PROVE x \in Begun(Append(d, m))
        <3>1. PICK i \in DOMAIN d : d[i].m \in Begins /\ x = d[i].call
            BY <2>2 DEF Begun
        <3>2. i \in DOMAIN Append(d, m) /\ Append(d, m)[i] = d[i]
            BY <1>1
        <3>3. QED
            BY <3>1, <3>2 DEF Begun
    <2>3. ASSUME m.m \in Begins, x = m.call PROVE x \in Begun(Append(d, m))
        <3>1. Len(d) + 1 \in DOMAIN Append(d, m)
            BY <1>1
        <3>2. QED
            BY <1>1, <2>3, <3>1 DEF Begun
    <2>4. QED
        BY <2>1, <2>2, <2>3
<1>3. QED
    BY <1>2

\* Everything that goes on, or is about to, will have an end.
AllEnded(h, d) ==
    /\ h # {} => Ended(d, 1, Len(d))
    /\ \A k \in DOMAIN d : d[k].m \in Begins => Ended(d, k + 1, Len(d))

LEMMA StillAlternate ==
    ASSUME NEW d \in Seq(Msg), NEW m \in Msg, NEW h, m.m \notin Begins, StartsAlternate(h, d)
    PROVE  StartsAlternate(h, Append(d, m)) /\ Begun(Append(d, m)) = Begun(d)
<1>1. Len(Append(d, m)) = Len(d) + 1 /\ DOMAIN Append(d, m) = 1..(Len(d) + 1) /\ DOMAIN d = 1..Len(d)
      /\ Append(d, m)[Len(d) + 1] = m /\ \A i \in DOMAIN d : Append(d, m)[i] = d[i]
    OBVIOUS
<1>2. ASSUME NEW k \in DOMAIN Append(d, m), Append(d, m)[k].m \in Begins
      PROVE  /\ h # {} => Ended(Append(d, m), 1, k - 1)
             /\ \A j \in 1..(k - 1) : Append(d, m)[j].m \in Begins =>
                   Ended(Append(d, m), j + 1, k - 1) /\ Append(d, m)[j].call # Append(d, m)[k].call
    <2>1. k \in DOMAIN d /\ d[k].m \in Begins /\ k - 1 \in Nat /\ k - 1 <= Len(d)
        BY <1>1, <1>2
    <2>2. h # {} => Ended(d, 1, k - 1)
        BY <2>1 DEF StartsAlternate
    <2>3. h # {} => Ended(Append(d, m), 1, k - 1)
        BY <2>1, <2>2, EndedGrows
    <2>4. ASSUME NEW j \in 1..(k - 1), Append(d, m)[j].m \in Begins
          PROVE  Ended(Append(d, m), j + 1, k - 1) /\ Append(d, m)[j].call # Append(d, m)[k].call
        <3>1. j \in DOMAIN d /\ d[j].m \in Begins /\ j + 1 \in Nat \ {0}
            BY <1>1, <2>1, <2>4
        <3>2. Ended(d, j + 1, k - 1) /\ d[j].call # d[k].call
            BY <2>1, <2>4, <3>1 DEF StartsAlternate
        <3>3. Ended(Append(d, m), j + 1, k - 1)
            BY <2>1, <3>1, <3>2, EndedGrows
        <3>4. QED
            BY <1>1, <2>1, <3>1, <3>2, <3>3
    <2>5. QED
        BY <2>3, <2>4
<1>3. QED
    BY <1>2, BegunAppended DEF StartsAlternate

LEMMA StillServers ==
    ASSUME NEW d \in Seq(Msg), NEW m \in Msg, NEW h, NEW c, m.m \notin Begins, LatestIsServers(h, d, c)
    PROVE  LatestIsServers(h, Append(d, m), c)
<1>1. Len(Append(d, m)) = Len(d) + 1 /\ DOMAIN Append(d, m) = 1..(Len(d) + 1) /\ DOMAIN d = 1..Len(d)
      /\ Append(d, m)[Len(d) + 1] = m /\ \A i \in DOMAIN d : Append(d, m)[i] = d[i]
      /\ Len(d) \in Nat
    OBVIOUS
<1>2. h # {} => Ended(Append(d, m), 1, Len(Append(d, m))) \/ h = {c}
    <2>1. Ended(d, 1, Len(d)) => Ended(Append(d, m), 1, Len(Append(d, m)))
        BY <1>1, EndedGrows
    <2>2. QED
        BY <2>1 DEF LatestIsServers
<1>3. ASSUME NEW k \in DOMAIN Append(d, m), Append(d, m)[k].m \in Begins
      PROVE  Ended(Append(d, m), k + 1, Len(Append(d, m))) \/ Append(d, m)[k].call = c
    <2>1. k \in DOMAIN d /\ d[k].m \in Begins /\ k + 1 \in Nat \ {0}
        BY <1>1, <1>3
    <2>2. Ended(d, k + 1, Len(d)) => Ended(Append(d, m), k + 1, Len(Append(d, m)))
        BY <1>1, <2>1, EndedGrows
    <2>3. QED
        BY <1>1, <2>1, <2>2 DEF LatestIsServers
<1>4. QED
    BY <1>2, <1>3 DEF LatestIsServers

LEMMA EndEndsAll ==
    ASSUME NEW d \in Seq(Msg), NEW m \in Msg, NEW h, NEW c, m.m \in Ends
    PROVE  LatestIsServers(h, Append(d, m), c)
<1>1. Len(Append(d, m)) = Len(d) + 1 /\ DOMAIN Append(d, m) = 1..(Len(d) + 1)
      /\ Append(d, m)[Len(d) + 1] = m /\ Len(d) \in Nat
    OBVIOUS
<1>2. Ended(Append(d, m), 1, Len(Append(d, m)))
    <2>1. Len(d) + 1 \in 1..Len(Append(d, m))
        BY <1>1
    <2>2. QED
        BY <1>1, <2>1 DEF Ended
<1>3. ASSUME NEW k \in DOMAIN Append(d, m), Append(d, m)[k].m \in Begins
      PROVE  Ended(Append(d, m), k + 1, Len(Append(d, m)))
    <2>1. k # Len(d) + 1
        BY <1>1, <1>3 DEF Begins, Ends
    <2>2. Len(d) + 1 \in (k + 1)..Len(Append(d, m))
        BY <1>1, <1>3, <2>1
    <2>3. QED
        BY <1>1, <2>2 DEF Ended
<1>4. QED
    BY <1>2, <1>3 DEF LatestIsServers

\* A call begins when all before it has ended.
LEMMA BeginFits ==
    ASSUME NEW d \in Seq(Msg), NEW m \in Msg, NEW h, m.m \in Begins, m.call \notin Begun(d),
           StartsAlternate(h, d), AllEnded(h, d)
    PROVE  StartsAlternate(h, Append(d, m)) /\ LatestIsServers(h, Append(d, m), m.call)
<1>1. Len(Append(d, m)) = Len(d) + 1 /\ DOMAIN Append(d, m) = 1..(Len(d) + 1) /\ DOMAIN d = 1..Len(d)
      /\ Append(d, m)[Len(d) + 1] = m /\ (\A i \in DOMAIN d : Append(d, m)[i] = d[i])
      /\ Len(d) \in Nat
    OBVIOUS
<1>2. h # {} => Ended(Append(d, m), 1, Len(d)) /\ Ended(Append(d, m), 1, Len(Append(d, m)))
    BY <1>1, EndedGrows DEF AllEnded
<1>3. ASSUME NEW j \in DOMAIN d, d[j].m \in Begins
      PROVE  Ended(Append(d, m), j + 1, Len(d)) /\ Ended(Append(d, m), j + 1, Len(Append(d, m)))
    <2>1. Ended(d, j + 1, Len(d)) /\ j + 1 \in Nat \ {0}
        BY <1>1, <1>3 DEF AllEnded
    <2>2. QED
        BY <1>1, <2>1, EndedGrows
<1>4. \A j \in DOMAIN d : d[j].m \in Begins => d[j].call # m.call
    BY DEF Begun
<1>5. ASSUME NEW k \in DOMAIN Append(d, m), Append(d, m)[k].m \in Begins
      PROVE  /\ h # {} => Ended(Append(d, m), 1, k - 1)
             /\ \A j \in 1..(k - 1) : Append(d, m)[j].m \in Begins =>
                   Ended(Append(d, m), j + 1, k - 1) /\ Append(d, m)[j].call # Append(d, m)[k].call
    <2>1. CASE k = Len(d) + 1
        <3>1. k - 1 = Len(d) /\ Append(d, m)[k] = m
            BY <1>1, <2>1
        <3>2. ASSUME NEW j \in 1..(k - 1), Append(d, m)[j].m \in Begins
              PROVE  Ended(Append(d, m), j + 1, k - 1) /\ Append(d, m)[j].call # Append(d, m)[k].call
            <4>1. j \in DOMAIN d /\ Append(d, m)[j] = d[j] /\ d[j].m \in Begins
                BY <1>1, <3>1, <3>2
            <4>2. Ended(Append(d, m), j + 1, Len(d)) /\ d[j].call # m.call
                BY <1>3, <1>4, <4>1
            <4>3. QED
                BY <3>1, <4>1, <4>2
        <3>3. QED
            BY <1>2, <3>1, <3>2
    <2>2. CASE k # Len(d) + 1
        <3>1. k \in DOMAIN d /\ d[k].m \in Begins /\ k - 1 \in Nat /\ k - 1 <= Len(d)
            BY <1>1, <1>5, <2>2
        <3>2. h # {} => Ended(d, 1, k - 1)
            BY <3>1 DEF StartsAlternate
        <3>3. h # {} => Ended(Append(d, m), 1, k - 1)
            BY <3>1, <3>2, EndedGrows
        <3>4. ASSUME NEW j \in 1..(k - 1), Append(d, m)[j].m \in Begins
              PROVE  Ended(Append(d, m), j + 1, k - 1) /\ Append(d, m)[j].call # Append(d, m)[k].call
            <4>1. j \in DOMAIN d /\ d[j].m \in Begins /\ j + 1 \in Nat \ {0}
                BY <1>1, <3>1, <3>4
            <4>2. Ended(d, j + 1, k - 1) /\ d[j].call # d[k].call
                BY <3>1, <3>4, <4>1 DEF StartsAlternate
            <4>3. Ended(Append(d, m), j + 1, k - 1)
                BY <3>1, <4>1, <4>2, EndedGrows
            <4>4. QED
                BY <1>1, <3>1, <4>1, <4>2, <4>3
        <3>5. QED
            BY <3>3, <3>4
    <2>3. QED
        BY <2>1, <2>2
<1>6. StartsAlternate(h, Append(d, m))
    BY <1>5 DEF StartsAlternate
<1>7. ASSUME NEW k \in DOMAIN Append(d, m), Append(d, m)[k].m \in Begins
      PROVE  Ended(Append(d, m), k + 1, Len(Append(d, m))) \/ Append(d, m)[k].call = m.call
    <2>1. CASE k = Len(d) + 1
        BY <1>1, <2>1
    <2>2. CASE k # Len(d) + 1
        <3>1. k \in DOMAIN d /\ d[k].m \in Begins
            BY <1>1, <1>7, <2>2
        <3>2. QED
            BY <1>3, <3>1
    <2>3. QED
        BY <2>1, <2>2
<1>8. QED
    BY <1>2, <1>6, <1>7 DEF LatestIsServers

-----------------------------------------------------------------------------
(* The first event is gone.                                                *)

LEMMA TailIsShifted ==
    ASSUME NEW d \in Seq(Msg), d # <<>>
    PROVE  /\ Tail(d) \in Seq(Msg) /\ Len(Tail(d)) = Len(d) - 1 /\ Len(d) \in Nat \ {0}
           /\ \A i \in DOMAIN Tail(d) : i \in Nat \ {0} /\ i + 1 \in DOMAIN d /\ Tail(d)[i] = d[i + 1]
           /\ DOMAIN Tail(d) = 1..(Len(d) - 1) /\ DOMAIN d = 1..Len(d) /\ Head(d) = d[1] /\ 1 \in DOMAIN d
OBVIOUS

LEMMA EndedShifted ==
    ASSUME NEW d \in Seq(Msg), d # <<>>, NEW i \in Nat \ {0}, NEW j \in Nat, j <= Len(d)
    PROVE  Ended(d, i + 1, j) => Ended(Tail(d), i, j - 1)
<1> SUFFICES ASSUME Ended(d, i + 1, j) PROVE Ended(Tail(d), i, j - 1)
    OBVIOUS
<1>1. PICK k \in (i + 1)..j : d[k].m \in Ends
    BY DEF Ended
<1>2. k - 1 \in i..(j - 1) /\ k - 1 \in DOMAIN Tail(d) /\ (k - 1) + 1 = k
    BY <1>1, TailIsShifted
<1>3. Tail(d)[k - 1] = d[(k - 1) + 1]
    BY <1>2, TailIsShifted
<1>4. Tail(d)[k - 1].m \in Ends
    BY <1>1, <1>2, <1>3
<1>5. QED
    BY <1>2, <1>4 DEF Ended

\* What a tab has begun by then (g) is ended before the next start.
LEMMA TailAlternates ==
    ASSUME NEW d \in Seq(Msg), d # <<>>, NEW h, NEW g, StartsAlternate(h, d),
           \A k \in DOMAIN Tail(d) : Tail(d)[k].m \in Begins /\ g # {} => Ended(d, 2, k)
    PROVE  StartsAlternate(g, Tail(d)) /\ Begun(Tail(d)) \subseteq Begun(d)
<1>1. ASSUME NEW k \in DOMAIN Tail(d), Tail(d)[k].m \in Begins
      PROVE  /\ g # {} => Ended(Tail(d), 1, k - 1)
             /\ \A j \in 1..(k - 1) : Tail(d)[j].m \in Begins =>
                   Ended(Tail(d), j + 1, k - 1) /\ Tail(d)[j].call # Tail(d)[k].call
    <2>1. k \in Nat \ {0} /\ k + 1 \in DOMAIN d /\ Tail(d)[k] = d[k + 1] /\ k <= Len(d)
        BY TailIsShifted
    <2>2. g # {} => Ended(Tail(d), 1, k - 1)
        <3>1. g # {} => Ended(d, 1 + 1, k)
            BY <1>1
        <3>2. QED
            BY <2>1, <3>1, EndedShifted
    <2>3. ASSUME NEW j \in 1..(k - 1), Tail(d)[j].m \in Begins
          PROVE  Ended(Tail(d), j + 1, k - 1) /\ Tail(d)[j].call # Tail(d)[k].call
        <3>1. j \in DOMAIN Tail(d)
            BY <2>1, <2>3, TailIsShifted
        <3>2. j + 1 \in 1..((k + 1) - 1) /\ j + 1 \in Nat \ {0} /\ Tail(d)[j] = d[j + 1]
            BY <2>1, <2>3, <3>1, TailIsShifted
        <3>3. Ended(d, (j + 1) + 1, (k + 1) - 1) /\ d[j + 1].call # d[k + 1].call
            BY <1>1, <2>1, <2>3, <3>2 DEF StartsAlternate
        <3>4. (k + 1) - 1 = k
            BY <2>1
        <3>5. Ended(Tail(d), j + 1, k - 1)
            BY <2>1, <3>2, <3>3, <3>4, EndedShifted
        <3>6. QED
            BY <2>1, <3>2, <3>3, <3>5
    <2>4. QED
        BY <2>2, <2>3
<1>2. \A x \in Begun(Tail(d)) : x \in Begun(d)
    <2>1. TAKE x \in Begun(Tail(d))
    <2>2. PICK i \in DOMAIN Tail(d) : Tail(d)[i].m \in Begins /\ x = Tail(d)[i].call
        BY DEF Begun
    <2>3. i + 1 \in DOMAIN d /\ d[i + 1].m \in Begins /\ x = d[i + 1].call
        BY <2>2, TailIsShifted
    <2>4. QED
        BY <2>3 DEF Begun
<1>3. QED
    BY <1>1, <1>2 DEF StartsAlternate

LEMMA TailIsServers ==
    ASSUME NEW d \in Seq(Msg), d # <<>>, NEW h, NEW g, NEW c, LatestIsServers(h, d, c),
           g # {} => Ended(d, 2, Len(d)) \/ g = {c}
    PROVE  LatestIsServers(g, Tail(d), c)
<1>1. Len(d) \in Nat /\ Len(Tail(d)) = Len(d) - 1
    BY TailIsShifted
<1>2. g # {} => Ended(Tail(d), 1, Len(Tail(d))) \/ g = {c}
    <2>1. Ended(d, 1 + 1, Len(d)) => Ended(Tail(d), 1, Len(d) - 1)
        BY <1>1, EndedShifted
    <2>2. QED
        BY <1>1, <2>1
<1>3. ASSUME NEW k \in DOMAIN Tail(d), Tail(d)[k].m \in Begins
      PROVE  Ended(Tail(d), k + 1, Len(Tail(d))) \/ Tail(d)[k].call = c
    <2>1. k \in Nat \ {0} /\ k + 1 \in DOMAIN d /\ Tail(d)[k] = d[k + 1] /\ k + 1 \in Nat \ {0}
        BY TailIsShifted
    <2>2. Ended(d, (k + 1) + 1, Len(d)) \/ d[k + 1].call = c
        BY <1>3, <2>1 DEF LatestIsServers
    <2>3. Ended(d, (k + 1) + 1, Len(d)) => Ended(Tail(d), k + 1, Len(d) - 1)
        BY <1>1, <2>1, EndedShifted
    <2>4. QED
        BY <1>1, <2>1, <2>2, <2>3
<1>4. QED
    BY <1>2, <1>3 DEF LatestIsServers

-----------------------------------------------------------------------------
(* The server keeps the course of the calls.                               *)

LEMMA CoursePrimed ==
    ASSUME NEW v \in Users
    PROVE  Course(v)' =
             ( /\ OneAtATime(tab'[v].chat, tab'[v].media, starts'[v], lit'[v], calls')
               /\ StartsAlternate(Calling(starts'[v], lit'[v]), down'[v])
               /\ open' = "yes" => LatestIsServers(Calling(starts'[v], lit'[v]), down'[v], call')
               /\ EndedIsOver(tab'[v].media, Calling(starts'[v], lit'[v]), down'[v], up'[v], calls') )
BY DEF Course, Holds

\* The calls a tab holds, and those that are about to start, exist.
LEMMA CallsExist ==
    ASSUME CallInv, NEW v \in Users
    PROVE  /\ calls \in Nat /\ down[v] \in Seq(Msg) /\ up[v] \in Seq(Msg)
           /\ Begun(down[v]) \subseteq 1..calls
           /\ Course(v) => Holds(v) \subseteq 1..calls /\ tab[v].media \in 0..calls
<1>1. calls \in Nat /\ down[v] \in Seq(Msg) /\ up[v] \in Seq(Msg)
    BY BoundsAreNumbers DEF CallInv, TypeOK
<1>2. \A x \in Begun(down[v]) : x \in 1..calls
    BY DEF Begun, CallInv, EventsFit
<1>3. Course(v) => Holds(v) \subseteq 1..calls /\ tab[v].media \in 0..calls
    BY DEF Course, OneAtATime, Holds, Calling
<1>4. QED
    BY <1>1, <1>2, <1>3

\* What a step of the server, or of somebody else, is for v.
Untouched(v) ==
    /\ \/ down'[v] = down[v]
       \/ \E m \in Msg : m.m \notin Begins \cup Ends /\ down'[v] = Append(down[v], m)
    /\ open' = "yes" => open = "yes" /\ call' = call
    /\ calls' = calls
EndReaches(v) ==
    /\ \E m \in Msg : m.m \in Ends /\ down'[v] = Append(down[v], m)
    /\ calls' = calls
EndsItself(v) ==
    /\ down'[v] = down[v] /\ open = "yes" /\ call # 0 /\ calls' = calls
    /\ \E i \in DOMAIN up[v] : up[v][i].m = "end" /\ up[v][i].call = call
BeginReaches(v) ==
    /\ open = "yes" /\ call = 0 /\ calls' = calls + 1 /\ call' = calls'
    /\ \/ down'[v] = down[v]
       \/ \E m \in Msg : m.m \in Begins /\ m.call = calls' /\ down'[v] = Append(down[v], m)
Touched(v) == Untouched(v) \/ EndReaches(v) \/ EndsItself(v) \/ BeginReaches(v)

LEMMA AllHasEnded ==
    ASSUME CallInv, NEW v \in Users, Course(v), open = "yes", call \notin Holds(v) \cup Begun(down[v])
    PROVE  AllEnded(Holds(v), down[v])
<1>1. LatestIsServers(Holds(v), down[v], call)
    BY DEF Course
<1>2. \A k \in DOMAIN down[v] : down[v][k].m \in Begins => down[v][k].call # call
    BY DEF Begun
<1>3. QED
    BY <1>1, <1>2 DEF LatestIsServers, AllEnded

LEMMA CourseKept ==
    ASSUME CallInv, NEW v \in Users, Course(v), Touched(v),
           tab'[v].chat = tab[v].chat, tab'[v].media = tab[v].media,
           starts'[v] = starts[v], lit'[v] = lit[v],
           \A i \in DOMAIN up'[v] : up'[v][i].m = "end" => \E j \in DOMAIN up[v] : up'[v][i] = up[v][j]
    PROVE  Course(v)'
<1> DEFINE h == Holds(v)
           d == down[v]
           next == down'[v]
<1>0. /\ calls \in Nat /\ d \in Seq(Msg) /\ Begun(d) \subseteq 1..calls
      /\ h \subseteq 1..calls /\ tab[v].media \in 0..calls /\ h = Calling(starts'[v], lit'[v])
    BY CallsExist DEF Holds
<1>1. /\ OneAtATime(tab[v].chat, tab[v].media, starts[v], lit[v], calls) /\ StartsAlternate(h, d)
      /\ (open = "yes" => LatestIsServers(h, d, call))
      /\ EndedIsOver(tab[v].media, h, d, up[v], calls)
    BY DEF Course
<1>2. calls' \in Nat /\ calls <= calls'
    BY <1>0 DEF Touched, Untouched, EndReaches, EndsItself, BeginReaches
<1>3. OneAtATime(tab'[v].chat, tab'[v].media, starts'[v], lit'[v], calls')
    BY <1>0, <1>1, <1>2 DEF OneAtATime
<1>4. /\ StartsAlternate(h, next)
      /\ (open' = "yes" => LatestIsServers(h, next, call'))
      /\ (Begun(next) = Begun(d) \/ (Begun(next) = Begun(d) \cup {calls'} /\ calls' = calls + 1))
    <2>1. CASE Untouched(v)
        <3>1. CASE next = d
            BY <1>1, <2>1, <3>1 DEF Untouched
        <3>2. CASE next # d
            <4>1. PICK m \in Msg : m.m \notin Begins /\ next = Append(d, m)
                BY <2>1, <3>2 DEF Untouched
            <4>2. StartsAlternate(h, next) /\ Begun(next) = Begun(d)
                BY <1>0, <1>1, <4>1, StillAlternate
            <4>3. ASSUME open' = "yes" PROVE LatestIsServers(h, next, call')
                <5>1. LatestIsServers(h, d, call) /\ call' = call
                    BY <1>1, <2>1, <4>3 DEF Untouched
                <5>2. QED
                    BY <1>0, <4>1, <5>1, StillServers
            <4>4. QED
                BY <4>2, <4>3
        <3>3. QED
            BY <3>1, <3>2
    <2>2. CASE EndReaches(v)
        <3>1. PICK m \in Msg : m.m \in Ends /\ m.m \notin Begins /\ next = Append(d, m)
            BY <2>2 DEF EndReaches, Begins, Ends
        <3>2. StartsAlternate(h, next) /\ Begun(next) = Begun(d)
            BY <1>0, <1>1, <3>1, StillAlternate
        <3>3. LatestIsServers(h, next, call')
            BY <1>0, <3>1, EndEndsAll
        <3>4. QED
            BY <3>2, <3>3
    <2>3. CASE EndsItself(v)
        <3>1. call \notin h \cup Begun(d)
            BY <1>1, <2>3 DEF EndsItself, EndedIsOver
        <3>2. AllEnded(h, d)
            BY <2>3, <3>1, AllHasEnded DEF EndsItself
        <3>3. LatestIsServers(h, d, call')
            BY <3>2 DEF AllEnded, LatestIsServers
        <3>4. QED
            BY <1>1, <2>3, <3>3 DEF EndsItself
    <2>4. CASE BeginReaches(v)
        <3>1. 0 \notin h \cup Begun(d) /\ calls' = calls + 1 /\ calls' \notin Begun(d) /\ calls' \in Nat /\ call' = calls'
            BY <1>0, <2>4 DEF BeginReaches
        <3>2. AllEnded(h, d)
            BY <2>4, <3>1, AllHasEnded DEF BeginReaches
        <3>3. CASE next = d
            <4>1. LatestIsServers(h, d, call')
                BY <3>2 DEF AllEnded, LatestIsServers
            <4>2. QED
                BY <1>1, <3>3, <4>1
        <3>4. CASE next # d
            <4>1. PICK m \in Msg : m.m \in Begins /\ m.call = calls' /\ next = Append(d, m)
                BY <2>4, <3>4 DEF BeginReaches
            <4>2. m.call \notin Begun(d)
                BY <3>1, <4>1
            <4>3. StartsAlternate(h, next) /\ LatestIsServers(h, next, m.call)
                BY <1>0, <1>1, <3>2, <4>1, <4>2, BeginFits
            <4>4. Begun(next) = Begun(d) \cup {calls'}
                BY <1>0, <4>1, BegunAppended
            <4>5. QED
                BY <3>1, <4>1, <4>3, <4>4
        <3>5. QED
            BY <3>3, <3>4
    <2>5. QED
        BY <2>1, <2>2, <2>3, <2>4 DEF Touched
<1>5. EndedIsOver(tab'[v].media, h, next, up'[v], calls')
    <2>1. tab[v].media \notin Begun(next) /\ h \cap Begun(next) = {}
        BY <1>0, <1>1, <1>4 DEF EndedIsOver
    <2>2. ASSUME NEW i \in DOMAIN up'[v], up'[v][i].m = "end"
          PROVE  up'[v][i].call <= calls' /\ up'[v][i].call \notin h \cup Begun(next)
        <3>1. PICK j \in DOMAIN up[v] : up'[v][i] = up[v][j]
            BY <2>2
        <3>2. up[v][j].call <= calls /\ up[v][j].call \notin h \cup Begun(d)
            BY <1>1, <2>2, <3>1 DEF EndedIsOver
        <3>3. up[v][j] \in Msg /\ up[v][j].call \in Nat
            <4>1. up[v] \in Seq(Msg)
                BY CallsExist
            <4>2. up[v][j] \in Msg
                BY <4>1
            <4>3. QED
                BY <4>2, BoundsAreNumbers DEF Msg
        <3>4. up[v][j].call <= calls' /\ (calls' = calls + 1 => up[v][j].call # calls')
            BY <1>0, <1>2, <3>2, <3>3
        <3>5. QED
            BY <1>4, <3>1, <3>2, <3>4
    <2>3. QED
        BY <2>1, <2>2 DEF EndedIsOver
<1>6. QED
    BY <1>0, <1>3, <1>4, <1>5, CoursePrimed

\* What the handlers do for each member whose calls do not go astray.
LEMMA HandleTouches ==
    ASSUME CallInv, RequestsWait, NEW u \in Users, Handle(u), NEW v \in Users, v \notin marred'
    PROVE  Touched(v)
<1> DEFINE msg == Head(up[u])
<1>0. /\ TypeOK /\ up[u] \in Seq(Msg) /\ up[u] # <<>> /\ msg \in Msg /\ down[v] \in Seq(Msg)
      /\ down \in [Users -> Seq(Msg)] /\ open \in {"yes", "no"} /\ call \in {0, calls} /\ calls \in Nat
    <2>1. up[u] # <<>>
        BY DEF Handle
    <2>2. QED
        BY <2>1, BoundsAreNumbers DEF CallInv, TypeOK
<1>1. v \notin EndAstray(u, msg)
    BY DEF Handle
\* An event that is neither a start nor an end changes nothing.
<1>2. ASSUME NEW msgs \in Notes, Tell(msgs), \A m \in Msg : msgs[v] = <<m>> => m.m \notin Begins \cup Ends,
             UNCHANGED <<open, call, calls>>
      PROVE  Touched(v)
    <2>1. down'[v] = down[v] \/ \E m \in Msg : msgs[v] = <<m>> /\ down'[v] = Append(down[v], m)
        BY <1>0, <1>2, Told
    <2>2. QED
        BY <1>2, <2>1 DEF Touched, Untouched
<1>3. CASE Tell(ToNobody) /\ UNCHANGED server
    <2>1. ToNobody \in Notes /\ \A m \in Msg : ToNobody[v] # <<m>>
        BY NotesFit DEF ToNobody
    <2>2. QED
        BY <1>2, <1>3, <2>1 DEF server
<1>4. CASE VideoRequest(u)
    <2>1. CASE ~(locked = "yes" \/ call # 0)
        <3> DEFINE msgs == [ToPartner(u, M("request")) EXCEPT ![u] = <<M("asked")>>]
        <3>1. msgs \in Notes
            BY NotesFit
        <3>2. \A m \in Msg : msgs[v] = <<m>> => m.m \in {"request", "asked"}
            BY <1>0 DEF ToPartner, M
        <3>3. QED
            BY <1>2, <1>4, <2>1, <3>1, <3>2 DEF VideoRequest, Begins, Ends
    <2>2. QED
        BY <1>3, <1>4, <2>1 DEF VideoRequest
<1>6. CASE VideoReject(u)
    <2>1. CASE req = Partner(u)
        <3>1. ToPartner(u, M("reject")) \in Notes
            BY NotesFit
        <3>2. \A m \in Msg : ToPartner(u, M("reject"))[v] = <<m>> => m.m \in {"reject"}
            BY <1>0 DEF ToPartner, M
        <3>3. QED
            BY <1>2, <1>6, <2>1, <3>1, <3>2 DEF VideoReject, Begins, Ends
    <2>2. QED
        BY <1>3, <1>6, <2>1 DEF VideoReject
<1>8. CASE msg \in Signals /\ RtcSignal(u, msg)
    <2> DEFINE msgs == IF call # 0 THEN ToPartner(u, msg) ELSE ToNobody
    <2>1. msgs \in Notes
        BY <1>0, NotesFit
    <2>2. \A m \in Msg : msgs[v] = <<m>> => m.m \in {"offer", "answer"}
        BY <1>0, <1>8 DEF ToPartner, ToNobody, Signals
    <2>3. QED
        BY <1>2, <1>8, <2>1, <2>2 DEF RtcSignal, Begins, Ends, server
\* A call ends for who is told, who ended it, and nobody else.
<1>7. CASE open = "yes" /\ msg.m = "end" /\ VideoEnd(u)
    <2> DEFINE msgs == IF call # 0 THEN ToPartner(u, M("end")) ELSE ToNobody
    <2>1. call' = 0 /\ Tell(msgs) /\ UNCHANGED <<open, locked, live, req, calls>>
        BY <1>7 DEF VideoEnd
    <2>2. CASE call = 0
        BY <1>3, <2>1, <2>2 DEF server
    <2>3. CASE call # 0 /\ v = u
        <3>1. msg.call = call
            BY <1>1, <2>1, <2>3, <1>7 DEF EndAstray
        <3>2. 1 \in DOMAIN up[u] /\ up[u][1] = msg
            BY <1>0
        <3>3. down'[v] = down[v]
            <4>1. msgs[v] = <<>>
                BY <1>0, <2>3 DEF ToPartner
            <4>2. down[v] \o <<>> = down[v]
                BY <1>0
            <4>3. QED
                BY <1>0, <2>1, <4>1, <4>2 DEF Tell
        <3>4. QED
            BY <1>7, <2>1, <2>3, <3>1, <3>2, <3>3 DEF Touched, EndsItself
    <2>4. CASE call # 0 /\ v # u
        <3>1. v \in live
            BY <1>1, <2>1, <2>4 DEF EndAstray
        <3>2. msgs[v] = <<M("end")>> /\ M("end") \in Msg /\ M("end").m \in Ends
            BY <1>0, <2>4, NotesFit DEF ToPartner, M, Ends
        <3>3. down'[v] = down[v] \o <<M("end")>>
            BY <1>0, <2>1, <3>1, <3>2 DEF Tell
        <3>4. down[v] \o <<M("end")>> = Append(down[v], M("end"))
            BY <1>0, <3>2
        <3>5. QED
            BY <2>1, <3>2, <3>3, <3>4 DEF Touched, EndReaches
    <2>5. QED
        BY <2>2, <2>3, <2>4
<1>9. CASE Close(u)
    <2> DEFINE msgs == [w \in Users |-> IF w = u THEN <<>> ELSE <<M("left")>>]
    <2>1. msgs \in Notes /\ Tell(msgs) /\ open' = "no" /\ calls' = calls
        BY <1>9, NotesFit DEF Notes, Close
    <2>2. down'[v] = down[v] \/ \E m \in Msg : msgs[v] = <<m>> /\ down'[v] = Append(down[v], m)
        BY <1>0, <2>1, Told
    <2>3. \A m \in Msg : msgs[v] = <<m>> => m.m \in Ends
        BY <1>0 DEF M, Ends
    <2>4. QED
        BY <2>1, <2>2, <2>3 DEF Touched, Untouched, EndReaches
<1>10. CASE Rejoin(u)
    <2>0. {M("gone"), M("end")} \subseteq Msg /\ M("gone").m \in Ends /\ M("end").m \in Ends
        BY NotesFit DEF M, Ends
    <2>1. CASE open = "no"
        <3>1. down' = [down EXCEPT ![u] = Append(@, M("gone"))] /\ UNCHANGED <<open, call, calls>>
            BY <1>10, <2>1 DEF Rejoin, server
        <3>2. CASE v = u
            <4>1. down'[v] = Append(down[v], M("gone"))
                BY <1>0, <3>1, <3>2
            <4>2. QED
                BY <2>0, <3>1, <4>1 DEF Touched, EndReaches
        <3>3. CASE v # u
            <4>1. down'[v] = down[v]
                BY <1>0, <3>1, <3>3
            <4>2. QED
                BY <3>1, <4>1 DEF Touched, Untouched
        <3>4. QED
            BY <3>2, <3>3
    <2>2. CASE open # "no"
        <3>1. /\ live' = live \cup {u} /\ call' = 0 /\ UNCHANGED <<open, locked, req, calls>>
              /\ down' = [w \in Users |->
                    IF w \in live' /\ call # 0 THEN Append(down[w], M("end")) ELSE down[w]]
            BY <1>10, <2>2 DEF Rejoin
        <3>2. CASE call = 0
            <4>1. down'[v] = down[v]
                BY <1>0, <3>1, <3>2
            <4>2. QED
                BY <3>1, <3>2, <4>1 DEF Touched, Untouched
        <3>3. CASE call # 0
            <4>1. v \in live'
                BY <1>1, <3>1, <3>3 DEF EndAstray
            <4>2. down'[v] = Append(down[v], M("end"))
                BY <1>0, <3>1, <3>3, <4>1
            <4>3. QED
                BY <2>0, <3>1, <4>2 DEF Touched, EndReaches
        <3>4. QED
            BY <3>2, <3>3
    <2>3. QED
        BY <2>1, <2>2
<1>5. CASE open = "yes" /\ VideoAccept(u) /\ RequestsWait
    <2>1. CASE req = Partner(u)
        <3> DEFINE msgs == [w \in Users |-> <<[m |-> IF w = u THEN "start" ELSE "initiate", call |-> call']>>]
        <3>0. call' = calls + 1 /\ calls' = calls + 1 /\ Tell(msgs)
            BY <1>5, <2>1 DEF VideoAccept
        <3>1. call = 0
            BY <1>5, <2>1, PartnerIsOther, TwoMembers DEF RequestsWait
        <3>2. calls' \in 0..MaxRequests
            BY HandleInv DEF CallInv, TypeOK
        <3>3. msgs \in Notes
            BY <3>0, <3>2 DEF Notes, Msg
        <3>4. \A m \in Msg : msgs[v] = <<m>> => m.m \in Begins /\ m.call = calls'
            BY <1>0, <3>0 DEF Begins
        <3>5. down'[v] = down[v] \/ \E m \in Msg : msgs[v] = <<m>> /\ down'[v] = Append(down[v], m)
            BY <1>0, <3>0, <3>3, Told
        <3>6. QED
            BY <1>5, <3>0, <3>1, <3>4, <3>5 DEF Touched, BeginReaches
    <2>2. QED
        BY <1>3, <1>5, <2>1 DEF VideoAccept
<1>11. QED
    BY <1>0, <1>1, <1>3, <1>4, <1>5, <1>6, <1>7, <1>8, <1>9, <1>10 DEF Handle

\* So do the timers.
LEMMA RoomEndsTouches ==
    ASSUME CallInv, RoomEnds, NEW v \in Users
    PROVE  Touched(v)
<1>1. PICK w \in Users \cup {None} : Close(w)
    BY DEF RoomEnds
<1> DEFINE msgs == [x \in Users |-> IF x = w THEN <<>> ELSE <<M("left")>>]
<1>2. msgs \in Notes /\ Tell(msgs) /\ open' = "no" /\ calls' = calls
    BY <1>1, NotesFit DEF Notes, Close
<1>3. down'[v] = down[v] \/ \E m \in Msg : msgs[v] = <<m>> /\ down'[v] = Append(down[v], m)
    <2>1. TypeOK
        BY DEF CallInv
    <2>2. QED
        BY <1>2, <2>1, Told
<1>4. \A m \in Msg : msgs[v] = <<m>> => m.m \in Ends
    BY DEF M, Ends
<1>5. QED
    BY <1>2, <1>3, <1>4 DEF Touched, Untouched, EndReaches

\* A member who is not marred goes on as before, or ends, or begins.
LEMMA ServerKeepsCourse ==
    ASSUME CallInv, RequestsWait, NEW v \in Users, v \notin marred', Course(v),
           RoomEnds \/ \E u \in Users : Handle(u)
    PROVE  Course(v)'
<1>1. CASE RoomEnds
    <2>1. Touched(v)
        BY <1>1, RoomEndsTouches
    <2>2. UNCHANGED <<up, tab, starts, lit>>
        BY <1>1 DEF RoomEnds, tabs
    <2>3. QED
        BY <2>1, <2>2, CourseKept
<1>2. ASSUME NEW u \in Users, Handle(u) PROVE Course(v)'
    <2>1. Touched(v)
        BY <1>2, HandleTouches
    <2>2. UNCHANGED <<tab, starts, lit>> /\ up[u] # <<>> /\ up' = [up EXCEPT ![u] = Tail(@)]
        BY <1>2 DEF Handle, tabs
    <2>3. up \in [Users -> Seq(Msg)]
        BY DEF CallInv, TypeOK
    <2>4. \A i \in DOMAIN up'[v] : \E j \in DOMAIN up[v] : up'[v][i] = up[v][j]
        <3>1. CASE v = u
            <4>1. up'[v] = Tail(up[v]) /\ up[v] \in Seq(Msg) /\ up[v] # <<>>
                BY <2>2, <2>3, <3>1
            <4>2. QED
                BY <4>1, TailIsShifted
        <3>2. CASE v # u
            <4>1. up'[v] = up[v]
                BY <2>2, <2>3, <3>2
            <4>2. QED
                BY <4>1
        <3>3. QED
            BY <3>1, <3>2
    <2>5. QED
        BY <2>1, <2>2, <2>4, CourseKept
<1>3. QED
    BY <1>1, <1>2

-----------------------------------------------------------------------------
(* The tabs and the connections keep it.                                   *)

\* A step of somebody else's tab or connection.
Elsewhere(v) ==
    /\ UNCHANGED <<open, call, calls, req>>
    /\ up'[v] = up[v] /\ down'[v] = down[v] /\ tab'[v] = tab[v]
    /\ starts'[v] = starts[v] /\ lit'[v] = lit[v]
    /\ (v \in live' <=> v \in live) /\ (v \in linked' <=> v \in linked)

TabStep(u) ==
    \/ ClickRequest(u) \/ ClickRespond(u, TRUE) \/ ClickRespond(u, FALSE)
    \/ Confirm(u) \/ CancelExplainer(u) \/ ClickEnd(u) \/ ClickSkip(u)
    \/ MediaReady(u) \/ CallReady(u) \/ StartFails(u)
    \/ Deliver(u) \/ Break(u) \/ Reconnect(u)

LEMMA TabStepIsLocal ==
    ASSUME TypeOK, NEW u \in Users, TabStep(u), NEW v \in Users, v # u
    PROVE  Elsewhere(v)
<1>0. /\ tab \in [Users -> Tab] /\ up \in [Users -> Seq(Msg)] /\ down \in [Users -> Seq(Msg)]
      /\ starts \in [Users -> SUBSET Start] /\ lit \in [Users -> SUBSET Calls]
    BY DEF TypeOK
<1>1. CASE ClickRequest(u)
    BY <1>0, <1>1 DEF ClickRequest, Ask, Sends, Elsewhere, server
<1>2. ASSUME NEW accept \in BOOLEAN, ClickRespond(u, accept) PROVE Elsewhere(v)
    BY <1>0, <1>2 DEF ClickRespond, Accept, Sends, Elsewhere, server
<1>3. CASE Confirm(u)
    BY <1>0, <1>3 DEF Confirm, Ask, Accept, Sends, Elsewhere, server
<1>4. CASE CancelExplainer(u)
    BY <1>0, <1>4 DEF CancelExplainer, Elsewhere, server, net
<1>5. CASE ClickEnd(u)
    BY <1>0, <1>5 DEF ClickEnd, Cleanup, Sends, Elsewhere, server
<1>6. CASE ClickSkip(u)
    BY <1>0, <1>6 DEF ClickSkip, Leave, Cleanup, Sends, Elsewhere, server
<1>7. CASE MediaReady(u)
    BY <1>0, <1>7 DEF MediaReady, Elsewhere, server, net
<1>8. CASE CallReady(u)
    BY <1>0, <1>8 DEF CallReady, Sends, Elsewhere, server
<1>9. CASE StartFails(u)
    BY <1>0, <1>9 DEF StartFails, Cleanup, Sends, Elsewhere, server
<1>10. CASE Deliver(u)
    <2>1. down'[v] = down[v] /\ UNCHANGED <<open, call, calls, req, live, linked>>
        BY <1>0, <1>10 DEF Deliver, server
    <2>2. up'[v] = up[v]
        BY <1>0, <1>10 DEF Deliver, Sends
    <2>3. tab'[v] = tab[v] /\ lit'[v] = lit[v] /\ starts'[v] = starts[v]
        BY <1>0, <1>10 DEF Deliver, Leave, Cleanup
    <2>4. QED
        BY <2>1, <2>2, <2>3 DEF Elsewhere
<1>11. CASE Break(u)
    BY <1>0, <1>11 DEF Break, Elsewhere, tabs
<1>12. CASE Reconnect(u)
    BY <1>0, <1>12 DEF Reconnect, Elsewhere, server, tabs
<1>13. QED
    BY <1>1, <1>2, <1>3, <1>4, <1>5, <1>6, <1>7, <1>8, <1>9, <1>10, <1>11, <1>12 DEF TabStep

LEMMA ElsewhereKeepsCourse ==
    ASSUME CallInv, NEW v \in Users, Course(v), Elsewhere(v)
    PROVE  Course(v)'
<1>1. Touched(v)
    BY DEF Elsewhere, Touched, Untouched
<1>2. QED
    BY <1>1, CourseKept DEF Elsewhere

\* What is on its way from a tab was so before, or is sent now.
LEMMA SentBefore ==
    ASSUME CallInv, NEW u \in Users, NEW msgs \in Seq(Msg), Sends(u, msgs), NEW i \in DOMAIN up'[u]
    PROVE  \/ \E j \in DOMAIN up[u] : up'[u][i] = up[u][j]
           \/ \E j \in DOMAIN msgs : up'[u][i] = msgs[j]
<1>1. up \in [Users -> Seq(Msg)] /\ up[u] \in Seq(Msg)
    BY DEF CallInv, TypeOK
<1>2. CASE up'[u] = up[u]
    BY <1>2
<1>3. CASE up'[u] = up[u] \o msgs
    <2>1. CASE i \in DOMAIN up[u]
        BY <1>1, <1>3, <2>1
    <2>2. CASE i \notin DOMAIN up[u]
        <3>1. i - Len(up[u]) \in DOMAIN msgs /\ up'[u][i] = msgs[i - Len(up[u])]
            BY <1>1, <1>3, <2>2
        <3>2. QED
            BY <3>1
    <2>3. QED
        BY <2>1, <2>2
<1>4. QED
    BY <1>1, <1>2, <1>3 DEF Sends

\* A tab in which no call is left.
LEMMA NothingHeld ==
    ASSUME CallInv, NEW u \in Users, Course(u), UNCHANGED <<open, call, calls, down>>,
           starts'[u] = {}, lit'[u] = {}, tab'[u].media = 0,
           \A i \in DOMAIN up'[u] : up'[u][i].m = "end" =>
              \/ \E j \in DOMAIN up[u] : up'[u][i] = up[u][j]
              \/ up'[u][i].call <= calls /\ up'[u][i].call \notin Begun(down[u])
    PROVE  Course(u)'
<1>0. calls \in Nat /\ Begun(down[u]) \subseteq 1..calls /\ Calling(starts'[u], lit'[u]) = {}
    BY CallsExist DEF Calling
<1>1. OneAtATime(tab'[u].chat, tab'[u].media, starts'[u], lit'[u], calls')
    BY <1>0 DEF OneAtATime
<1>2. StartsAlternate({}, down'[u])
    BY DEF Course, StartsAlternate
<1>3. open' = "yes" => LatestIsServers({}, down'[u], call')
    BY DEF Course, LatestIsServers
<1>4. EndedIsOver(tab'[u].media, {}, down'[u], up'[u], calls')
    <2>1. 0 \notin Begun(down[u])
        BY <1>0
    <2>2. ASSUME NEW i \in DOMAIN up'[u], up'[u][i].m = "end"
          PROVE  up'[u][i].call <= calls /\ up'[u][i].call \notin Begun(down[u])
        <3>1. CASE \E j \in DOMAIN up[u] : up'[u][i] = up[u][j]
            <4>1. PICK j \in DOMAIN up[u] : up'[u][i] = up[u][j]
                BY <3>1
            <4>2. QED
                BY <2>2, <4>1 DEF Course, EndedIsOver
        <3>2. QED
            BY <2>2, <3>1
    <2>3. QED
        BY <2>1, <2>2 DEF EndedIsOver
<1>5. QED
    BY <1>0, <1>1, <1>2, <1>3, <1>4, CoursePrimed

LEMMA CleanupEnds ==
    ASSUME TypeOK, NEW u \in Users, Course(u), NEW t \in Tab, t.media = tab[u].media,
           Cleanup(u, t), u \notin marred'
    PROVE  starts'[u] = {} /\ lit'[u] = {} /\ tab'[u].media = 0
<1>1. PICK clean \in Tab : /\ tab' = [tab EXCEPT ![u] = clean] /\ clean.media = 0
                           /\ lit' = [lit EXCEPT ![u] = @ \ {t.pc, t.media}]
                           /\ marred' = IF starts'[u] = {} THEN marred ELSE marred \cup {u}
    BY CleanupFacts
<1>2. tab \in [Users -> Tab] /\ lit \in [Users -> SUBSET Calls]
    BY DEF TypeOK
<1>3. lit[u] \subseteq {tab[u].media}
    BY DEF Course, OneAtATime
<1>4. QED
    BY <1>1, <1>2, <1>3

\* The member's own steps, one by one: a click or a connection that returns.
LEMMA ClicksKeepCourse ==
    ASSUME CallInv, NEW u \in Users, Course(u),
           \/ ClickRequest(u) \/ ClickRespond(u, TRUE) \/ ClickRespond(u, FALSE)
           \/ Confirm(u) \/ CancelExplainer(u) \/ Reconnect(u)
    PROVE  Course(u)'
<1>0. /\ tab \in [Users -> Tab] /\ tab[u] \in Tab /\ up \in [Users -> Seq(Msg)] /\ up[u] \in Seq(Msg)
      /\ {M("request"), M("accept"), M("reject"), M("rejoin")} \subseteq Msg
    BY NotesFit DEF CallInv, TypeOK
<1>1. UNCHANGED <<open, call, calls, down, starts, lit>>
    BY DEF ClickRequest, ClickRespond, Confirm, CancelExplainer, Reconnect, server, net, tabs
<1>2. Touched(u)
    BY <1>1 DEF Touched, Untouched
<1>3. tab'[u].chat = tab[u].chat /\ tab'[u].media = tab[u].media
    BY <1>0 DEF ClickRequest, ClickRespond, Confirm, CancelExplainer, Reconnect, tabs, Tab
<1>4. \/ up' = up
      \/ \E m \in {"request", "accept", "reject"} : Sends(u, <<M(m)>>)
      \/ up'[u] = <<M("rejoin")>> \/ up'[u] = <<>>
    <2>1. CASE ClickRequest(u)
        BY <2>1 DEF ClickRequest, Ask
    <2>2. ASSUME NEW accept \in BOOLEAN, ClickRespond(u, accept)
          PROVE  up' = up \/ \E m \in {"request", "accept", "reject"} : Sends(u, <<M(m)>>)
        BY <2>2 DEF ClickRespond, Accept
    <2>3. CASE Confirm(u)
        BY <2>3 DEF Confirm, Ask, Accept
    <2>4. CASE CancelExplainer(u)
        BY <2>4 DEF CancelExplainer, net
    <2>5. CASE Reconnect(u)
        BY <1>0, <2>5 DEF Reconnect
    <2>6. QED
        BY <2>1, <2>2, <2>3, <2>4, <2>5
<1>5. ASSUME NEW i \in DOMAIN up'[u], up'[u][i].m = "end" PROVE \E j \in DOMAIN up[u] : up'[u][i] = up[u][j]
    <2>1. CASE up' = up
        BY <1>5, <2>1
    <2>2. ASSUME NEW m \in {"request", "accept", "reject"}, Sends(u, <<M(m)>>)
          PROVE  \E j \in DOMAIN up[u] : up'[u][i] = up[u][j]
        <3>1. M(m) \in Msg /\ M(m).m # "end"
            BY <1>0 DEF M
        <3>2. <<M(m)>> \in Seq(Msg) /\ \A j \in DOMAIN <<M(m)>> : <<M(m)>>[j].m # "end"
            BY <3>1
        <3>3. QED
            BY <1>5, <2>2, <3>2, SentBefore, ZenonT(60)
    <2>3. CASE up'[u] = <<M("rejoin")>> \/ up'[u] = <<>>
        BY <1>5, <2>3 DEF M
    <2>4. QED
        BY <1>4, <2>1, <2>2, <2>3
<1>6. QED
    BY <1>1, <1>2, <1>3, <1>5, CourseKept

\* The call, or the chat, is ended here.
LEMMA EndingKeepsCourse ==
    ASSUME CallInv, NEW u \in Users, Course(u), u \notin marred',
           ClickEnd(u) \/ ClickSkip(u) \/ StartFails(u)
    PROVE  Course(u)'
<1>0. /\ TypeOK /\ tab \in [Users -> Tab] /\ tab[u] \in Tab /\ calls \in Nat
      /\ starts \in [Users -> SUBSET Start] /\ Begun(down[u]) \subseteq 1..calls
    BY CallsExist DEF CallInv, TypeOK
<1>1. /\ OneAtATime(tab[u].chat, tab[u].media, starts[u], lit[u], calls)
      /\ EndedIsOver(tab[u].media, Holds(u), down[u], up[u], calls)
    BY DEF Course
<1>2. ASSUME NEW n \in 0..MaxRequests, n <= calls, n \notin Begun(down[u]), NEW m \in {"end", "skip"},
             NEW t \in Tab, t.media = tab[u].media, Cleanup(u, t),
             Sends(u, <<[m |-> m, call |-> n]>>), UNCHANGED <<server, down>>
      PROVE  Course(u)'
    <2>1. starts'[u] = {} /\ lit'[u] = {} /\ tab'[u].media = 0
        BY <1>0, <1>2, CleanupEnds
    <2> DEFINE msgs == <<[m |-> m, call |-> n]>>
    <2>2. msgs \in Seq(Msg) /\ \A j \in DOMAIN msgs : msgs[j].call = n
        BY <1>2 DEF Msg
    <2>3. \A i \in DOMAIN up'[u] : up'[u][i].m = "end" =>
              \/ \E j \in DOMAIN up[u] : up'[u][i] = up[u][j]
              \/ up'[u][i].call <= calls /\ up'[u][i].call \notin Begun(down[u])
        <3> SUFFICES ASSUME NEW i \in DOMAIN up'[u], ~ \E j \in DOMAIN up[u] : up'[u][i] = up[u][j]
                     PROVE  up'[u][i].call = n
            BY <1>2
        <3>1. Sends(u, msgs)
            BY <1>2
        <3> HIDE DEF msgs
        <3>2. \E j \in DOMAIN msgs : up'[u][i] = msgs[j]
            BY <2>2, <3>1, SentBefore
        <3>3. QED
            BY <2>2, <3>2
    <2>4. UNCHANGED <<open, call, calls, down>>
        BY <1>2 DEF server
    <2>5. QED
        BY <2>1, <2>3, <2>4, NothingHeld
<1>3. CASE ClickEnd(u)
    <2>1. tab[u].media \in 0..MaxRequests /\ tab[u].media <= calls /\ tab[u].media \notin Begun(down[u])
        BY <1>0, <1>1 DEF Tab, OneAtATime, EndedIsOver
    <2>2. QED
        BY <1>0, <1>2, <1>3, <2>1 DEF ClickEnd
<1>4. CASE ClickSkip(u)
    <2> DEFINE t == [tab[u] EXCEPT !.chat = "off", !.incoming = "no", !.explain = "none"]
    <2>1. t \in Tab /\ t.media = tab[u].media
        BY <1>0 DEF Tab
    <2>2. 0 \in 0..MaxRequests /\ 0 <= calls /\ 0 \notin Begun(down[u])
        BY <1>0, BoundsAreNumbers
    <2>3. Cleanup(u, t) /\ Sends(u, <<[m |-> "skip", call |-> 0]>>) /\ UNCHANGED <<server, down>>
        BY <1>4 DEF ClickSkip, Leave, M
    <2> HIDE DEF t
    <2>4. QED
        BY <1>2, <2>1, <2>2, <2>3
<1>5. CASE StartFails(u)
    <2>1. PICK s \in starts[u] : Cleanup(u, tab[u]) /\ Sends(u, <<[m |-> "end", call |-> s.call]>>)
                                 /\ UNCHANGED <<server, down>>
        BY <1>5 DEF StartFails
    <2>2. s \in Start /\ s.call \in Holds(u)
        BY <1>0 DEF Holds, Calling
    <2>3. s.call \in 0..MaxRequests /\ s.call <= calls /\ s.call \notin Begun(down[u])
        <3>1. s.call \in 0..MaxRequests
            BY <2>2, BoundsAreNumbers DEF Start, Calls
        <3>2. s.call \in 1..calls
            BY <1>1 DEF OneAtATime
        <3>3. QED
            BY <1>0, <1>1, <2>2, <3>1, <3>2 DEF EndedIsOver
    <2>4. QED
        BY <1>0, <1>2, <2>1, <2>3
<1>6. QED
    BY <1>3, <1>4, <1>5

\* A start goes on.
LEMMA StartingKeepsCourse ==
    ASSUME CallInv, NEW u \in Users, Course(u), MediaReady(u) \/ CallReady(u)
    PROVE  Course(u)'
<1> DEFINE h == Holds(u)
           next == Calling(starts'[u], lit'[u])
<1>0. /\ TypeOK /\ tab \in [Users -> Tab] /\ tab[u] \in Tab /\ calls \in Nat /\ up[u] \in Seq(Msg)
      /\ starts \in [Users -> SUBSET Start] /\ lit \in [Users -> SUBSET Calls]
    BY CallsExist DEF CallInv, TypeOK
<1>1. /\ OneAtATime(tab[u].chat, tab[u].media, starts[u], lit[u], calls)
      /\ StartsAlternate(h, down[u])
      /\ (open = "yes" => LatestIsServers(h, down[u], call))
      /\ EndedIsOver(tab[u].media, h, down[u], up[u], calls)
    BY DEF Course
<1>2. UNCHANGED <<open, call, calls, down>>
    BY DEF MediaReady, CallReady, server, net
<1>3. PICK s \in starts[u] :
          \/ /\ s.stage = "media"
             /\ starts' = [starts EXCEPT ![u] = (@ \ {s}) \cup {[s EXCEPT !.stage = "setup"]}]
             /\ lit' = [lit EXCEPT ![u] = @ \cup {s.call}]
             /\ tab' = [tab EXCEPT ![u].media = s.call,
                                   ![u].state = IF tab[u].chat = "on" THEN "active" ELSE @]
             /\ up' = up
          \/ /\ starts' = [starts EXCEPT ![u] = @ \ {s}]
             /\ tab' = [tab EXCEPT ![u].pc = s.call, ![u].pending = <<>>, ![u].heard = Hears(s.call, tab[u].pending)]
             /\ Sends(u, Offers(s) \o Answers(s.call, tab[u].pending))
             /\ lit' = lit
    BY DEF MediaReady, CallReady, net
<1>4. s \in Start /\ starts[u] = {s} /\ s.call \in 1..calls /\ s.call \in h /\ s.call \in 0..MaxRequests
    <2>1. s \in Start
        BY <1>0
    <2>2. starts[u] = {s} /\ s.call \in 1..calls
        BY <1>1 DEF OneAtATime
    <2>3. s.call \in h
        BY DEF Holds, Calling
    <2>4. s.call \in 0..MaxRequests
        BY <2>1, BoundsAreNumbers DEF Start, Calls
    <2>5. QED
        BY <2>1, <2>2, <2>3, <2>4
<1>5. /\ OneAtATime(tab'[u].chat, tab'[u].media, starts'[u], lit'[u], calls')
      /\ next \subseteq h
      /\ tab'[u].media \in {tab[u].media} \cup h
    <2>1. CASE /\ s.stage = "media"
               /\ starts' = [starts EXCEPT ![u] = (@ \ {s}) \cup {[s EXCEPT !.stage = "setup"]}]
               /\ lit' = [lit EXCEPT ![u] = @ \cup {s.call}]
               /\ tab' = [tab EXCEPT ![u].media = s.call,
                                     ![u].state = IF tab[u].chat = "on" THEN "active" ELSE @]
        <3>1. lit[u] = {}
            BY <1>1, <2>1 DEF OneAtATime
        <3>2. starts'[u] = {[s EXCEPT !.stage = "setup"]} /\ lit'[u] = {s.call}
            BY <1>0, <1>4, <2>1, <3>1
        <3>3. [s EXCEPT !.stage = "setup"].call = s.call /\ [s EXCEPT !.stage = "setup"].stage = "setup"
            BY <1>4 DEF Start
        <3>4. tab'[u].media = s.call /\ tab'[u].chat = tab[u].chat
            BY <1>0, <2>1 DEF Tab
        <3>5. tab[u].chat # "off"
            BY <1>1, <1>4 DEF OneAtATime
        <3>6. next = {s.call}
            BY <3>2, <3>3 DEF Calling
        <3>7. OneAtATime(tab'[u].chat, tab'[u].media, starts'[u], lit'[u], calls')
            BY <1>0, <1>2, <1>4, <3>2, <3>3, <3>4, <3>5 DEF OneAtATime
        <3>8. QED
            BY <1>4, <3>4, <3>6, <3>7
    <2>2. CASE /\ starts' = [starts EXCEPT ![u] = @ \ {s}] /\ lit' = lit
               /\ tab' = [tab EXCEPT ![u].pc = s.call, ![u].pending = <<>>, ![u].heard = Hears(s.call, tab[u].pending)]
        <3>1. starts'[u] = {} /\ lit'[u] = lit[u] /\ tab'[u].media = tab[u].media /\ tab'[u].chat = tab[u].chat
            BY <1>0, <1>4, <2>2 DEF Tab
        <3>2. next \subseteq h
            BY <3>1 DEF Calling, Holds
        <3>3. OneAtATime(tab'[u].chat, tab'[u].media, starts'[u], lit'[u], calls')
            BY <1>1, <1>2, <3>1 DEF OneAtATime
        <3>4. QED
            BY <3>1, <3>2, <3>3
    <2>3. QED
        BY <1>3, <2>1, <2>2
<1>6. StartsAlternate(next, down'[u]) /\ (open' = "yes" => LatestIsServers(next, down'[u], call'))
    <2>1. next # {} => h # {}
        BY <1>5
    <2>2. StartsAlternate(next, down[u])
        BY <1>1, <2>1 DEF StartsAlternate
    <2>3. next # {} /\ h = {call} => next = {call}
        BY <1>5
    <2>4. LatestIsServers(h, down[u], call) => LatestIsServers(next, down[u], call)
        BY <2>1, <2>3 DEF LatestIsServers
    <2>5. QED
        BY <1>1, <1>2, <2>2, <2>4
<1>7. ASSUME NEW i \in DOMAIN up'[u], up'[u][i].m = "end" PROVE \E j \in DOMAIN up[u] : up'[u][i] = up[u][j]
    <2>1. CASE up' = up
        BY <1>7, <2>1
    <2>2. CASE Sends(u, Offers(s) \o Answers(s.call, tab[u].pending))
        <3>1. Offers(s) \in Seq(Msg) /\ \A j \in DOMAIN Offers(s) : Offers(s)[j].m = "offer"
            BY <1>4, OffersFit
        <3>2. Answers(s.call, tab[u].pending) \in Seq(Msg)
              /\ \A j \in DOMAIN Answers(s.call, tab[u].pending) : Answers(s.call, tab[u].pending)[j].m = "answer"
            <4>1. tab[u].pending \in Seq(Signals)
                BY <1>0 DEF Tab
            <4>2. QED
                BY <1>4, <4>1, AnswersFit
        <3> DEFINE msgs == Offers(s) \o Answers(s.call, tab[u].pending)
        <3>3. msgs \in Seq(Msg) /\ \A j \in DOMAIN msgs : msgs[j].m # "end"
            BY <3>1, <3>2
        <3>4. Sends(u, msgs)
            BY <2>2
        <3> HIDE DEF msgs
        <3>5. QED
            BY <1>7, <3>3, <3>4, SentBefore
    <2>3. QED
        BY <1>3, <2>1, <2>2
<1>8. EndedIsOver(tab'[u].media, next, down'[u], up'[u], calls')
    <2>1. tab'[u].media \notin Begun(down[u]) /\ next \cap Begun(down[u]) = {}
        BY <1>1, <1>5 DEF EndedIsOver
    <2>2. ASSUME NEW i \in DOMAIN up'[u], up'[u][i].m = "end"
          PROVE  up'[u][i].call <= calls /\ up'[u][i].call \notin next \cup Begun(down[u])
        <3>1. PICK j \in DOMAIN up[u] : up'[u][i] = up[u][j]
            BY <1>7, <2>2
        <3>2. QED
            BY <1>1, <1>5, <2>2, <3>1 DEF EndedIsOver
    <2>3. QED
        BY <1>2, <2>1, <2>2 DEF EndedIsOver
<1>9. QED
    BY <1>5, <1>6, <1>8, CoursePrimed

\* An event reaches a tab in the chat.
LEMMA HeardKeepsCourse ==
    ASSUME CallInv, NEW u \in Users, Course(u), UNCHANGED <<open, call, calls>>,
           down[u] # <<>>, down'[u] = Tail(down[u]),
           OneAtATime(tab'[u].chat, tab'[u].media, starts'[u], lit'[u], calls),
           tab'[u].media \in {0, tab[u].media},
           NEW next, next = Calling(starts'[u], lit'[u]),
           \/ Head(down[u]).m \notin Begins \cup Ends /\ next = Holds(u)
           \/ Head(down[u]).m \in Begins /\ next \subseteq Holds(u) \cup {Head(down[u]).call}
           \/ Head(down[u]).m \in Ends /\ next = {},
           \A i \in DOMAIN up'[u] : up'[u][i].m = "end" => \E j \in DOMAIN up[u] : up'[u][i] = up[u][j]
    PROVE  Course(u)'
<1> DEFINE h == Holds(u)
           d == down[u]
<1>0. /\ calls \in Nat /\ d \in Seq(Msg) /\ d # <<>> /\ Begun(d) \subseteq 1..calls
      /\ 1 \in DOMAIN d /\ Head(d) = d[1] /\ Len(d) \in Nat \ {0}
    BY CallsExist, TailIsShifted
<1>1. /\ StartsAlternate(h, d) /\ (open = "yes" => LatestIsServers(h, d, call))
      /\ EndedIsOver(tab[u].media, h, d, up[u], calls)
    BY DEF Course
\* Before the first event nothing has ended: a start finds a tab that holds nothing.
<1>2. d[1].m \in Begins => h = {} /\ next \subseteq {d[1].call} /\ d[1].call \in Begun(d)
    <2>1. d[1].m \in Begins /\ h # {} => Ended(d, 1, 0)
        BY <1>0, <1>1 DEF StartsAlternate
    <2>2. ~Ended(d, 1, 0)
        BY DEF Ended
    <2>3. d[1].m \in Begins => d[1].m \notin Ends
        BY DEF Begins, Ends
    <2>4. d[1].m \in Begins => h = {}
        BY <2>1, <2>2
    <2>5. d[1].m \in Begins => d[1].call \in Begun(d)
        BY <1>0 DEF Begun
    <2>6. QED
        BY <1>0, <2>3, <2>4, <2>5
<1>3. \A j : Ended(d, 1, j) /\ d[1].m \notin Ends => Ended(d, 2, j)
    <2>1. TAKE j
    <2>2. HAVE Ended(d, 1, j) /\ d[1].m \notin Ends
    <2>3. PICK k \in 1..j : d[k].m \in Ends
        BY <2>2 DEF Ended
    <2>4. k # 1
        BY <2>2, <2>3
    <2>5. k \in 2..j
        BY <2>3, <2>4
    <2>6. QED
        BY <2>3, <2>5 DEF Ended
<1>4. ASSUME NEW k \in DOMAIN Tail(d), Tail(d)[k].m \in Begins, next # {} PROVE Ended(d, 2, k)
    <2>1. k \in Nat \ {0} /\ k + 1 \in DOMAIN d /\ d[k + 1].m \in Begins /\ (k + 1) - 1 = k
        BY <1>0, <1>4, TailIsShifted
    <2>2. CASE d[1].m \notin Begins \cup Ends
        <3>1. h # {}
            BY <1>0, <1>4, <2>2
        <3>2. Ended(d, 1, (k + 1) - 1)
            BY <1>1, <2>1, <3>1 DEF StartsAlternate
        <3>3. QED
            BY <1>3, <2>1, <2>2, <3>2
    <2>3. CASE d[1].m \in Begins
        <3>1. 1 \in 1..((k + 1) - 1)
            BY <2>1
        <3>2. Ended(d, 1 + 1, (k + 1) - 1)
            BY <1>1, <2>1, <2>3, <3>1 DEF StartsAlternate
        <3>3. QED
            BY <2>1, <3>2
    <2>4. CASE d[1].m \in Ends
        BY <1>0, <1>4, <2>4 DEF Begins, Ends
    <2>5. QED
        BY <2>2, <2>3, <2>4
<1>5. StartsAlternate(next, Tail(d)) /\ Begun(Tail(d)) \subseteq Begun(d)
    BY <1>0, <1>1, <1>4, TailAlternates
<1>6. ASSUME open = "yes" PROVE LatestIsServers(next, Tail(d), call)
    <2>1. LatestIsServers(h, d, call)
        BY <1>1, <1>6
    <2>2. next # {} => Ended(d, 2, Len(d)) \/ next = {call}
        <3>1. CASE d[1].m \notin Begins \cup Ends
            BY <1>0, <1>3, <2>1, <3>1 DEF LatestIsServers
        <3>2. CASE d[1].m \in Begins
            <4>1. Ended(d, 1 + 1, Len(d)) \/ d[1].call = call
                BY <1>0, <2>1, <3>2 DEF LatestIsServers
            <4>2. QED
                BY <1>2, <3>2, <4>1
        <3>3. CASE d[1].m \in Ends
            BY <1>0, <3>3 DEF Begins, Ends
        <3>4. QED
            BY <3>1, <3>2, <3>3
    <2>3. QED
        BY <1>0, <2>1, <2>2, TailIsServers
<1>7. next \cap Begun(Tail(d)) = {} /\ next \subseteq h \cup Begun(d)
    <2>1. CASE d[1].m \notin Begins
        <3>1. next \subseteq h
            BY <1>0, <2>1
        <3>2. QED
            BY <1>1, <1>5, <3>1 DEF EndedIsOver
    <2>2. CASE d[1].m \in Begins
        <3>1. ASSUME NEW k \in DOMAIN Tail(d), Tail(d)[k].m \in Begins PROVE Tail(d)[k].call # d[1].call
            <4>1. k + 1 \in DOMAIN d /\ d[k + 1].m \in Begins /\ Tail(d)[k] = d[k + 1] /\ 1 \in 1..((k + 1) - 1)
                BY <1>0, <3>1, TailIsShifted
            <4>2. d[1].call # d[k + 1].call
                BY <1>1, <2>2, <4>1 DEF StartsAlternate
            <4>3. QED
                BY <4>1, <4>2
        <3>2. d[1].call \notin Begun(Tail(d))
            BY <3>1 DEF Begun
        <3>3. QED
            BY <1>2, <2>2, <3>2
    <2>3. QED
        BY <2>1, <2>2
<1>8. EndedIsOver(tab'[u].media, next, Tail(d), up'[u], calls)
    <2>1. tab'[u].media \notin Begun(Tail(d))
        BY <1>0, <1>1, <1>5 DEF EndedIsOver
    <2>2. ASSUME NEW i \in DOMAIN up'[u], up'[u][i].m = "end"
          PROVE  up'[u][i].call <= calls /\ up'[u][i].call \notin next \cup Begun(Tail(d))
        <3>1. PICK j \in DOMAIN up[u] : up'[u][i] = up[u][j]
            BY <2>2
        <3>2. up[u][j].call <= calls /\ up[u][j].call \notin h \cup Begun(d)
            BY <1>1, <2>2, <3>1 DEF EndedIsOver
        <3>3. QED
            BY <1>5, <1>7, <3>1, <3>2
    <2>3. QED
        BY <1>7, <2>1, <2>2 DEF EndedIsOver
<1>9. QED
    BY <1>5, <1>6, <1>8, CoursePrimed

LEMMA DeliverKeepsCourse ==
    ASSUME CallInv, NEW u \in Users, Course(u), u \notin marred', Deliver(u)
    PROVE  Course(u)'
<1> DEFINE msg == Head(down[u])
           on == tab[u].chat = "on"
<1>0. /\ TypeOK /\ EventsFit /\ tab \in [Users -> Tab] /\ tab[u] \in Tab /\ down \in [Users -> Seq(Msg)]
      /\ starts \in [Users -> SUBSET Start] /\ lit \in [Users -> SUBSET Calls]
      /\ calls \in Nat /\ down[u] \in Seq(Msg) /\ up[u] \in Seq(Msg)
    BY CallsExist DEF CallInv, TypeOK
<1>1. /\ UNCHANGED <<open, call, calls>> /\ down[u] # <<>>
      /\ down'[u] = IF on THEN Tail(down[u]) ELSE <<>>
    BY <1>0 DEF Deliver, server
<1>2. OneAtATime(tab[u].chat, tab[u].media, starts[u], lit[u], calls)
    BY DEF Course
<1>3. CASE ~on
    <2>1. tab' = [tab EXCEPT ![u] = tab[u]] /\ UNCHANGED <<starts, lit, up>> /\ down'[u] = <<>>
        BY <1>1, <1>3 DEF Deliver
    <2>2. tab'[u] = tab[u] /\ starts'[u] = {} /\ lit'[u] = {}
        BY <1>0, <1>2, <1>3, <2>1 DEF OneAtATime, Tab
    <2>3. Calling(starts'[u], lit'[u]) = {} /\ Begun(<<>>) = {}
        BY <2>2 DEF Calling, Begun
    <2>4. OneAtATime(tab'[u].chat, tab'[u].media, starts'[u], lit'[u], calls')
        BY <1>1, <1>2, <2>1, <2>2
    <2>5. StartsAlternate({}, <<>>) /\ LatestIsServers({}, <<>>, call')
        BY DEF StartsAlternate, LatestIsServers
    <2>6. EndedIsOver(tab'[u].media, {}, <<>>, up'[u], calls')
        <3>1. EndedIsOver(tab[u].media, Holds(u), down[u], up[u], calls)
            BY DEF Course
        <3>2. QED
            BY <1>1, <2>1, <2>3, <3>1 DEF EndedIsOver
    <2>7. QED
        BY <2>1, <2>3, <2>4, <2>5, <2>6, CoursePrimed
\* Nothing begins and nothing ends.
<1>4. ASSUME on, msg.m \notin Begins \cup Ends, UNCHANGED <<starts, lit>>,
             tab'[u].chat = tab[u].chat, tab'[u].media = tab[u].media,
             \A i \in DOMAIN up'[u] : up'[u][i].m = "end" => \E j \in DOMAIN up[u] : up'[u][i] = up[u][j]
      PROVE  Course(u)'
    <2>1. OneAtATime(tab'[u].chat, tab'[u].media, starts'[u], lit'[u], calls)
        BY <1>2, <1>4
    <2>2. Holds(u) = Calling(starts'[u], lit'[u])
        BY <1>4 DEF Holds
    <2>3. QED
        BY <1>1, <1>4, <2>1, <2>2, HeardKeepsCourse
<1>5. CASE on /\ msg.m \in {"request", "asked", "reject"} /\ UNCHANGED <<starts, lit, up>>
           /\ \/ tab' = [tab EXCEPT ![u] = [tab[u] EXCEPT !.incoming = "yes"]]
              \/ tab' = [tab EXCEPT ![u] = [tab[u] EXCEPT !.state = "requesting"]]
              \/ tab' = [tab EXCEPT ![u] = [tab[u] EXCEPT !.state = "idle"]]
    <2>1. tab'[u].chat = tab[u].chat /\ tab'[u].media = tab[u].media
        BY <1>0, <1>5 DEF Tab
    <2>2. QED
        BY <1>4, <1>5, <2>1 DEF Begins, Ends
<1>6. CASE /\ on /\ msg \in Signals /\ UNCHANGED <<starts, lit, up>>
           /\ tab' = [tab EXCEPT ![u] = [tab[u] EXCEPT !.pending = Append(@, msg)]]
    <2>1. tab'[u].chat = tab[u].chat /\ tab'[u].media = tab[u].media
        BY <1>0, <1>6 DEF Tab
    <2>2. QED
        BY <1>4, <1>6, <2>1 DEF Begins, Ends, Signals
<1>7. CASE /\ on /\ msg \in Signals /\ UNCHANGED <<starts, lit>>
           /\ tab' = [tab EXCEPT ![u].heard = IF msg.call = tab[u].pc THEN "yes" ELSE @]
           /\ Sends(u, Answers(tab[u].pc, <<msg>>))
    <2>1. tab'[u].chat = tab[u].chat /\ tab'[u].media = tab[u].media
        BY <1>0, <1>7 DEF Tab
    <2>2. <<msg>> \in Seq(Signals) /\ tab[u].pc \in 0..MaxRequests
        BY <1>0, <1>7 DEF Tab
    <2> DEFINE msgs == Answers(tab[u].pc, <<msg>>)
    <2>a. msgs \in Seq(Msg) /\ \A j \in DOMAIN msgs : msgs[j] = [m |-> "answer", call |-> tab[u].pc]
        BY <2>2, AnswersFit
    <2>3. msgs \in Seq(Msg) /\ \A j \in DOMAIN msgs : msgs[j].m = "answer"
        BY <2>a
    <2>4. Sends(u, msgs)
        BY <1>7
    <2>5. \A i \in DOMAIN up'[u] : up'[u][i].m = "end" => \E j \in DOMAIN up[u] : up'[u][i] = up[u][j]
        <3> HIDE DEF msgs
        <3>1. QED
            BY <2>3, <2>4, SentBefore
    <2>6. QED
        BY <1>4, <1>7, <2>1, <2>5 DEF Begins, Ends, Signals
<1>8. CASE /\ on /\ msg.m \in {"initiate", "start"}
           /\ starts' = [starts EXCEPT ![u] = @ \cup {[call |-> msg.call, role |-> msg.m, stage |-> "media"]}]
           /\ UNCHANGED <<tab, lit, up>>
    <2> DEFINE s == [call |-> msg.call, role |-> msg.m, stage |-> "media"]
    <2>1. msg.m \in Begins /\ msg = down[u][1] /\ 1 \in DOMAIN down[u]
        BY <1>0, <1>1, <1>8 DEF Begins
    <2>2. Holds(u) = {}
        <3>1. Holds(u) # {} => Ended(down[u], 1, 1 - 1)
            BY <2>1 DEF Course, StartsAlternate
        <3>2. QED
            BY <3>1 DEF Ended
    <2>3. starts[u] = {} /\ lit[u] = {}
        BY <2>2 DEF Holds, Calling
    <2>4. starts'[u] = {s} /\ lit'[u] = {} /\ tab'[u] = tab[u]
        BY <1>0, <1>8, <2>3
    <2>5. msg.call \in 1..calls
        BY <1>0, <2>1 DEF EventsFit
    <2>6. OneAtATime(tab'[u].chat, tab'[u].media, starts'[u], lit'[u], calls)
        BY <1>2, <1>8, <2>3, <2>4, <2>5 DEF OneAtATime
    <2>7. Calling(starts'[u], lit'[u]) = {msg.call}
        BY <2>4 DEF Calling
    <2>8. \A i \in DOMAIN up'[u] : up'[u][i].m = "end" => \E j \in DOMAIN up[u] : up'[u][i] = up[u][j]
        BY <1>8
    <2>9. QED
        BY <1>1, <1>8, <2>1, <2>4, <2>6, <2>7, <2>8, HeardKeepsCourse
\* The call, or the chat, is over.
<1>9. ASSUME on, msg.m \in Ends, NEW t \in Tab, t.media = tab[u].media, Cleanup(u, t), up' = up PROVE Course(u)'
    <2>1. starts'[u] = {} /\ lit'[u] = {} /\ tab'[u].media = 0
        BY <1>0, <1>9, CleanupEnds
    <2>2. Calling(starts'[u], lit'[u]) = {}
        BY <2>1 DEF Calling
    <2>3. OneAtATime(tab'[u].chat, tab'[u].media, starts'[u], lit'[u], calls)
        BY <1>0, <2>1 DEF OneAtATime
    <2>4. \A i \in DOMAIN up'[u] : up'[u][i].m = "end" => \E j \in DOMAIN up[u] : up'[u][i] = up[u][j]
        BY <1>9
    <2>5. QED
        BY <1>1, <1>9, <2>1, <2>2, <2>3, <2>4, HeardKeepsCourse
<1>10. CASE on /\ msg.m = "end" /\ Cleanup(u, tab[u]) /\ up' = up
    BY <1>0, <1>9, <1>10 DEF Ends
<1>11. CASE on /\ msg.m \in {"left", "gone"} /\ Leave(u) /\ up' = up
    <2> DEFINE t == [tab[u] EXCEPT !.chat = "off", !.incoming = "no", !.explain = "none"]
    <2>1. t \in Tab /\ t.media = tab[u].media
        BY <1>0 DEF Tab
    <2>2. Cleanup(u, t)
        BY <1>11 DEF Leave
    <2> HIDE DEF t
    <2>3. QED
        BY <1>9, <1>11, <2>1, <2>2 DEF Ends
<1>12. QED
    BY <1>3, <1>5, <1>6, <1>7, <1>8, <1>10, <1>11 DEF Deliver

LEMMA BreakKeepsCourse ==
    ASSUME CallInv, NEW u \in Users, Course(u), RoomIsKnown(u), u \notin marred', Break(u)
    PROVE  Course(u)'
<1> DEFINE h == Holds(u)
           d == down[u]
<1>0. /\ d \in Seq(Msg) /\ up \in [Users -> Seq(Msg)] /\ down \in [Users -> Seq(Msg)]
      /\ OneAtATime(tab[u].chat, tab[u].media, starts[u], lit[u], calls)
      /\ (open = "yes" => LatestIsServers(h, d, call))
    BY DEF CallInv, TypeOK, Course
<1>1. /\ UNCHANGED <<open, call, calls, tab, starts, lit>> /\ up'[u] = <<>> /\ down'[u] = <<>>
      /\ M("end") \notin {d[i] : i \in DOMAIN d}
    BY <1>0 DEF Break, tabs
<1>2. ASSUME open = "yes", NEW i \in DOMAIN d, d[i].m \in Ends PROVE FALSE
    <2>1. d[i].m = "end"
        BY <1>2 DEF RoomIsKnown, Farewell, Has, Ends
    <2>2. d[i].call = 0 /\ d[i] \in Msg
        BY <1>0, <2>1 DEF CallInv, EventsFit
    <2>3. d[i] = M("end")
        BY <2>1, <2>2 DEF M, Msg
    <2>4. QED
        BY <1>1, <2>3
<1>3. Begun(<<>>) = {} /\ StartsAlternate(h, <<>>)
    BY DEF Begun, StartsAlternate
<1>4. open' = "yes" => LatestIsServers(h, <<>>, call')
    <2>1. open = "yes" => ~Ended(d, 1, Len(d))
        BY <1>0, <1>2 DEF Ended
    <2>2. QED
        BY <1>0, <1>1, <2>1 DEF LatestIsServers
<1>5. EndedIsOver(tab'[u].media, h, <<>>, <<>>, calls')
    BY <1>3 DEF EndedIsOver
<1>6. h = Calling(starts'[u], lit'[u]) /\ OneAtATime(tab'[u].chat, tab'[u].media, starts'[u], lit'[u], calls')
    BY <1>0, <1>1 DEF Holds
<1>7. QED
    BY <1>1, <1>3, <1>4, <1>5, <1>6, CoursePrimed

-----------------------------------------------------------------------------
(* What is known of the room.                                              *)

LEMMA RoomIsKnownPrimed ==
    ASSUME NEW v \in Users
    PROVE  RoomIsKnown(v)' =
             ( /\ Farewell(down'[v]) => open' = "no"
               /\ Has(up'[v], "skip") => tab'[v].chat = "off"
               /\ tab'[v].chat = "on" /\ v \in linked' /\ ~Has(up'[v], "rejoin") =>
                    /\ open' = "no" => Farewell(down'[v])
                    /\ open' = "yes" => v \in live' )
BY DEF RoomIsKnown

LEMMA HasRest ==
    ASSUME NEW q \in Seq(Msg), q # <<>>, NEW x
    PROVE  /\ Has(Tail(q), x) => Has(q, x)
           /\ Has(q, x) /\ Head(q).m # x => Has(Tail(q), x)
           /\ Head(q).m = x => Has(q, x)
<1>1. Has(Tail(q), x) => Has(q, x)
    BY TailIsShifted DEF Has
<1>2. ASSUME Has(q, x), Head(q).m # x PROVE Has(Tail(q), x)
    <2>1. PICK i \in DOMAIN q : q[i].m = x
        BY <1>2 DEF Has
    <2>2. i # 1 /\ i \in 1..Len(q) /\ Len(q) \in Nat
        BY <1>2, <2>1
    <2>3. i - 1 \in DOMAIN Tail(q) /\ (i - 1) + 1 = i
        BY <2>2, TailIsShifted
    <2>4. Tail(q)[i - 1] = q[i]
        BY <2>3, TailIsShifted
    <2>5. QED
        BY <2>1, <2>3, <2>4 DEF Has
<1>3. Head(q).m = x => Has(q, x)
    BY TailIsShifted DEF Has
<1>4. QED
    BY <1>1, <1>2, <1>3

LEMMA HasMore ==
    ASSUME NEW q \in Seq(Msg), NEW m \in Msg, NEW x
    PROVE  Has(Append(q, m), x) <=> Has(q, x) \/ m.m = x
<1>1. Len(Append(q, m)) = Len(q) + 1 /\ DOMAIN Append(q, m) = 1..(Len(q) + 1) /\ DOMAIN q = 1..Len(q)
      /\ Append(q, m)[Len(q) + 1] = m /\ (\A i \in DOMAIN q : Append(q, m)[i] = q[i]) /\ Len(q) \in Nat
    OBVIOUS
<1>2. ASSUME Has(Append(q, m), x) PROVE Has(q, x) \/ m.m = x
    <2>1. PICK i \in 1..(Len(q) + 1) : Append(q, m)[i].m = x
        BY <1>1, <1>2 DEF Has
    <2>2. i = Len(q) + 1 \/ i \in DOMAIN q
        BY <1>1
    <2>3. QED
        BY <1>1, <2>1, <2>2 DEF Has
<1>3. ASSUME Has(q, x) PROVE Has(Append(q, m), x)
    <2>1. PICK i \in DOMAIN q : q[i].m = x
        BY <1>3 DEF Has
    <2>2. i \in DOMAIN Append(q, m)
        BY <1>1
    <2>3. QED
        BY <1>1, <2>1, <2>2 DEF Has
<1>4. ASSUME m.m = x PROVE Has(Append(q, m), x)
    <2>1. Len(q) + 1 \in DOMAIN Append(q, m)
        BY <1>1
    <2>2. QED
        BY <1>1, <1>4, <2>1 DEF Has
<1>5. QED
    BY <1>2, <1>3, <1>4

LEMMA HasSent ==
    ASSUME CallInv, NEW u \in Users, NEW msgs \in Seq(Msg), Sends(u, msgs), NEW x
    PROVE  /\ Has(up[u], x) => Has(up'[u], x)
           /\ Has(up'[u], x) => Has(up[u], x) \/ Has(msgs, x)
<1>1. up \in [Users -> Seq(Msg)] /\ up[u] \in Seq(Msg)
    BY DEF CallInv, TypeOK
<1>2. ASSUME Has(up[u], x) PROVE Has(up'[u], x)
    <2>1. PICK i \in DOMAIN up[u] : up[u][i].m = x
        BY <1>2 DEF Has
    <2>2. i \in DOMAIN up'[u] /\ up'[u][i] = up[u][i]
        <3>1. CASE up'[u] = up[u]
            BY <3>1
        <3>2. CASE up'[u] = up[u] \o msgs
            BY <1>1, <3>2
        <3>3. QED
            BY <1>1, <3>1, <3>2 DEF Sends
    <2>3. QED
        BY <2>1, <2>2 DEF Has
<1>3. ASSUME Has(up'[u], x) PROVE Has(up[u], x) \/ Has(msgs, x)
    <2>1. PICK i \in DOMAIN up'[u] : up'[u][i].m = x
        BY <1>3 DEF Has
    <2>2. (\E j \in DOMAIN up[u] : up'[u][i] = up[u][j]) \/ \E j \in DOMAIN msgs : up'[u][i] = msgs[j]
        BY SentBefore
    <2>3. QED
        BY <2>1, <2>2 DEF Has
<1>4. QED
    BY <1>2, <1>3

\* The room is closed while it is open: a member with a seat is told, and who has
\* none asks for it.
LEMMA CloseIsKnown ==
    ASSUME CallInv, NEW v \in Users, RoomIsKnown(v), NEW w, Close(w), open = "yes",
           v = w => v \notin live \/ tab[v].chat = "off",
           UNCHANGED <<linked, tab>>,
           Has(up'[v], "skip") => Has(up[v], "skip"),
           Has(up[v], "rejoin") => Has(up'[v], "rejoin")
    PROVE  RoomIsKnown(v)'
<1> DEFINE msgs == [x \in Users |-> IF x = w THEN <<>> ELSE <<M("left")>>]
<1>1. Tell(msgs) /\ open' = "no"
    BY DEF Close
<1>2. down[v] \in Seq(Msg) /\ down \in [Users -> Seq(Msg)] /\ M("left") \in Msg /\ M("left").m = "left"
    BY NotesFit DEF CallInv, TypeOK, M
<1>3. ASSUME tab'[v].chat = "on", v \in linked', ~Has(up'[v], "rejoin") PROVE Farewell(down'[v])
    <2>1. v \in live /\ v # w
        BY <1>3 DEF RoomIsKnown
    <2>2. down'[v] = down[v] \o <<M("left")>>
        BY <1>1, <1>2, <2>1 DEF Tell
    <2>3. down[v] \o <<M("left")>> = Append(down[v], M("left"))
        BY <1>2
    <2>4. Has(Append(down[v], M("left")), "left")
        BY <1>2, HasMore
    <2>5. Has(down'[v], "left")
        BY <2>2, <2>3, <2>4
    <2>6. QED
        BY <2>5 DEF Farewell
<1>4. Has(up'[v], "skip") => tab'[v].chat = "off"
    BY DEF RoomIsKnown
<1>5. QED
    BY <1>1, <1>3, <1>4, RoomIsKnownPrimed

\* Nothing is said of the room.
LEMMA RoomStaysKnown ==
    ASSUME CallInv, NEW v \in Users, RoomIsKnown(v), open' = open, v \in live => v \in live',
           tab'[v].chat = tab[v].chat, v \in linked' => v \in linked,
           \/ down'[v] = down[v]
           \/ \E m \in Msg : m.m \notin {"left", "gone"} /\ down'[v] = Append(down[v], m),
           Has(up'[v], "skip") => Has(up[v], "skip"),
           Has(up[v], "rejoin") => Has(up'[v], "rejoin")
    PROVE  RoomIsKnown(v)'
<1>1. down[v] \in Seq(Msg)
    BY DEF CallInv, TypeOK
<1>2. Farewell(down'[v]) <=> Farewell(down[v])
    <2>1. CASE down'[v] = down[v]
        BY <2>1
    <2>2. ASSUME NEW m \in Msg, m.m \notin {"left", "gone"}, down'[v] = Append(down[v], m)
          PROVE  Farewell(down'[v]) <=> Farewell(down[v])
        <3>1. Has(down'[v], "left") <=> Has(down[v], "left")
            BY <1>1, <2>2, HasMore
        <3>2. Has(down'[v], "gone") <=> Has(down[v], "gone")
            BY <1>1, <2>2, HasMore
        <3>3. QED
            BY <3>1, <3>2 DEF Farewell
    <2>3. QED
        BY <2>1, <2>2
<1>3. QED
    BY <1>2, RoomIsKnownPrimed DEF RoomIsKnown

LEMMA HandleIsKnown ==
    ASSUME CallInv, NEW u \in Users, Handle(u), NEW v \in Users, RoomIsKnown(v), RoomIsKnown(u)
    PROVE  RoomIsKnown(v)'
<1> DEFINE msg == Head(up[u])
<1>0. /\ TypeOK /\ up[u] \in Seq(Msg) /\ up[u] # <<>> /\ msg \in Msg /\ down[v] \in Seq(Msg)
      /\ down \in [Users -> Seq(Msg)] /\ up \in [Users -> Seq(Msg)] /\ open \in {"yes", "no"}
      /\ {M("gone"), M("end")} \subseteq Msg
    <2>1. up[u] # <<>>
        BY DEF Handle
    <2>2. QED
        BY <2>1, NotesFit DEF CallInv, TypeOK
<1>1. /\ up' = [up EXCEPT ![u] = Tail(@)] /\ UNCHANGED <<linked, tab, starts, lit>>
    BY DEF Handle, tabs
<1>2. Has(up'[v], "skip") => Has(up[v], "skip")
    <2>1. CASE v = u
        BY <1>0, <1>1, <2>1, HasRest
    <2>2. CASE v # u
        BY <1>0, <1>1, <2>2
    <2>3. QED
        BY <2>1, <2>2
<1>3. v # u \/ msg.m # "rejoin" => (Has(up[v], "rejoin") => Has(up'[v], "rejoin"))
    <2>1. CASE v = u
        BY <1>0, <1>1, <2>1, HasRest
    <2>2. CASE v # u
        BY <1>0, <1>1, <2>2
    <2>3. QED
        BY <2>1, <2>2
\* A handler that says nothing of the room.
<1>4. ASSUME NEW msgs \in Notes, Tell(msgs), \A m \in Msg : msgs[v] = <<m>> => m.m \notin {"left", "gone"},
             UNCHANGED <<open, live>>, msg.m # "rejoin"
      PROVE  RoomIsKnown(v)'
    <2>1. down'[v] = down[v] \/ \E m \in Msg : msgs[v] = <<m>> /\ down'[v] = Append(down[v], m)
        BY <1>0, <1>4, Told
    <2>2. \/ down'[v] = down[v]
          \/ \E m \in Msg : m.m \notin {"left", "gone"} /\ down'[v] = Append(down[v], m)
        BY <1>4, <2>1
    <2>3. QED
        BY <1>1, <1>2, <1>3, <1>4, <2>2, RoomStaysKnown
<1>5. CASE Tell(ToNobody) /\ UNCHANGED server /\ msg.m # "rejoin"
    <2>1. ToNobody \in Notes /\ \A m \in Msg : ToNobody[v] # <<m>>
        BY NotesFit DEF ToNobody
    <2>2. QED
        BY <1>4, <1>5, <2>1 DEF server
<1>6. CASE VideoRequest(u) /\ msg.m # "rejoin"
    <2>1. CASE ~(locked = "yes" \/ call # 0)
        <3> DEFINE msgs == [ToPartner(u, M("request")) EXCEPT ![u] = <<M("asked")>>]
        <3>1. msgs \in Notes
            BY NotesFit
        <3>2. \A m \in Msg : msgs[v] = <<m>> => m.m \in {"request", "asked"}
            BY DEF ToPartner, M
        <3>3. QED
            BY <1>4, <1>6, <2>1, <3>1, <3>2 DEF VideoRequest
    <2>2. QED
        BY <1>5, <1>6, <2>1 DEF VideoRequest
<1>7. CASE VideoReject(u) /\ msg.m # "rejoin"
    <2>1. CASE req = Partner(u)
        <3>1. ToPartner(u, M("reject")) \in Notes
            BY NotesFit
        <3>2. \A m \in Msg : ToPartner(u, M("reject"))[v] = <<m>> => m.m \in {"reject"}
            BY DEF ToPartner, M
        <3>3. QED
            BY <1>4, <1>7, <2>1, <3>1, <3>2 DEF VideoReject
    <2>2. QED
        BY <1>5, <1>7, <2>1 DEF VideoReject
<1>8. CASE msg \in Signals /\ RtcSignal(u, msg) /\ msg.m # "rejoin"
    <2> DEFINE msgs == IF call # 0 THEN ToPartner(u, msg) ELSE ToNobody
    <2>1. msgs \in Notes
        BY <1>0, NotesFit
    <2>2. \A m \in Msg : msgs[v] = <<m>> => m.m \in {"offer", "answer"}
        BY <1>8 DEF ToPartner, ToNobody, Signals
    <2>3. QED
        BY <1>4, <1>8, <2>1, <2>2 DEF RtcSignal, server
<1>9. CASE VideoEnd(u) /\ msg.m # "rejoin"
    <2> DEFINE msgs == IF call # 0 THEN ToPartner(u, M("end")) ELSE ToNobody
    <2>1. msgs \in Notes
        BY NotesFit
    <2>2. \A m \in Msg : msgs[v] = <<m>> => m.m \in {"end"}
        BY DEF ToPartner, ToNobody, M
    <2>3. QED
        BY <1>4, <1>9, <2>1, <2>2 DEF VideoEnd
<1>10. CASE VideoAccept(u) /\ msg.m # "rejoin"
    <2>1. CASE req = Partner(u)
        <3> DEFINE msgs == [w \in Users |-> <<[m |-> IF w = u THEN "start" ELSE "initiate", call |-> call']>>]
        <3>0. call' = calls + 1 /\ calls' = calls + 1 /\ Tell(msgs) /\ UNCHANGED <<open, live>>
            BY <1>10, <2>1 DEF VideoAccept
        <3>2. calls' \in 0..MaxRequests
            BY HandleInv DEF CallInv, TypeOK
        <3>3. msgs \in Notes
            BY <3>0, <3>2 DEF Notes, Msg
        <3>4. \A m \in Msg : msgs[v] = <<m>> => m.m \in {"initiate", "start"}
            OBVIOUS
        <3>5. QED
            BY <1>4, <1>10, <3>0, <3>3, <3>4
    <2>2. QED
        BY <1>5, <1>10, <2>1 DEF VideoAccept
<1>11. CASE msg.m = "skip" /\ Close(u) /\ open = "yes"
    <2>1. v = u => tab[v].chat = "off"
        <3>1. Has(up[u], "skip")
            BY <1>0, <1>11, HasRest
        <3>2. QED
            BY <3>1 DEF RoomIsKnown
    <2>2. QED
        BY <1>1, <1>2, <1>3, <1>11, <2>1, CloseIsKnown
<1>12. CASE Rejoin(u)
    <2>1. CASE open = "no"
        <3>1. down' = [down EXCEPT ![u] = Append(@, M("gone"))] /\ UNCHANGED <<open, live>>
            BY <1>12, <2>1 DEF Rejoin, server
        <3>2. CASE v = u
            <4>1. down'[v] = Append(down[v], M("gone"))
                BY <1>0, <3>1, <3>2
            <4>2. Has(down'[v], "gone")
                BY <1>0, <4>1, HasMore DEF M
            <4>3. Farewell(down'[v]) /\ open' = "no"
                BY <2>1, <3>1, <4>2 DEF Farewell
            <4>4. Has(up'[v], "skip") => tab'[v].chat = "off"
                BY <1>1, <1>2 DEF RoomIsKnown
            <4>5. QED
                BY <4>3, <4>4, RoomIsKnownPrimed
        <3>3. CASE v # u
            <4>1. down'[v] = down[v]
                BY <1>0, <3>1, <3>3
            <4>2. QED
                BY <1>1, <1>2, <1>3, <3>1, <3>3, <4>1, RoomStaysKnown
        <3>4. QED
            BY <3>2, <3>3
    <2>2. CASE open = "yes"
        <3>1. /\ live' = live \cup {u} /\ open' = open
              /\ down' = [w \in Users |->
                    IF w \in live' /\ call # 0 THEN Append(down[w], M("end")) ELSE down[w]]
            BY <1>12, <2>2 DEF Rejoin
        <3>2. \/ down'[v] = down[v]
              \/ \E m \in Msg : m.m \notin {"left", "gone"} /\ down'[v] = Append(down[v], m)
            BY <1>0, <3>1 DEF M
        <3>3. CASE v # u
            BY <1>1, <1>2, <1>3, <3>1, <3>2, <3>3, RoomStaysKnown
        <3>4. CASE v = u
            <4>1. ~Farewell(down'[v])
                <5>1. ~Has(down[v], "left") /\ ~Has(down[v], "gone")
                    BY <2>2 DEF RoomIsKnown, Farewell
                <5>2. CASE down'[v] = down[v]
                    BY <5>1, <5>2 DEF Farewell
                <5>3. ASSUME NEW m \in Msg, m.m \notin {"left", "gone"}, down'[v] = Append(down[v], m)
                      PROVE  ~Farewell(down'[v])
                    <6>1. ~Has(down'[v], "left")
                        BY <1>0, <5>1, <5>3, HasMore
                    <6>2. ~Has(down'[v], "gone")
                        BY <1>0, <5>1, <5>3, HasMore
                    <6>3. QED
                        BY <6>1, <6>2 DEF Farewell
                <5>4. QED
                    BY <3>2, <5>2, <5>3
            <4>2. v \in live' /\ open' = "yes"
                BY <2>2, <3>1, <3>4
            <4>3. Has(up'[v], "skip") => tab'[v].chat = "off"
                BY <1>1, <1>2 DEF RoomIsKnown
            <4>4. QED
                BY <4>1, <4>2, <4>3, RoomIsKnownPrimed
        <3>5. QED
            BY <3>3, <3>4
    <2>3. QED
        BY <1>0, <2>1, <2>2
<1>13. QED
    BY <1>0, <1>5, <1>6, <1>7, <1>8, <1>9, <1>10, <1>11, <1>12 DEF Handle

\* The timers close the room without a tab's doing.
LEMMA RoomEndsIsKnown ==
    ASSUME CallInv, RoomEnds, NEW v \in Users, RoomIsKnown(v)
    PROVE  RoomIsKnown(v)'
<1>1. open = "yes" /\ UNCHANGED <<linked, tab, up>>
    BY DEF RoomEnds, tabs
<1>2. PICK w \in Users \cup {None} : Close(w) /\ (w = None \/ w \notin live)
    BY DEF RoomEnds
<1>3. v = w => v \notin live
    BY <1>2, TwoMembers
<1>4. QED
    BY <1>1, <1>2, <1>3, CloseIsKnown

LEMMA ElsewhereIsKnown ==
    ASSUME CallInv, NEW v \in Users, RoomIsKnown(v), Elsewhere(v)
    PROVE  RoomIsKnown(v)'
BY RoomStaysKnown DEF Elsewhere

\* A tab says something that does not leave the chat.
LEMMA TalkIsKnown ==
    ASSUME CallInv, NEW u \in Users, RoomIsKnown(u), UNCHANGED <<open, live, linked, down>>,
           tab'[u].chat = tab[u].chat, NEW msgs \in Seq(Msg), Sends(u, msgs), ~Has(msgs, "skip")
    PROVE  RoomIsKnown(u)'
<1>1. Has(up'[u], "skip") => Has(up[u], "skip")
    BY HasSent
<1>2. Has(up[u], "rejoin") => Has(up'[u], "rejoin")
    BY HasSent
<1>3. QED
    BY <1>1, <1>2, RoomStaysKnown

LEMMA SilenceIsKnown ==
    ASSUME CallInv, NEW u \in Users, RoomIsKnown(u), UNCHANGED <<open, live, linked, down, up>>,
           tab'[u].chat = tab[u].chat
    PROVE  RoomIsKnown(u)'
BY RoomStaysKnown

LEMMA OneMessage ==
    ASSUME NEW m \in Msg, m.m # "skip"
    PROVE  <<m>> \in Seq(Msg) /\ ~Has(<<m>>, "skip")
BY DEF Has

LEMMA ClicksAreKnown ==
    ASSUME CallInv, NEW u \in Users, RoomIsKnown(u),
           \/ ClickRequest(u) \/ ClickRespond(u, TRUE) \/ ClickRespond(u, FALSE)
           \/ Confirm(u) \/ CancelExplainer(u) \/ MediaReady(u)
    PROVE  RoomIsKnown(u)'
<1>0. tab \in [Users -> Tab] /\ tab[u] \in Tab
    BY DEF CallInv, TypeOK
<1>1. UNCHANGED <<open, live, linked, down>>
    BY DEF ClickRequest, ClickRespond, Confirm, CancelExplainer, MediaReady, server, net
<1>2. tab'[u].chat = tab[u].chat
    <2>1. CASE MediaReady(u)
        <3>1. PICK s \in starts[u] :
                  tab' = [tab EXCEPT ![u].media = s.call,
                                     ![u].state = IF tab[u].chat = "on" THEN "active" ELSE @]
            BY <2>1 DEF MediaReady
        <3>2. QED
            BY <1>0, <3>1 DEF Tab
    <2>2. CASE ~MediaReady(u)
        BY <1>0, <2>2 DEF ClickRequest, ClickRespond, Confirm, CancelExplainer, Tab
    <2>3. QED
        BY <2>1, <2>2
<1>3. up' = up \/ \E m \in {"request", "accept", "reject"} : Sends(u, <<M(m)>>)
    <2>1. CASE ClickRequest(u)
        BY <2>1 DEF ClickRequest, Ask
    <2>2. ASSUME NEW accept \in BOOLEAN, ClickRespond(u, accept)
          PROVE  up' = up \/ \E m \in {"request", "accept", "reject"} : Sends(u, <<M(m)>>)
        BY <2>2 DEF ClickRespond, Accept
    <2>3. CASE Confirm(u)
        BY <2>3 DEF Confirm, Ask, Accept
    <2>4. CASE CancelExplainer(u) \/ MediaReady(u)
        BY <2>4 DEF CancelExplainer, MediaReady, net
    <2>5. QED
        BY <2>1, <2>2, <2>3, <2>4
<1>4. ASSUME NEW m \in {"request", "accept", "reject"}, Sends(u, <<M(m)>>) PROVE RoomIsKnown(u)'
    <2>1. M(m) \in Msg /\ M(m).m # "skip"
        BY NotesFit DEF M
    <2>2. <<M(m)>> \in Seq(Msg) /\ ~Has(<<M(m)>>, "skip")
        BY <2>1, OneMessage
    <2>3. QED
        BY <1>1, <1>2, <1>4, <2>2, TalkIsKnown
<1>5. QED
    BY <1>1, <1>2, <1>3, <1>4, SilenceIsKnown

LEMMA SignalsAreKnown ==
    ASSUME CallInv, NEW u \in Users, RoomIsKnown(u), CallReady(u)
    PROVE  RoomIsKnown(u)'
<1>0. /\ tab \in [Users -> Tab] /\ tab[u] \in Tab /\ starts[u] \subseteq Start
      /\ UNCHANGED <<open, live, linked, down>>
    BY DEF CallInv, TypeOK, CallReady, server
<1>1. PICK s \in starts[u] :
          /\ tab' = [tab EXCEPT ![u].pc = s.call, ![u].pending = <<>>, ![u].heard = Hears(s.call, tab[u].pending)]
          /\ Sends(u, Offers(s) \o Answers(s.call, tab[u].pending))
    BY DEF CallReady
<1> DEFINE offers == Offers(s)
           answers == Answers(s.call, tab[u].pending)
<1>2. s \in Start /\ s.call \in 0..MaxRequests /\ tab[u].pending \in Seq(Signals)
    BY <1>0, BoundsAreNumbers DEF Start, Calls, Tab
<1>3. offers \in Seq(Msg) /\ \A i \in DOMAIN offers : offers[i].m = "offer"
    <2>1. offers \in Seq(Msg) /\ \A i \in DOMAIN offers : offers[i] = [m |-> "offer", call |-> s.call]
        BY <1>2, OffersFit
    <2>2. QED
        BY <2>1
<1>4. answers \in Seq(Msg) /\ \A i \in DOMAIN answers : answers[i].m = "answer"
    <2>1. answers \in Seq(Msg) /\ \A i \in DOMAIN answers : answers[i] = [m |-> "answer", call |-> s.call]
        BY <1>2, AnswersFit
    <2>2. QED
        BY <2>1
<1>5. tab'[u].chat = tab[u].chat
    BY <1>0, <1>1 DEF Tab
<1>6. Sends(u, offers \o answers)
    BY <1>1
<1> HIDE DEF offers, answers
<1>7. offers \o answers \in Seq(Msg)
    BY <1>3, <1>4
<1>8. \A i \in DOMAIN (offers \o answers) : (offers \o answers)[i].m \in {"offer", "answer"}
    <2>1. ASSUME NEW i \in DOMAIN (offers \o answers)
          PROVE  \/ i \in DOMAIN offers /\ (offers \o answers)[i] = offers[i]
                 \/ \E j \in DOMAIN answers : (offers \o answers)[i] = answers[j]
        <3>1. Len(offers) \in Nat /\ Len(answers) \in Nat /\ i \in 1..(Len(offers) + Len(answers))
            BY <1>3, <1>4
        <3>2. CASE i <= Len(offers)
            BY <1>3, <1>4, <3>1, <3>2
        <3>3. CASE i > Len(offers)
            <4>1. i - Len(offers) \in DOMAIN answers /\ (offers \o answers)[i] = answers[i - Len(offers)]
                BY <1>3, <1>4, <3>1, <3>3
            <4>2. QED
                BY <4>1
        <3>4. QED
            BY <3>1, <3>2, <3>3
    <2>2. QED
        BY <1>3, <1>4, <2>1
<1>9. ~Has(offers \o answers, "skip")
    BY <1>8 DEF Has
<1>10. QED
    BY <1>0, <1>5, <1>6, <1>7, <1>9, TalkIsKnown

\* The call, or the chat, is ended by the tab.
LEMMA EndingIsKnown ==
    ASSUME CallInv, NEW u \in Users, RoomIsKnown(u), ClickEnd(u) \/ ClickSkip(u) \/ StartFails(u)
    PROVE  RoomIsKnown(u)'
<1>0. /\ TypeOK /\ tab \in [Users -> Tab] /\ tab[u] \in Tab /\ starts[u] \subseteq Start /\ down[u] \in Seq(Msg)
      /\ UNCHANGED <<open, live, linked, down>>
    BY DEF CallInv, TypeOK, ClickEnd, ClickSkip, StartFails, server
<1>1. ASSUME Cleanup(u, tab[u]), NEW c \in 0..MaxRequests, Sends(u, <<[m |-> "end", call |-> c]>>)
      PROVE  RoomIsKnown(u)'
    <2>1. tab'[u].chat = tab[u].chat
        <3>1. PICK clean \in Tab : tab' = [tab EXCEPT ![u] = clean] /\ clean.chat = tab[u].chat
            BY <1>0, <1>1, CleanupFacts
        <3>2. QED
            BY <1>0, <3>1
    <2>2. [m |-> "end", call |-> c] \in Msg
        BY DEF Msg
    <2>3. <<[m |-> "end", call |-> c]>> \in Seq(Msg) /\ ~Has(<<[m |-> "end", call |-> c]>>, "skip")
        BY <2>2, OneMessage
    <2>4. QED
        BY <1>0, <1>1, <2>1, <2>3, TalkIsKnown
<1>2. CASE ClickEnd(u)
    <2>1. tab[u].media \in 0..MaxRequests
        BY <1>0 DEF Tab
    <2>2. QED
        BY <1>1, <1>2, <2>1 DEF ClickEnd
<1>3. CASE StartFails(u)
    <2>1. PICK s \in starts[u] : Cleanup(u, tab[u]) /\ Sends(u, <<[m |-> "end", call |-> s.call]>>)
        BY <1>3 DEF StartFails
    <2>2. s.call \in 0..MaxRequests
        BY <1>0, BoundsAreNumbers DEF Start, Calls
    <2>3. QED
        BY <1>1, <2>1, <2>2
<1>4. CASE ClickSkip(u)
    <2> DEFINE t == [tab[u] EXCEPT !.chat = "off", !.incoming = "no", !.explain = "none"]
    <2>1. t \in Tab /\ t.chat = "off"
        BY <1>0 DEF Tab
    <2>2. Cleanup(u, t)
        BY <1>4 DEF ClickSkip, Leave
    <2> HIDE DEF t
    <2>3. PICK clean \in Tab : tab' = [tab EXCEPT ![u] = clean] /\ clean.chat = "off"
        BY <1>0, <2>1, <2>2, CleanupFacts
    <2>4. tab'[u].chat = "off"
        BY <1>0, <2>3
    <2>5. Farewell(down'[u]) => open' = "no"
        BY <1>0 DEF RoomIsKnown
    <2>6. QED
        BY <2>4, <2>5, RoomIsKnownPrimed
<1>5. QED
    BY <1>2, <1>3, <1>4

\* What reaches the tab.
LEMMA HeardIsKnown ==
    ASSUME CallInv, NEW u \in Users, RoomIsKnown(u), UNCHANGED <<open, live, linked>>,
           down[u] # <<>>, down'[u] = Tail(down[u]),
           \/ tab'[u].chat = "off"
           \/ tab'[u].chat = tab[u].chat /\ Head(down[u]).m \notin {"left", "gone"},
           Has(up'[u], "skip") => Has(up[u], "skip"),
           Has(up[u], "rejoin") => Has(up'[u], "rejoin")
    PROVE  RoomIsKnown(u)'
<1>1. down[u] \in Seq(Msg)
    BY DEF CallInv, TypeOK
<1>2. /\ Has(Tail(down[u]), "left") => Has(down[u], "left")
      /\ Has(down[u], "left") /\ Head(down[u]).m # "left" => Has(Tail(down[u]), "left")
    BY <1>1, HasRest
<1>3. /\ Has(Tail(down[u]), "gone") => Has(down[u], "gone")
      /\ Has(down[u], "gone") /\ Head(down[u]).m # "gone" => Has(Tail(down[u]), "gone")
    BY <1>1, HasRest
<1>4. Farewell(down'[u]) => open' = "no"
    BY <1>2, <1>3 DEF Farewell, RoomIsKnown
<1>5. CASE tab'[u].chat = "off"
    BY <1>4, <1>5, RoomIsKnownPrimed
<1>6. CASE tab'[u].chat = tab[u].chat /\ Head(down[u]).m \notin {"left", "gone"}
    <2>1. Farewell(down[u]) => Farewell(down'[u])
        BY <1>2, <1>3, <1>6 DEF Farewell
    <2>2. QED
        BY <1>4, <1>6, <2>1, RoomIsKnownPrimed DEF RoomIsKnown
<1>7. QED
    BY <1>5, <1>6

LEMMA DeliverIsKnown ==
    ASSUME CallInv, NEW u \in Users, RoomIsKnown(u), Deliver(u)
    PROVE  RoomIsKnown(u)'
<1> DEFINE msg == Head(down[u])
           on == tab[u].chat = "on"
<1>0. /\ TypeOK /\ tab \in [Users -> Tab] /\ tab[u] \in Tab /\ down \in [Users -> Seq(Msg)]
    BY DEF CallInv, TypeOK
<1>1. /\ UNCHANGED <<open, live, linked>> /\ down[u] # <<>>
      /\ down'[u] = IF on THEN Tail(down[u]) ELSE <<>>
    BY <1>0 DEF Deliver, server
<1>2. CASE ~on
    <2>1. tab' = [tab EXCEPT ![u] = tab[u]] /\ down'[u] = <<>>
        BY <1>1, <1>2 DEF Deliver
    <2>2. tab'[u].chat = "off"
        BY <1>0, <1>2, <2>1 DEF Tab
    <2>3. ~Farewell(down'[u])
        BY <2>1 DEF Farewell, Has
    <2>4. QED
        BY <2>2, <2>3, RoomIsKnownPrimed
<1>3. ASSUME on, msg.m \notin {"left", "gone"}, up' = up, tab'[u].chat = tab[u].chat
      PROVE  RoomIsKnown(u)'
    BY <1>1, <1>3, HeardIsKnown
<1>4. CASE on /\ msg.m \in {"request", "asked", "reject"} /\ up' = up
           /\ \/ tab' = [tab EXCEPT ![u] = [tab[u] EXCEPT !.incoming = "yes"]]
              \/ tab' = [tab EXCEPT ![u] = [tab[u] EXCEPT !.state = "requesting"]]
              \/ tab' = [tab EXCEPT ![u] = [tab[u] EXCEPT !.state = "idle"]]
    <2>1. tab'[u].chat = tab[u].chat
        BY <1>0, <1>4 DEF Tab
    <2>2. QED
        BY <1>3, <1>4, <2>1
<1>5. CASE /\ on /\ msg \in Signals /\ up' = up
           /\ tab' = [tab EXCEPT ![u] = [tab[u] EXCEPT !.pending = Append(@, msg)]]
    <2>1. tab'[u].chat = tab[u].chat
        BY <1>0, <1>5 DEF Tab
    <2>2. QED
        BY <1>3, <1>5, <2>1 DEF Signals
<1>6. CASE /\ on /\ msg \in Signals
           /\ tab' = [tab EXCEPT ![u].heard = IF msg.call = tab[u].pc THEN "yes" ELSE @]
           /\ Sends(u, Answers(tab[u].pc, <<msg>>))
    <2>1. tab'[u].chat = tab[u].chat
        BY <1>0, <1>6 DEF Tab
    <2>2. <<msg>> \in Seq(Signals) /\ tab[u].pc \in 0..MaxRequests
        BY <1>0, <1>6 DEF Tab
    <2> DEFINE msgs == Answers(tab[u].pc, <<msg>>)
    <2>3. msgs \in Seq(Msg) /\ \A j \in DOMAIN msgs : msgs[j] = [m |-> "answer", call |-> tab[u].pc]
        BY <2>2, AnswersFit
    <2>4. msgs \in Seq(Msg) /\ ~Has(msgs, "skip")
        BY <2>3 DEF Has
    <2>5. Sends(u, msgs)
        BY <1>6
    <2> HIDE DEF msgs
    <2>6. (Has(up'[u], "skip") => Has(up[u], "skip")) /\ (Has(up[u], "rejoin") => Has(up'[u], "rejoin"))
        BY <2>4, <2>5, HasSent
    <2>7. QED
        BY <1>1, <1>6, <2>1, <2>6, HeardIsKnown DEF Signals
<1>7. CASE on /\ msg.m \in {"initiate", "start"} /\ UNCHANGED <<tab, up>>
    BY <1>3, <1>7
<1>8. CASE on /\ msg.m = "end" /\ Cleanup(u, tab[u]) /\ up' = up
    <2>1. PICK clean \in Tab : tab' = [tab EXCEPT ![u] = clean] /\ clean.chat = tab[u].chat
        BY <1>0, <1>8, CleanupFacts
    <2>2. tab'[u].chat = tab[u].chat
        BY <1>0, <2>1
    <2>3. QED
        BY <1>3, <1>8, <2>2
<1>9. CASE on /\ msg.m \in {"left", "gone"} /\ Leave(u) /\ up' = up
    <2> DEFINE t == [tab[u] EXCEPT !.chat = "off", !.incoming = "no", !.explain = "none"]
    <2>1. t \in Tab /\ t.chat = "off"
        BY <1>0 DEF Tab
    <2>2. Cleanup(u, t)
        BY <1>9 DEF Leave
    <2> HIDE DEF t
    <2>3. PICK clean \in Tab : tab' = [tab EXCEPT ![u] = clean] /\ clean.chat = "off"
        BY <1>0, <2>1, <2>2, CleanupFacts
    <2>4. tab'[u].chat = "off"
        BY <1>0, <2>3
    <2>5. QED
        BY <1>1, <1>9, <2>4, HeardIsKnown
<1>10. QED
    BY <1>2, <1>4, <1>5, <1>6, <1>7, <1>8, <1>9 DEF Deliver

\* The connection breaks, or is back.
LEMMA ConnectionIsKnown ==
    ASSUME CallInv, NEW u \in Users, RoomIsKnown(u), Break(u) \/ Reconnect(u)
    PROVE  RoomIsKnown(u)'
<1>0. up \in [Users -> Seq(Msg)] /\ down \in [Users -> Seq(Msg)] /\ tab \in [Users -> Tab] /\ tab[u] \in Tab
    BY DEF CallInv, TypeOK
<1>1. CASE Break(u)
    <2>1. u \notin linked' /\ up'[u] = <<>> /\ down'[u] = <<>>
        BY <1>0, <1>1 DEF Break
    <2>2. ~Farewell(down'[u]) /\ ~Has(up'[u], "skip")
        BY <2>1 DEF Farewell, Has
    <2>3. QED
        BY <2>1, <2>2, RoomIsKnownPrimed
<1>2. CASE Reconnect(u)
    <2>1. /\ UNCHANGED <<open, down, tab>>
          /\ up'[u] = IF tab[u].chat = "on" THEN <<M("rejoin")>> ELSE <<>>
        BY <1>0, <1>2 DEF Reconnect, server, tabs
    <2>2. Has(<<M("rejoin")>>, "rejoin") /\ ~Has(<<M("rejoin")>>, "skip") /\ ~Has(<<>>, "skip")
        BY DEF Has, M
    <2>3. QED
        BY <2>1, <2>2, RoomIsKnownPrimed DEF RoomIsKnown
<1>3. QED
    BY <1>1, <1>2

-----------------------------------------------------------------------------
(* All together.                                                           *)

LEMMA RequestsKeepWaiting ==
    ASSUME CallInv, RequestsWait, Next
    PROVE  RequestsWait'
<1>1. ASSUME UNCHANGED <<req, call>> PROVE RequestsWait'
    BY <1>1 DEF RequestsWait
<1>2. ASSUME NEW u \in Users, Handle(u) PROVE RequestsWait'
    <2>1. CASE UNCHANGED server
        BY <1>1, <2>1 DEF server
    <2>2. CASE VideoRequest(u)
        BY <1>1, <2>2 DEF VideoRequest, RequestsWait, server
    <2>3. CASE VideoAccept(u)
        BY <1>1, <2>3 DEF VideoAccept, RequestsWait, server
    <2>4. CASE VideoReject(u)
        BY <1>1, <2>4 DEF VideoReject, RequestsWait, server
    <2>5. CASE VideoEnd(u)
        BY <2>5 DEF VideoEnd, RequestsWait
    <2>6. CASE Close(u)
        BY <2>6 DEF Close, RequestsWait
    <2>7. CASE Rejoin(u)
        BY <1>1, <2>7 DEF Rejoin, RequestsWait, server
    <2>8. QED
        BY <1>2, <2>1, <2>2, <2>3, <2>4, <2>5, <2>6, <2>7 DEF Handle, RtcSignal
<1>3. ASSUME RoomEnds PROVE RequestsWait'
    BY <1>3 DEF RoomEnds, Close, RequestsWait
<1>4. ASSUME NEW u \in Users, TabStep(u) PROVE RequestsWait'
    <2>1. PICK v \in Users : v # u
        BY TwoMembers
    <2>2. Elsewhere(v)
        BY <1>4, <2>1, TabStepIsLocal DEF CallInv
    <2>3. QED
        BY <1>1, <2>2 DEF Elsewhere
<1>5. QED
    BY <1>2, <1>3, <1>4 DEF Next, TabStep

\* A tab on its own.
LEMMA TabKeepsCourse ==
    ASSUME CallInv, NEW u \in Users, TabStep(u), RoomIsKnown(u)
    PROVE  /\ RoomIsKnown(u)'
           /\ u \notin marred' /\ Course(u) => Course(u)'
<1>1. CASE \/ ClickRequest(u) \/ ClickRespond(u, TRUE) \/ ClickRespond(u, FALSE)
           \/ Confirm(u) \/ CancelExplainer(u)
    BY <1>1, ClicksAreKnown, ClicksKeepCourse
<1>2. CASE ClickEnd(u) \/ ClickSkip(u) \/ StartFails(u)
    BY <1>2, EndingIsKnown, EndingKeepsCourse
<1>3. CASE MediaReady(u)
    BY <1>3, ClicksAreKnown, StartingKeepsCourse
<1>4. CASE CallReady(u)
    BY <1>4, SignalsAreKnown, StartingKeepsCourse
<1>5. CASE Deliver(u)
    BY <1>5, DeliverIsKnown, DeliverKeepsCourse
<1>6. CASE Break(u)
    BY <1>6, ConnectionIsKnown, BreakKeepsCourse
<1>7. CASE Reconnect(u)
    BY <1>7, ConnectionIsKnown, ClicksKeepCourse
<1>8. QED
    BY <1>1, <1>2, <1>3, <1>4, <1>5, <1>6, <1>7 DEF TabStep

\* Who is marred stays so.
LEMMA MarredStay ==
    ASSUME CallInv, Next
    PROVE  marred \subseteq marred'
<1>1. ASSUME NEW u \in Users, NEW t, Cleanup(u, t) PROVE marred \subseteq marred'
    BY <1>1 DEF Cleanup
<1>2. ASSUME NEW u \in Users, TabStep(u) PROVE marred \subseteq marred'
    <2>1. CASE \/ ClickRequest(u) \/ ClickRespond(u, TRUE) \/ ClickRespond(u, FALSE)
               \/ Confirm(u) \/ CancelExplainer(u) \/ MediaReady(u) \/ CallReady(u) \/ Reconnect(u)
        BY <2>1 DEF ClickRequest, ClickRespond, Confirm, CancelExplainer, MediaReady, CallReady, Reconnect
    <2>2. CASE ClickEnd(u) \/ ClickSkip(u) \/ StartFails(u)
        BY <1>1, <2>2 DEF ClickEnd, ClickSkip, StartFails, Leave
    <2>3. CASE Deliver(u)
        <3>1. marred' = marred \/ Cleanup(u, tab[u]) \/ Leave(u)
            BY <2>3 DEF Deliver
        <3>2. QED
            BY <1>1, <3>1 DEF Leave
    <2>4. CASE Break(u)
        BY <2>4 DEF Break
    <2>5. QED
        BY <1>2, <2>1, <2>2, <2>3, <2>4 DEF TabStep
<1>3. ASSUME NEW u \in Users, Handle(u) PROVE marred \subseteq marred'
    BY <1>3 DEF Handle
<1>4. CASE RoomEnds
    BY <1>4 DEF RoomEnds
<1>5. QED
    BY <1>2, <1>3, <1>4 DEF Next, TabStep

LEMMA CourseInvInitially == Init => CourseInv
<1> SUFFICES ASSUME Init PROVE CourseInv
    OBVIOUS
<1>1. RequestsWait
    BY DEF Init, RequestsWait
<1>2. ASSUME NEW u \in Users PROVE RoomIsKnown(u) /\ Course(u)
    <2>1. /\ up[u] = <<>> /\ down[u] = <<>> /\ starts[u] = {} /\ lit[u] = {} /\ calls = 0
          /\ tab[u].media = 0 /\ u \in live /\ open = "yes"
        BY DEF Init, Fresh
    <2>2. RoomIsKnown(u)
        BY <2>1 DEF RoomIsKnown, Farewell, Has
    <2>3. Holds(u) = {} /\ Begun(<<>>) = {}
        BY <2>1 DEF Holds, Calling, Begun
    <2>4. OneAtATime(tab[u].chat, tab[u].media, starts[u], lit[u], calls)
        BY <2>1 DEF OneAtATime
    <2>5. StartsAlternate(Holds(u), down[u]) /\ LatestIsServers(Holds(u), down[u], call)
        BY <2>1, <2>3 DEF StartsAlternate, LatestIsServers
    <2>6. EndedIsOver(tab[u].media, Holds(u), down[u], up[u], calls)
        BY <2>1, <2>3 DEF EndedIsOver
    <2>7. QED
        BY <2>2, <2>4, <2>5, <2>6 DEF Course
<1>3. QED
    BY <1>1, <1>2 DEF CourseInv

LEMMA CourseInvStep ==
    ASSUME CallInv, CourseInv, [Next]_vars
    PROVE  CourseInv'
<1>1. CASE UNCHANGED vars
    <2>1. UNCHANGED <<open, live, req, call, linked, up, down, tab, starts, lit, calls, marred>>
        BY <1>1 DEF vars, server, net, tabs
    <2>2. RequestsWait'
        BY <2>1 DEF CourseInv, RequestsWait
    <2>3. ASSUME NEW v \in Users PROVE Elsewhere(v)
        BY <2>1 DEF Elsewhere
    <2>4. \A v \in Users : RoomIsKnown(v)'
        BY <2>3, ElsewhereIsKnown DEF CourseInv
    <2>5. \A v \in Users \ marred' : Course(v)'
        BY <2>1, <2>3, ElsewhereKeepsCourse DEF CourseInv
    <2>6. QED
        BY <2>2, <2>4, <2>5 DEF CourseInv
<1>2. CASE Next
    <2>1. RequestsWait /\ RequestsWait' /\ marred \subseteq marred' /\ TypeOK
        BY <1>2, RequestsKeepWaiting, MarredStay DEF CourseInv, CallInv
    <2>2. ASSUME NEW v \in Users PROVE RoomIsKnown(v)' /\ (v \notin marred' => Course(v)')
        <3>1. RoomIsKnown(v) /\ (v \notin marred' => Course(v))
            BY <2>1 DEF CourseInv
        <3>2. CASE RoomEnds \/ \E u \in Users : Handle(u)
            <4>1. RoomIsKnown(v)'
                BY <3>1, <3>2, RoomEndsIsKnown, HandleIsKnown DEF CourseInv
            <4>2. v \notin marred' => Course(v)'
                BY <2>1, <3>1, <3>2, ServerKeepsCourse
            <4>3. QED
                BY <4>1, <4>2
        <3>3. ASSUME NEW u \in Users, TabStep(u)
              PROVE  RoomIsKnown(v)' /\ (v \notin marred' => Course(v)')
            <4>1. CASE v = u
                BY <3>1, <3>3, <4>1, TabKeepsCourse
            <4>2. CASE v # u
                <5>1. Elsewhere(v)
                    BY <2>1, <3>3, <4>2, TabStepIsLocal
                <5>2. QED
                    BY <3>1, <5>1, ElsewhereIsKnown, ElsewhereKeepsCourse
            <4>3. QED
                BY <4>1, <4>2
        <3>4. QED
            BY <1>2, <3>2, <3>3 DEF Next, TabStep
    <2>3. QED
        BY <2>1, <2>2 DEF CourseInv
<1>3. QED
    BY <1>1, <1>2

\* However calls, ends, answers, failures, skips and reconnects cross: a tab that
\* never cleaned up during a start of its own, and that every end of a call
\* reached, is in one call at a time, and what is not about to end there is the
\* call the server has (useVideo.js:35-80, index.js:262-310).
THEOREM CallsTakeTheirCourse == Spec => []CourseInv
<1>1. Init => CourseInv
    BY CourseInvInitially
<1>2. CallInv /\ CourseInv /\ [Next]_vars => CourseInv'
    BY CourseInvStep
<1>3. QED
    BY <1>1, <1>2, CallInvAlways, PTL DEF Spec

LEMMA CourseLeavesNoneLit == CallInv /\ CourseInv => OnlyOvertakenStay
<1> SUFFICES ASSUME CallInv, CourseInv, Quiet, NEW u \in Users, u \notin marred, NEW c \in lit[u]
             PROVE  c = call
    BY DEF OnlyOvertakenStay
<1>1. up[u] = <<>> /\ down[u] = <<>> /\ u \in linked /\ open \in {"yes", "no"} /\ tab[u] \in Tab
    BY DEF Quiet, CallInv, TypeOK
<1>2. Course(u) /\ RoomIsKnown(u)
    BY DEF CourseInv
<1>3. c \in Holds(u)
    BY DEF Holds, Calling
<1>4. ~Farewell(<<>>) /\ ~Has(<<>>, "rejoin") /\ ~Ended(<<>>, 1, Len(<<>>))
    BY DEF Farewell, Has, Ended
<1>5. tab[u].chat = "on"
    <2>1. tab[u].chat # "off"
        BY <1>2 DEF Course, OneAtATime
    <2>2. QED
        BY <1>1, <2>1 DEF Tab
<1>6. open = "yes"
    BY <1>1, <1>2, <1>4, <1>5 DEF RoomIsKnown
<1>7. QED
    BY <1>1, <1>2, <1>3, <1>4, <1>6 DEF Course, LatestIsServers

\* When nothing is on its way and nothing starts, no camera is on that the call
\* on the server does not account for (useVideo.js:38,45; index.js:395).
THEOREM OnlyOvertakenAlwaysStay == Spec => []OnlyOvertakenStay
<1>1. CallInv /\ CourseInv => OnlyOvertakenStay
    BY CourseLeavesNoneLit
<1>2. QED
    BY <1>1, CallInvAlways, CallsTakeTheirCourse, PTL

-----------------------------------------------------------------------------
(* The invariant behind CallIsShared, while the room is open and nobody is *)
(* marred: what a tab shows is the call it holds, the call of the server   *)
(* has reached every tab whose end of it is not on its way, and of two     *)
(* tabs that have it one will offer, has offered, or is being answered.    *)

\* A tab shows the call it holds, and has its peer connection when nothing starts.
Settled(t, st, li) ==
    /\ li = {t.media} \ {0}
    /\ t.state = "active" <=> t.media # 0
    /\ t.pc = IF st = {} THEN t.media ELSE 0
    /\ \A s \in st : s.stage = "setup" => s.call = t.media

\* What changes the state of a tab otherwise comes when no call goes on there.
Replies == {"asked", "reject"}
RepliesAlternate(h, d) ==
    \A k \in DOMAIN d : d[k].m \in Replies =>
        /\ h # {} => Ended(d, 1, k - 1)
        /\ \A j \in 1..(k - 1) : d[j].m \in Begins => Ended(d, j + 1, k - 1)

\* The call of the server has no end on its way.
GoesOn(h, d, c) ==
    /\ c \in h => ~Ended(d, 1, Len(d))
    /\ \A k \in DOMAIN d : d[k].m \in Begins /\ d[k].call = c => ~Ended(d, k + 1, Len(d))

In(q, m, c) == \E i \in DOMAIN q : q[i].m = m /\ q[i].call = c
Joined(u) == call \in Begun(down[u]) \cup Holds(u)
InTune(u) ==
    /\ Settled(tab[u], starts[u], lit[u])
    /\ RepliesAlternate(Holds(u), down[u])
    /\ call # 0 => GoesOn(Holds(u), down[u], call)
    /\ call # 0 /\ u \in live => Joined(u) \/ In(up[u], "end", call) \/ Has(up[u], "skip")

\* The seat of a member who has left the chat is about to be given up.
SeatIsTold(u) ==
    /\ \A i \in DOMAIN up[u] : up[u][i].m = "rejoin" => i = 1 /\ u \notin live
    /\ tab[u].chat = "off" /\ open = "yes" /\ (u \in live \/ Has(up[u], "rejoin")) => Has(up[u], "skip")

\* The offer of the call that is on reaches a, and so does its answer i.
Initiates(i) == In(down[i], "initiate", call) \/ \E s \in starts[i] : s.role = "initiate" /\ s.call = call
OfferIn(d, c) == \E j \in DOMAIN d :
    /\ d[j].m = "offer" /\ d[j].call = c
    /\ \A k \in (j + 1)..Len(d) : ~(d[k].m \in Begins /\ d[k].call = c)
OfferIsNear(a) ==
    \/ OfferIn(down[a], call)
    \/ starts[a] # {} /\ call \in Holds(a) /\ In(tab[a].pending, "offer", call)
AnswerComes(i, a) ==
    /\ tab[a].pc = call /\ tab[a].heard = "yes"
    /\ In(up[a], "answer", call) \/ In(down[i], "answer", call) \/ tab[i].heard = "yes"
Offered(i, a) ==
    tab[i].pc = call /\ (In(up[i], "offer", call) \/ OfferIsNear(a) \/ AnswerComes(i, a))
Talk ==
    call # 0 /\ live = Users /\ (\A u \in Users : Joined(u)) =>
        \E i \in Users : Initiates(i) \/ Offered(i, Partner(i))

SharedInv ==
    /\ \A u \in Users : SeatIsTold(u)
    /\ open = "yes" /\ marred = {} => (\A u \in Users : InTune(u)) /\ Talk

-----------------------------------------------------------------------------
(* Messages in a sequence that grows, or loses its first.                  *)

LEMMA InMore ==
    ASSUME NEW q \in Seq(Msg), NEW n \in Msg, NEW m, NEW c
    PROVE  In(Append(q, n), m, c) <=> In(q, m, c) \/ (n.m = m /\ n.call = c)
<1>1. DOMAIN Append(q, n) = DOMAIN q \cup {Len(q) + 1}
      /\ Append(q, n)[Len(q) + 1] = n /\ \A i \in DOMAIN q : Append(q, n)[i] = q[i]
    OBVIOUS
<1> HIDE DEF In
<1>2. ASSUME In(Append(q, n), m, c) PROVE In(q, m, c) \/ (n.m = m /\ n.call = c)
    BY <1>1, <1>2 DEF In
<1>3. ASSUME In(q, m, c) PROVE In(Append(q, n), m, c)
    BY <1>1, <1>3 DEF In
<1>4. ASSUME n.m = m, n.call = c PROVE In(Append(q, n), m, c)
    BY <1>1, <1>4 DEF In
<1>5. QED
    BY <1>2, <1>3, <1>4

LEMMA InRest ==
    ASSUME NEW q \in Seq(Msg), q # <<>>, NEW m, NEW c
    PROVE  In(q, m, c) <=> In(Tail(q), m, c) \/ (Head(q).m = m /\ Head(q).call = c)
<1>1. ASSUME In(Tail(q), m, c) PROVE In(q, m, c)
    BY <1>1, TailIsShifted DEF In
<1>2. ASSUME In(q, m, c) PROVE In(Tail(q), m, c) \/ (Head(q).m = m /\ Head(q).call = c)
    <2>1. PICK i \in DOMAIN q : q[i].m = m /\ q[i].call = c
        BY <1>2 DEF In
    <2>2. CASE i = 1
        BY <2>1, <2>2, TailIsShifted
    <2>3. CASE i # 1
        <3>1. i - 1 \in DOMAIN Tail(q) /\ (i - 1) + 1 = i
            BY <2>3, TailIsShifted
        <3>2. Tail(q)[i - 1] = q[i]
            BY <3>1, TailIsShifted
        <3>3. QED
            BY <2>1, <3>1, <3>2 DEF In
    <2>4. QED
        BY <2>2, <2>3
<1>3. Head(q).m = m /\ Head(q).call = c => In(q, m, c)
    BY TailIsShifted DEF In
<1>4. QED
    BY <1>1, <1>2, <1>3

LEMMA InJoined ==
    ASSUME NEW q \in Seq(Msg), NEW r \in Seq(Msg), NEW m, NEW c
    PROVE  In(q \o r, m, c) <=> In(q, m, c) \/ In(r, m, c)
<1>1. q \o r \in Seq(Msg) /\ Len(q \o r) = Len(q) + Len(r) /\ Len(q) \in Nat /\ Len(r) \in Nat
      /\ DOMAIN (q \o r) = 1..(Len(q) + Len(r))
    OBVIOUS
<1>2. ASSUME In(q \o r, m, c) PROVE In(q, m, c) \/ In(r, m, c)
    <2>1. PICK i \in DOMAIN (q \o r) : (q \o r)[i].m = m /\ (q \o r)[i].call = c
        BY <1>2 DEF In
    <2>2. CASE i <= Len(q)
        <3>1. i \in DOMAIN q /\ (q \o r)[i] = q[i]
            BY <1>1, <2>2
        <3>2. QED
            BY <2>1, <3>1 DEF In
    <2>3. CASE i > Len(q)
        <3>1. i - Len(q) \in DOMAIN r /\ (q \o r)[i] = r[i - Len(q)]
            BY <1>1, <2>3
        <3>2. QED
            BY <2>1, <3>1 DEF In
    <2>4. QED
        BY <1>1, <2>2, <2>3
<1>3. ASSUME In(q, m, c) PROVE In(q \o r, m, c)
    <2>1. PICK i \in DOMAIN q : q[i].m = m /\ q[i].call = c
        BY <1>3 DEF In
    <2>2. i \in DOMAIN (q \o r) /\ (q \o r)[i] = q[i]
        BY <1>1
    <2>3. QED
        BY <2>1, <2>2 DEF In
<1>4. ASSUME In(r, m, c) PROVE In(q \o r, m, c)
    <2>1. PICK i \in DOMAIN r : r[i].m = m /\ r[i].call = c
        BY <1>4 DEF In
    <2>2. Len(q) + i \in DOMAIN (q \o r) /\ (q \o r)[Len(q) + i] = r[i]
        BY <1>1
    <2>3. QED
        BY <2>1, <2>2 DEF In
<1>5. QED
    BY <1>2, <1>3, <1>4

\* What a tab sends is under way when it has a connection, and what was stays so.
LEMMA InSent ==
    ASSUME CallInv, NEW u \in Users, NEW msgs \in Seq(Msg), Sends(u, msgs), NEW m, NEW c
    PROVE  /\ In(up[u], m, c) => In(up'[u], m, c)
           /\ u \in linked /\ In(msgs, m, c) => In(up'[u], m, c)
<1>1. up \in [Users -> Seq(Msg)] /\ up[u] \in Seq(Msg)
    BY DEF CallInv, TypeOK
<1>2. up'[u] = IF u \in linked THEN up[u] \o msgs ELSE up[u]
    BY <1>1 DEF Sends
<1>3. QED
    BY <1>1, <1>2, InJoined

-----------------------------------------------------------------------------
(* An event more, or one less.                                             *)

\* An end that was on its way is, wherever it is looked for in what was there.
LEMMA EndedAppended ==
    ASSUME NEW d \in Seq(Msg), NEW m \in Msg, NEW i \in Nat \ {0}, NEW j \in Nat
    PROVE  /\ j <= Len(d) => (Ended(Append(d, m), i, j) <=> Ended(d, i, j))
           /\ m.m \notin Ends => (Ended(Append(d, m), i, Len(d) + 1) => Ended(d, i, Len(d)))
<1>1. Len(Append(d, m)) = Len(d) + 1 /\ DOMAIN d = 1..Len(d) /\ Len(d) \in Nat
      /\ Append(d, m)[Len(d) + 1] = m /\ \A k \in DOMAIN d : Append(d, m)[k] = d[k]
    OBVIOUS
<1>2. ASSUME j <= Len(d), NEW k \in i..j PROVE Append(d, m)[k] = d[k]
    <2>1. k \in DOMAIN d
        BY <1>1, <1>2
    <2>2. QED
        BY <1>1, <2>1
<1>3. j <= Len(d) => (Ended(Append(d, m), i, j) <=> Ended(d, i, j))
    BY <1>2 DEF Ended
<1>4. ASSUME m.m \notin Ends, Ended(Append(d, m), i, Len(d) + 1) PROVE Ended(d, i, Len(d))
    <2>1. PICK k \in i..(Len(d) + 1) : Append(d, m)[k].m \in Ends
        BY <1>4 DEF Ended
    <2>2. k # Len(d) + 1
        BY <1>1, <1>4, <2>1
    <2>3. k \in i..Len(d) /\ k \in DOMAIN d
        BY <1>1, <2>2
    <2>4. QED
        BY <1>1, <2>1, <2>3 DEF Ended
<1>5. QED
    BY <1>3, <1>4

LEMMA RepliesStill ==
    ASSUME NEW d \in Seq(Msg), NEW m \in Msg, NEW h, RepliesAlternate(h, d),
           m.m \in Replies => AllEnded(h, d)
    PROVE  RepliesAlternate(h, Append(d, m))
<1>1. Len(Append(d, m)) = Len(d) + 1 /\ DOMAIN Append(d, m) = 1..(Len(d) + 1) /\ DOMAIN d = 1..Len(d)
      /\ Append(d, m)[Len(d) + 1] = m /\ (\A i \in DOMAIN d : Append(d, m)[i] = d[i]) /\ Len(d) \in Nat
    OBVIOUS
<1>2. ASSUME NEW k \in DOMAIN Append(d, m), Append(d, m)[k].m \in Replies
      PROVE  /\ h # {} => Ended(Append(d, m), 1, k - 1)
             /\ \A j \in 1..(k - 1) : Append(d, m)[j].m \in Begins => Ended(Append(d, m), j + 1, k - 1)
    <2>1. k - 1 \in Nat /\ k - 1 <= Len(d)
        BY <1>1
    <2>2. (h # {} => Ended(d, 1, k - 1))
          /\ \A j \in 1..(k - 1) : d[j].m \in Begins => Ended(d, j + 1, k - 1)
        <3>1. CASE k \in DOMAIN d
            BY <1>1, <1>2, <3>1 DEF RepliesAlternate
        <3>2. CASE k = Len(d) + 1
            <4>1. k - 1 = Len(d) /\ AllEnded(h, d)
                BY <1>1, <1>2, <3>2
            <4>2. QED
                BY <1>1, <4>1 DEF AllEnded
        <3>3. QED
            BY <1>1, <3>1, <3>2
    <2>3. h # {} => Ended(Append(d, m), 1, k - 1)
        BY <2>1, <2>2, EndedAppended
    <2>4. ASSUME NEW j \in 1..(k - 1), Append(d, m)[j].m \in Begins PROVE Ended(Append(d, m), j + 1, k - 1)
        <3>1. j \in DOMAIN d /\ d[j].m \in Begins /\ j + 1 \in Nat \ {0}
            BY <1>1, <2>1, <2>4
        <3>2. Ended(d, j + 1, k - 1)
            BY <2>2, <3>1
        <3>3. QED
            BY <2>1, <3>1, <3>2, EndedAppended
    <2>5. QED
        BY <2>3, <2>4
<1>3. QED
    BY <1>2 DEF RepliesAlternate

\* The call goes on when what comes is not an end.
LEMMA StillGoesOn ==
    ASSUME NEW d \in Seq(Msg), NEW m \in Msg, NEW h, NEW c, GoesOn(h, d, c), m.m \notin Ends
    PROVE  GoesOn(h, Append(d, m), c)
<1>1. Len(Append(d, m)) = Len(d) + 1 /\ DOMAIN Append(d, m) = 1..(Len(d) + 1) /\ DOMAIN d = 1..Len(d)
      /\ Append(d, m)[Len(d) + 1] = m /\ (\A i \in DOMAIN d : Append(d, m)[i] = d[i]) /\ Len(d) \in Nat
    OBVIOUS
<1>2. c \in h => ~Ended(Append(d, m), 1, Len(Append(d, m)))
    <2>1. Ended(Append(d, m), 1, Len(d) + 1) => Ended(d, 1, Len(d))
        BY <1>1, EndedAppended
    <2>2. QED
        BY <1>1, <2>1 DEF GoesOn
<1>3. ASSUME NEW k \in DOMAIN Append(d, m), Append(d, m)[k].m \in Begins, Append(d, m)[k].call = c
      PROVE  ~Ended(Append(d, m), k + 1, Len(Append(d, m)))
    <2>1. CASE k \in DOMAIN d
        <3>1. ~Ended(d, k + 1, Len(d)) /\ k + 1 \in Nat \ {0}
            BY <1>1, <1>3, <2>1 DEF GoesOn
        <3>2. Ended(Append(d, m), k + 1, Len(d) + 1) => Ended(d, k + 1, Len(d))
            BY <1>1, <3>1, EndedAppended
        <3>3. QED
            BY <1>1, <3>1, <3>2
    <2>2. CASE k = Len(d) + 1
        <3>1. \A x \in (k + 1)..Len(Append(d, m)) : FALSE
            BY <1>1, <2>2
        <3>2. QED
            BY <3>1 DEF Ended
    <2>3. QED
        BY <1>1, <2>1, <2>2
<1>4. QED
    BY <1>2, <1>3 DEF GoesOn

\* So does one that no tab has heard of yet.
LEMMA NewGoesOn ==
    ASSUME NEW d \in Seq(Msg), NEW m \in Msg, NEW h, NEW c, c \notin h, c \notin Begun(d), m.m \in Begins
    PROVE  GoesOn(h, d, c) /\ GoesOn(h, Append(d, m), c)
<1>1. GoesOn(h, d, c)
    BY DEF GoesOn, Begun
<1>2. m.m \notin Ends
    BY DEF Begins, Ends
<1>3. QED
    BY <1>1, <1>2, StillGoesOn

LEMMA EndedInTail ==
    ASSUME NEW d \in Seq(Msg), d # <<>>, NEW i \in Nat \ {0}, NEW j \in Nat
    PROVE  Ended(Tail(d), i, j) /\ j <= Len(d) - 1 => Ended(d, i + 1, j + 1) /\ Ended(d, i, j + 1)
<1> SUFFICES ASSUME Ended(Tail(d), i, j), j <= Len(d) - 1
             PROVE  Ended(d, i + 1, j + 1) /\ Ended(d, i, j + 1)
    OBVIOUS
<1>1. PICK k \in i..j : Tail(d)[k].m \in Ends
    BY DEF Ended
<1>2. k \in DOMAIN Tail(d)
    BY <1>1, TailIsShifted
<1>3. Tail(d)[k] = d[k + 1] /\ k + 1 \in (i + 1)..(j + 1) /\ k + 1 \in i..(j + 1)
    BY <1>1, <1>2, TailIsShifted
<1>4. QED
    BY <1>1, <1>3 DEF Ended

\* The first event is heard: g is what the tab holds then.
LEMMA RepliesHeard ==
    ASSUME NEW d \in Seq(Msg), d # <<>>, NEW h, NEW g, RepliesAlternate(h, d),
           \/ Head(d).m \notin Begins \cup Ends /\ (g # {} => h # {})
           \/ Head(d).m \in Begins
           \/ g = {}
    PROVE  RepliesAlternate(g, Tail(d))
<1>0. Head(d) = d[1] /\ Len(d) \in Nat \ {0}
    BY TailIsShifted
<1>1. ASSUME NEW k \in DOMAIN Tail(d), Tail(d)[k].m \in Replies
      PROVE  /\ g # {} => Ended(Tail(d), 1, k - 1)
             /\ \A j \in 1..(k - 1) : Tail(d)[j].m \in Begins => Ended(Tail(d), j + 1, k - 1)
    <2>1. k \in Nat \ {0} /\ k + 1 \in DOMAIN d /\ Tail(d)[k] = d[k + 1] /\ k <= Len(d) /\ (k + 1) - 1 = k
        BY TailIsShifted
    <2>2. (h # {} => Ended(d, 1, k)) /\ \A j \in 1..k : d[j].m \in Begins => Ended(d, j + 1, k)
        BY <1>1, <2>1 DEF RepliesAlternate
    <2>3. ASSUME g # {} PROVE Ended(Tail(d), 1, k - 1)
        <3>1. Ended(d, 1 + 1, k)
            <4>1. CASE Head(d).m \in Begins
                <5>1. 1 \in 1..k
                    BY <2>1
                <5>2. QED
                    BY <1>0, <2>2, <4>1, <5>1
            <4>2. CASE Head(d).m \notin Begins \cup Ends /\ (g # {} => h # {})
                <5>1. PICK x \in 1..k : d[x].m \in Ends
                    BY <2>2, <2>3, <4>2 DEF Ended
                <5>2. x # 1
                    BY <1>0, <4>2, <5>1
                <5>3. x \in (1 + 1)..k
                    BY <2>1, <5>2
                <5>4. QED
                    BY <5>1, <5>3 DEF Ended
            <4>3. QED
                BY <2>3, <4>1, <4>2
        <3>2. QED
            BY <2>1, <3>1, EndedShifted
    <2>4. ASSUME NEW j \in 1..(k - 1), Tail(d)[j].m \in Begins PROVE Ended(Tail(d), j + 1, k - 1)
        <3>1. j \in DOMAIN Tail(d)
            BY <2>1, <2>4, TailIsShifted
        <3>2. j + 1 \in 1..k /\ j + 1 \in Nat \ {0} /\ Tail(d)[j] = d[j + 1]
            BY <2>1, <2>4, <3>1, TailIsShifted
        <3>3. Ended(d, (j + 1) + 1, k)
            BY <2>2, <2>4, <3>2
        <3>4. QED
            BY <2>1, <3>2, <3>3, EndedShifted
    <2>5. QED
        BY <2>3, <2>4
<1>2. QED
    BY <1>1 DEF RepliesAlternate

LEMMA GoesOnHeard ==
    ASSUME NEW d \in Seq(Msg), d # <<>>, NEW h, NEW g, NEW c, GoesOn(h, d, c),
           c \in g => c \in h \/ (Head(d).m \in Begins /\ Head(d).call = c)
    PROVE  GoesOn(g, Tail(d), c)
<1>0. Head(d) = d[1] /\ 1 \in DOMAIN d /\ Len(d) \in Nat \ {0} /\ Len(Tail(d)) = Len(d) - 1
    BY TailIsShifted
<1>1. ASSUME c \in g, Ended(Tail(d), 1, Len(Tail(d))) PROVE FALSE
    <2>1. Len(d) - 1 \in Nat /\ (Len(d) - 1) + 1 = Len(d)
        BY <1>0
    <2>2. Ended(d, 1 + 1, Len(d)) /\ Ended(d, 1, Len(d))
        BY <1>0, <1>1, <2>1, EndedInTail
    <2>3. QED
        BY <1>0, <1>1, <2>2 DEF GoesOn
<1>2. ASSUME NEW k \in DOMAIN Tail(d), Tail(d)[k].m \in Begins, Tail(d)[k].call = c,
             Ended(Tail(d), k + 1, Len(Tail(d)))
      PROVE  FALSE
    <2>1. k + 1 \in DOMAIN d /\ d[k + 1] = Tail(d)[k] /\ k + 1 \in Nat \ {0}
        BY <1>2, TailIsShifted
    <2>2. Len(d) - 1 \in Nat /\ (Len(d) - 1) + 1 = Len(d)
        BY <1>0
    <2>3. Ended(d, (k + 1) + 1, Len(d))
        BY <1>0, <1>2, <2>1, <2>2, EndedInTail
    <2>4. QED
        BY <1>2, <2>1, <2>3 DEF GoesOn
<1>3. QED
    BY <1>1, <1>2 DEF GoesOn

-----------------------------------------------------------------------------
(* The server.                                                             *)

\* What a handler does while the room stays open and nobody is marred.
Appends(v, m) == down'[v] = Append(down[v], m)
Notifies ==
    /\ UNCHANGED <<call, live>>
    /\ \A v \in Users : \/ down'[v] = down[v]
                        \/ call = 0 /\ \E m \in Msg : m.m \notin Begins \cup Ends /\ Appends(v, m)
Relays(u, msg) ==
    /\ UNCHANGED <<call, live>> /\ call # 0 /\ msg \in Signals
    /\ \A v \in Users : IF v \in live /\ v # u THEN Appends(v, msg) ELSE down'[v] = down[v]
EndsAll ==
    /\ call' = 0
    /\ \A v \in Users : down'[v] = down[v] \/ \E m \in Msg : m.m \in Ends /\ Appends(v, m)
BeginsAll ==
    /\ call = 0 /\ call' = calls + 1 /\ UNCHANGED live
    /\ \A v \in Users : IF v \in live THEN \E m \in Msg : m.m \in Begins /\ m.call = call' /\ Appends(v, m)
                                      ELSE down'[v] = down[v]
    /\ live = Users => \E i \in Users : \E m \in Msg : m.m = "initiate" /\ m.call = call' /\ Appends(i, m)

LEMMA HandleShapes ==
    ASSUME CallInv, RequestsWait, NEW u \in Users, Handle(u), open' = "yes"
    PROVE  /\ open = "yes"
           /\ \/ Notifies /\ (u \in live /\ call # 0 => Head(up[u]).m \notin {"end", "skip", "offer", "answer"})
              \/ Relays(u, Head(up[u])) /\ u \in live
              \/ EndsAll
              \/ BeginsAll
<1> DEFINE msg == Head(up[u])
<1>0. /\ TypeOK /\ up[u] \in Seq(Msg) /\ up[u] # <<>> /\ msg \in Msg
      /\ down \in [Users -> Seq(Msg)] /\ open \in {"yes", "no"} /\ call \in {0, calls} /\ calls \in Nat
    <2>1. up[u] # <<>>
        BY DEF Handle
    <2>2. QED
        BY <2>1, BoundsAreNumbers DEF CallInv, TypeOK
<1>1. open = "yes"
    BY <1>0 DEF Handle, Rejoin, Tell, VideoRequest, VideoAccept, VideoReject, VideoEnd, RtcSignal, Close, server
\* An event for each, which is neither a start nor an end, when no call is on.
<1>2. ASSUME NEW msgs \in Notes, Tell(msgs), UNCHANGED <<call, live>>,
             \A v \in Users : \A m \in Msg : msgs[v] = <<m>> => call = 0 /\ m.m \notin Begins \cup Ends
      PROVE  Notifies
    <2>1. ASSUME NEW v \in Users
          PROVE  down'[v] = down[v] \/ \E m \in Msg : msgs[v] = <<m>> /\ Appends(v, m)
        BY <1>0, <1>2, Told DEF Appends
    <2>2. QED
        BY <1>2, <2>1 DEF Notifies
<1>3. ASSUME Tell(ToNobody), UNCHANGED server PROVE Notifies
    <2>1. ToNobody \in Notes /\ \A v \in Users : \A m \in Msg : ToNobody[v] # <<m>>
        BY NotesFit DEF ToNobody
    <2>2. QED
        BY <1>2, <1>3, <2>1 DEF server
<1>4. ASSUME VideoRequest(u) PROVE Notifies
    <2>1. CASE ~(locked = "yes" \/ call # 0)
        <3> DEFINE msgs == [ToPartner(u, M("request")) EXCEPT ![u] = <<M("asked")>>]
        <3>1. msgs \in Notes
            BY NotesFit
        <3>2. \A v \in Users : \A m \in Msg : msgs[v] = <<m>> => m.m \in {"request", "asked"}
            BY <1>0 DEF ToPartner, M
        <3>3. Tell(msgs) /\ UNCHANGED <<call, live>> /\ call = 0
            BY <1>4, <2>1 DEF VideoRequest
        <3> HIDE DEF msgs
        <3>4. QED
            BY <1>2, <3>1, <3>2, <3>3 DEF Begins, Ends
    <2>2. QED
        BY <1>3, <1>4, <2>1 DEF VideoRequest
<1>5. ASSUME VideoReject(u) PROVE Notifies
    <2>1. CASE req = Partner(u)
        <3>1. ToPartner(u, M("reject")) \in Notes
            BY NotesFit
        <3>2. \A v \in Users : \A m \in Msg : ToPartner(u, M("reject"))[v] = <<m>> => m.m \in {"reject"}
            BY <1>0 DEF ToPartner, M
        <3>3. call = 0
            BY <2>1, PartnerIsOther, TwoMembers DEF RequestsWait
        <3>4. Tell(ToPartner(u, M("reject"))) /\ UNCHANGED <<call, live>>
            BY <1>5, <2>1 DEF VideoReject
        <3>5. QED
            BY <1>2, <3>1, <3>2, <3>3, <3>4 DEF Begins, Ends
    <2>2. QED
        BY <1>3, <1>5, <2>1 DEF VideoReject
<1>6. ASSUME VideoAccept(u) PROVE Notifies \/ BeginsAll
    <2>1. CASE req = Partner(u)
        <3> DEFINE msgs == [w \in Users |-> <<[m |-> IF w = u THEN "start" ELSE "initiate", call |-> call']>>]
        <3>0. call' = calls + 1 /\ calls' = calls + 1 /\ Tell(msgs) /\ UNCHANGED live
            BY <1>6, <2>1 DEF VideoAccept
        <3>1. call = 0
            BY <2>1, PartnerIsOther, TwoMembers DEF RequestsWait
        <3>2. call' \in 0..MaxRequests
            BY <3>0, HandleInv DEF CallInv, TypeOK
        <3>3. ASSUME NEW v \in Users
              PROVE  \E m \in Msg : /\ m.m = (IF v = u THEN "start" ELSE "initiate") /\ m.call = call'
                                    /\ IF v \in live THEN Appends(v, m) ELSE down'[v] = down[v]
            <4> DEFINE m == [m |-> IF v = u THEN "start" ELSE "initiate", call |-> call']
            <4>1. m \in Msg /\ m.m = (IF v = u THEN "start" ELSE "initiate") /\ m.call = call'
                BY <3>2 DEF Msg
            <4>2. down'[v] = IF v \in live THEN down[v] \o <<m>> ELSE down[v]
                BY <3>0 DEF Tell
            <4> HIDE DEF m
            <4>3. down[v] \o <<m>> = Append(down[v], m)
                BY <1>0, <4>1
            <4>4. QED
                BY <4>1, <4>2, <4>3 DEF Appends
        <3>4. Partner(u) \in Users /\ Partner(u) # u
            BY PartnerIsOther
        <3>5. live = Users => \E i \in Users : \E m \in Msg : m.m = "initiate" /\ m.call = call' /\ Appends(i, m)
            BY <3>3, <3>4
        <3>6. \A v \in Users : IF v \in live THEN \E m \in Msg : m.m \in Begins /\ m.call = call' /\ Appends(v, m)
                                             ELSE down'[v] = down[v]
            BY <3>3 DEF Begins
        <3>7. BeginsAll
            BY <3>0, <3>1, <3>5, <3>6 DEF BeginsAll
        <3>8. QED
            BY <3>7
    <2>2. QED
        BY <1>3, <1>6, <2>1 DEF VideoAccept
<1>7. CASE VideoEnd(u)
    <2> DEFINE msgs == IF call # 0 THEN ToPartner(u, M("end")) ELSE ToNobody
    <2>1. call' = 0 /\ Tell(msgs) /\ msgs \in Notes
        BY <1>7, NotesFit DEF VideoEnd
    <2>2. \A v \in Users : \A m \in Msg : msgs[v] = <<m>> => m.m \in Ends
        BY DEF ToPartner, ToNobody, M, Ends
    <2>3. \A v \in Users : down'[v] = down[v] \/ \E m \in Msg : msgs[v] = <<m>> /\ Appends(v, m)
        BY <1>0, <2>1, Told DEF Appends
    <2>4. EndsAll
        BY <2>1, <2>2, <2>3 DEF EndsAll
    <2>5. QED
        BY <1>1, <2>4
<1>8. CASE msg \in Signals /\ RtcSignal(u, msg) /\ u \in live
    <2>1. CASE call = 0
        BY <1>1, <1>3, <1>8, <2>1 DEF RtcSignal
    <2>2. CASE call # 0
        <3>1. Tell(ToPartner(u, msg)) /\ UNCHANGED <<call, live>>
            BY <1>8, <2>2 DEF RtcSignal, server
        <3>2. ASSUME NEW v \in Users PROVE IF v \in live /\ v # u THEN Appends(v, msg) ELSE down'[v] = down[v]
            <4>1. down'[v] = IF v \in live THEN down[v] \o ToPartner(u, msg)[v] ELSE down[v]
                BY <3>1 DEF Tell
            <4>2. ToPartner(u, msg)[v] = IF v = u THEN <<>> ELSE <<msg>>
                BY DEF ToPartner
            <4>3. down[v] \o <<>> = down[v] /\ down[v] \o <<msg>> = Append(down[v], msg)
                BY <1>0
            <4>4. QED
                BY <4>1, <4>2, <4>3 DEF Appends
        <3>3. Relays(u, msg)
            BY <1>8, <2>2, <3>1, <3>2 DEF Relays
        <3>4. QED
            BY <1>1, <1>8, <3>3
    <2>3. QED
        BY <2>1, <2>2
<1>9. CASE Rejoin(u)
    <2>1. /\ call' = 0
          /\ down' = [w \in Users |->
                IF w \in live' /\ call # 0 THEN Append(down[w], M("end")) ELSE down[w]]
        BY <1>1, <1>9 DEF Rejoin
    <2>2. M("end") \in Msg /\ M("end").m \in Ends
        BY NotesFit DEF M, Ends
    <2>3. EndsAll
        BY <2>1, <2>2 DEF EndsAll, Appends
    <2>4. QED
        BY <1>1, <2>3
<1>10. CASE u \notin live /\ Tell(ToNobody) /\ UNCHANGED server
    BY <1>1, <1>3, <1>10
<1>11. ~Close(u)
    BY DEF Close
<1>12. CASE msg.m = "request" /\ VideoRequest(u)
    BY <1>1, <1>4, <1>12
<1>13. CASE msg.m = "reject" /\ VideoReject(u)
    BY <1>1, <1>5, <1>13
<1>14. CASE msg.m = "accept" /\ VideoAccept(u)
    BY <1>1, <1>6, <1>14
<1>15. QED
    BY <1>1, <1>7, <1>8, <1>9, <1>10, <1>11, <1>12, <1>13, <1>14 DEF Handle

LEMMA InTunePrimed ==
    ASSUME NEW v \in Users
    PROVE  /\ InTune(v)' <=>
                ( /\ Settled(tab'[v], starts'[v], lit'[v])
                  /\ RepliesAlternate(Calling(starts'[v], lit'[v]), down'[v])
                  /\ call' # 0 => GoesOn(Calling(starts'[v], lit'[v]), down'[v], call')
                  /\ call' # 0 /\ v \in live' =>
                        Joined(v)' \/ In(up'[v], "end", call') \/ Has(up'[v], "skip") )
           /\ Joined(v)' <=> call' \in Begun(down'[v]) \cup Calling(starts'[v], lit'[v])
BY DEF InTune, Joined, Holds

\* A member is in tune after a handler.
LEMMA HandleKeepsTune ==
    ASSUME CallInv, RequestsWait, NEW u \in Users, Handle(u), open' = "yes",
           NEW v \in Users, Course(v), InTune(v)
    PROVE  InTune(v)'
<1> DEFINE h == Holds(v)
           d == down[v]
           msg == Head(up[u])
<1>0. /\ calls \in Nat /\ d \in Seq(Msg) /\ Begun(d) \subseteq 1..calls /\ h \subseteq 1..calls
      /\ call \in {0, calls} /\ up \in [Users -> Seq(Msg)] /\ up[u] # <<>>
    <2>1. up[u] # <<>>
        BY DEF Handle
    <2>2. QED
        BY <2>1, CallsExist DEF CallInv, TypeOK
<1>1. UNCHANGED <<tab, starts, lit>> /\ h = Calling(starts'[v], lit'[v]) /\ up' = [up EXCEPT ![u] = Tail(@)]
    BY DEF Handle, tabs, Holds
<1>2. Settled(tab'[v], starts'[v], lit'[v]) /\ RepliesAlternate(h, d) /\ (call # 0 => GoesOn(h, d, call))
    BY <1>1 DEF InTune
<1>3. ASSUME v # u \/ msg.m \notin {"end", "skip"}
      PROVE  /\ \A c : In(up[v], "end", c) => In(up'[v], "end", c)
             /\ Has(up[v], "skip") => Has(up'[v], "skip")
    <2>1. CASE v = u
        <3>1. up'[v] = Tail(up[v]) /\ up[v] \in Seq(Msg)
            BY <1>0, <1>1, <2>1
        <3>2. QED
            BY <1>0, <1>3, <2>1, <3>1, InRest, HasRest
    <2>2. CASE v # u
        BY <1>0, <1>1, <2>2
    <2>3. QED
        BY <2>1, <2>2
<1>4. CASE Notifies /\ (u \in live /\ call # 0 => msg.m \notin {"end", "skip", "offer", "answer"})
    <2>1. RepliesAlternate(h, down'[v])
        <3>1. CASE down'[v] = d
            BY <1>2, <3>1
        <3>2. ASSUME call = 0, NEW m \in Msg, Appends(v, m) PROVE RepliesAlternate(h, down'[v])
            <4>1. open = "yes" /\ call \notin h \cup Begun(d)
                BY <1>0, <3>2, HandleShapes
            <4>2. AllEnded(h, d)
                BY <4>1, AllHasEnded
            <4>3. QED
                BY <1>0, <1>2, <3>2, <4>2, RepliesStill DEF Appends
        <3>3. QED
            BY <1>4, <3>1, <3>2 DEF Notifies
    <2>2. call' = call /\ live' = live /\ (call # 0 => down'[v] = d)
        BY <1>4 DEF Notifies
    <2>3. ASSUME call' # 0, v \in live'
          PROVE  Joined(v)' \/ In(up'[v], "end", call') \/ Has(up'[v], "skip")
        <3>1. Joined(v) \/ In(up[v], "end", call) \/ Has(up[v], "skip")
            BY <2>2, <2>3 DEF InTune
        <3>2. Joined(v) => Joined(v)'
            BY <1>1, <2>2, <2>3, InTunePrimed DEF Joined
        <3>3. v # u \/ msg.m \notin {"end", "skip"}
            BY <1>4, <2>2, <2>3
        <3>4. QED
            BY <1>3, <2>2, <3>1, <3>2, <3>3
    <2>4. QED
        BY <1>1, <1>2, <2>1, <2>2, <2>3, InTunePrimed
<1>5. CASE Relays(u, msg) /\ u \in live
    <2>1. msg.m \in {"offer", "answer"} /\ msg \in Msg /\ call' = call /\ live' = live
        BY <1>5 DEF Relays, Signals
    <2>2. msg.m \notin Begins \cup Ends \cup Replies
        BY <2>1 DEF Begins, Ends, Replies
    <2>3. /\ RepliesAlternate(h, down'[v]) /\ (call # 0 => GoesOn(h, down'[v], call))
          /\ Begun(down'[v]) = Begun(d)
        <3>1. CASE down'[v] = d
            BY <1>2, <3>1
        <3>2. CASE down'[v] = Append(d, msg)
            <4>1. RepliesAlternate(h, Append(d, msg))
                BY <1>0, <1>2, <2>1, <2>2, RepliesStill
            <4>2. call # 0 => GoesOn(h, Append(d, msg), call)
                BY <1>0, <1>2, <2>1, <2>2, StillGoesOn
            <4>3. Begun(Append(d, msg)) = Begun(d)
                BY <1>0, <2>1, <2>2, BegunAppended
            <4>4. QED
                BY <3>2, <4>1, <4>2, <4>3
        <3>3. QED
            BY <1>5, <3>1, <3>2 DEF Relays, Appends
    <2>4. ASSUME call' # 0, v \in live'
          PROVE  Joined(v)' \/ In(up'[v], "end", call') \/ Has(up'[v], "skip")
        <3>1. Joined(v) \/ In(up[v], "end", call) \/ Has(up[v], "skip")
            BY <2>1, <2>4 DEF InTune
        <3>2. Joined(v) => Joined(v)'
            BY <1>1, <2>1, <2>3, InTunePrimed DEF Joined
        <3>3. QED
            BY <1>3, <2>1, <3>1, <3>2
    <2>5. QED
        BY <1>1, <1>2, <2>1, <2>3, <2>4, InTunePrimed
<1>6. CASE EndsAll
    <2>1. call' = 0
        BY <1>6 DEF EndsAll
    <2>2. RepliesAlternate(h, down'[v])
        <3>1. CASE down'[v] = d
            BY <1>2, <3>1
        <3>2. ASSUME NEW m \in Msg, m.m \in Ends, Appends(v, m) PROVE RepliesAlternate(h, down'[v])
            <4>1. m.m \notin Replies
                BY <3>2 DEF Ends, Replies
            <4>2. QED
                BY <1>0, <1>2, <3>2, <4>1, RepliesStill DEF Appends
        <3>3. QED
            BY <1>6, <3>1, <3>2 DEF EndsAll
    <2>3. QED
        BY <1>1, <1>2, <2>1, <2>2, InTunePrimed
<1>7. CASE BeginsAll
    <2>1. call' = calls + 1 /\ live' = live /\ call' \notin h /\ call' \notin Begun(d)
        BY <1>0, <1>7 DEF BeginsAll
    <2>2. CASE v \notin live
        <3>1. down'[v] = d
            BY <1>7, <2>2 DEF BeginsAll
        <3>2. GoesOn(h, d, call')
            BY <2>1 DEF GoesOn, Begun
        <3>3. QED
            BY <1>1, <1>2, <2>1, <2>2, <3>1, <3>2, InTunePrimed
    <2>3. CASE v \in live
        <3>1. PICK m \in Msg : m.m \in Begins /\ m.call = call' /\ down'[v] = Append(d, m)
            BY <1>7, <2>3 DEF BeginsAll, Appends
        <3>2. m.m \notin Replies
            BY <3>1 DEF Begins, Replies
        <3>3. RepliesAlternate(h, down'[v])
            BY <1>0, <1>2, <3>1, <3>2, RepliesStill
        <3>4. GoesOn(h, down'[v], call')
            BY <1>0, <2>1, <3>1, NewGoesOn
        <3>5. call' \in Begun(down'[v])
            BY <1>0, <3>1, BegunAppended
        <3>6. Joined(v)'
            BY <3>5, InTunePrimed
        <3>7. QED
            BY <1>1, <1>2, <3>3, <3>4, <3>6, InTunePrimed
    <2>4. QED
        BY <2>2, <2>3
<1>8. QED
    BY <1>4, <1>5, <1>6, <1>7, HandleShapes

\* An offer is near until the call it is for begins.
LEMMA OfferStaysNear ==
    ASSUME NEW d \in Seq(Msg), NEW m \in Msg, NEW c, m.m \notin Begins,
           OfferIn(d, c) \/ (m.m = "offer" /\ m.call = c)
    PROVE  OfferIn(Append(d, m), c)
<1>1. Len(Append(d, m)) = Len(d) + 1 /\ DOMAIN Append(d, m) = 1..(Len(d) + 1) /\ DOMAIN d = 1..Len(d)
      /\ Append(d, m)[Len(d) + 1] = m /\ (\A i \in DOMAIN d : Append(d, m)[i] = d[i]) /\ Len(d) \in Nat
    OBVIOUS
<1>2. ASSUME NEW j \in DOMAIN d, d[j].m = "offer", d[j].call = c,
             \A k \in (j + 1)..Len(d) : ~(d[k].m \in Begins /\ d[k].call = c)
      PROVE  OfferIn(Append(d, m), c)
    <2>1. ASSUME NEW k \in (j + 1)..Len(Append(d, m))
          PROVE  ~(Append(d, m)[k].m \in Begins /\ Append(d, m)[k].call = c)
        <3>1. CASE k = Len(d) + 1
            BY <1>1, <3>1
        <3>2. CASE k # Len(d) + 1
            <4>1. k \in (j + 1)..Len(d) /\ k \in DOMAIN d
                BY <1>1, <3>2
            <4>2. QED
                BY <1>1, <1>2, <4>1
        <3>3. QED
            BY <3>1, <3>2
    <2>2. j \in DOMAIN Append(d, m) /\ Append(d, m)[j] = d[j]
        BY <1>1
    <2>3. QED
        BY <1>2, <2>1, <2>2 DEF OfferIn
<1>3. ASSUME m.m = "offer", m.call = c PROVE OfferIn(Append(d, m), c)
    <2>1. /\ Len(d) + 1 \in DOMAIN Append(d, m)
          /\ \A k \in ((Len(d) + 1) + 1)..Len(Append(d, m)) : FALSE
        BY <1>1
    <2>2. QED
        BY <1>1, <1>3, <2>1 DEF OfferIn
<1>4. QED
    BY <1>2, <1>3 DEF OfferIn

LEMMA TalkPrimed ==
    /\ Talk' <=> (call' # 0 /\ live' = Users /\ (\A u \in Users : Joined(u)') =>
                     \E i \in Users : Initiates(i)' \/ Offered(i, Partner(i))')
    /\ \A i \in Users : Initiates(i)' <=>
          In(down'[i], "initiate", call') \/ \E s \in starts'[i] : s.role = "initiate" /\ s.call = call'
    /\ \A a \in Users : OfferIsNear(a)' <=>
          \/ OfferIn(down'[a], call')
          \/ starts'[a] # {} /\ call' \in Calling(starts'[a], lit'[a]) /\ In(tab'[a].pending, "offer", call')
    /\ \A i, a \in Users : AnswerComes(i, a)' <=>
          /\ tab'[a].pc = call' /\ tab'[a].heard = "yes"
          /\ In(up'[a], "answer", call') \/ In(down'[i], "answer", call') \/ tab'[i].heard = "yes"
    /\ \A i, a \in Users : Offered(i, a)' <=>
          tab'[i].pc = call' /\ (In(up'[i], "offer", call') \/ OfferIsNear(a)' \/ AnswerComes(i, a)')
BY DEF Talk, Initiates, OfferIsNear, AnswerComes, Offered, Holds

LEMMA HandleKeepsTalk ==
    ASSUME CallInv, RequestsWait, NEW u \in Users, Handle(u), open' = "yes", Talk
    PROVE  Talk'
<1> DEFINE msg == Head(up[u])
<1> SUFFICES ASSUME call' # 0, live' = Users, \A v \in Users : Joined(v)'
             PROVE  \E i \in Users : Initiates(i)' \/ Offered(i, Partner(i))'
    BY TalkPrimed
<1>0. /\ up \in [Users -> Seq(Msg)] /\ up[u] \in Seq(Msg) /\ up[u] # <<>> /\ msg \in Msg
      /\ \A v \in Users : down[v] \in Seq(Msg)
    <2>1. up[u] # <<>>
        BY DEF Handle
    <2>2. QED
        BY <2>1 DEF CallInv, TypeOK
<1>1. UNCHANGED <<tab, starts, lit>> /\ up' = [up EXCEPT ![u] = Tail(@)]
    BY DEF Handle, tabs
<1>2. ASSUME NEW v \in Users, NEW m, v # u \/ msg.m # m
      PROVE  \A c : In(up[v], m, c) => In(up'[v], m, c)
    <2>1. CASE v = u
        <3>1. up'[u] = Tail(up[u])
            BY <1>0, <1>1
        <3>2. QED
            BY <1>0, <1>2, <2>1, <3>1, InRest
    <2>2. CASE v # u
        BY <1>0, <1>1, <2>2
    <2>3. QED
        BY <2>1, <2>2
<1>4. CASE Notifies /\ (u \in live /\ call # 0 => msg.m \notin {"end", "skip", "offer", "answer"})
    <2>1. call' = call /\ live = Users /\ \A v \in Users : down'[v] = down[v]
        BY <1>4 DEF Notifies
    <2>2. \A v \in Users : Joined(v)
        BY <1>1, <2>1, InTunePrimed DEF Joined, Holds
    <2>3. PICK i \in Users : Initiates(i) \/ Offered(i, Partner(i))
        BY <2>1, <2>2 DEF Talk
    <2>4. Partner(i) \in Users /\ msg.m # "offer" /\ msg.m # "answer"
        BY <1>4, <2>1, PartnerIsOther
    <2>5. CASE Initiates(i)
        BY <1>1, <2>1, <2>5, TalkPrimed DEF Initiates
    <2>6. CASE Offered(i, Partner(i))
        <3>1. /\ In(up[i], "offer", call) => In(up'[i], "offer", call)
              /\ In(up[Partner(i)], "answer", call) => In(up'[Partner(i)], "answer", call)
            BY <1>2, <2>4
        <3>2. OfferIsNear(Partner(i)) => OfferIsNear(Partner(i))'
            BY <1>1, <2>1, <2>4, TalkPrimed DEF OfferIsNear, Holds
        <3>3. AnswerComes(i, Partner(i)) => AnswerComes(i, Partner(i))'
            BY <1>1, <2>1, <2>4, <3>1, TalkPrimed DEF AnswerComes
        <3>4. Offered(i, Partner(i))'
            BY <1>1, <2>1, <2>4, <2>6, <3>1, <3>2, <3>3, TalkPrimed DEF Offered
        <3>5. QED
            BY <3>4
    <2>7. QED
        BY <2>3, <2>5, <2>6
<1>5. CASE Relays(u, msg) /\ u \in live
    <2>1. /\ call' = call /\ call # 0 /\ live = Users /\ msg.m \in {"offer", "answer"} /\ msg.m \notin Begins
          /\ down'[u] = down[u] /\ \A v \in Users : v # u => down'[v] = Append(down[v], msg)
        BY <1>5 DEF Relays, Signals, Appends, Begins
    <2>2. \A v \in Users : Joined(v)
        <3>1. TAKE v \in Users
        <3>2. Begun(down'[v]) = Begun(down[v])
            BY <1>0, <2>1, BegunAppended, ZenonT(60)
        <3>3. QED
            BY <1>1, <2>1, <3>2, InTunePrimed DEF Joined, Holds
    <2>3. PICK i \in Users : Initiates(i) \/ Offered(i, Partner(i))
        BY <2>1, <2>2 DEF Talk
    <2> DEFINE a == Partner(i)
    <2>4. a \in Users /\ a # i
        BY PartnerIsOther
    <2>5. ASSUME NEW v \in Users, NEW m PROVE In(down[v], m, call) => In(down'[v], m, call)
        <3>1. CASE v = u
            BY <2>1, <3>1
        <3>2. CASE v # u
            <4>1. down'[v] = Append(down[v], msg) /\ down[v] \in Seq(Msg)
                BY <1>0, <2>1, <3>2
            <4>2. In(Append(down[v], msg), m, call) <=> In(down[v], m, call) \/ (msg.m = m /\ msg.call = call)
                BY <1>0, <4>1, InMore
            <4>3. QED
                BY <4>1, <4>2
        <3>3. QED
            BY <3>1, <3>2
    <2>6. CASE Initiates(i)
        BY <1>1, <2>1, <2>5, <2>6, TalkPrimed DEF Initiates
    <2>7. CASE Offered(i, a)
        <3> HIDE DEF a
        <3>1. OfferIsNear(a) => OfferIsNear(a)'
            <4>1. OfferIn(down[a], call) => OfferIn(down'[a], call)
                BY <1>0, <2>1, <2>4, OfferStaysNear
            <4>2. QED
                BY <1>1, <2>1, <2>4, <4>1, TalkPrimed DEF OfferIsNear, Holds
        <3>2. In(up[i], "offer", call) => In(up'[i], "offer", call) \/ OfferIsNear(a)'
            <4>1. CASE i # u \/ ~(msg.m = "offer" /\ msg.call = call)
                <5>1. CASE i # u
                    BY <1>2, <5>1
                <5>2. CASE i = u
                    <6>1. up'[u] = Tail(up[u])
                        BY <1>0, <1>1
                    <6>2. QED
                        BY <1>0, <4>1, <5>2, <6>1, InRest
                <5>3. QED
                    BY <5>1, <5>2
            <4>2. CASE i = u /\ msg.m = "offer" /\ msg.call = call
                <5>1. down'[a] = Append(down[a], msg) /\ down[a] \in Seq(Msg)
                    BY <1>0, <2>1, <2>4, <4>2
                <5>2. OfferIn(down'[a], call)
                    BY <1>0, <2>1, <4>2, <5>1, OfferStaysNear
                <5>3. QED
                    BY <2>1, <2>4, <5>2, TalkPrimed
            <4>3. QED
                BY <4>1, <4>2
        <3>3. AnswerComes(i, a) => AnswerComes(i, a)'
            <4>1. In(up[a], "answer", call) => In(up'[a], "answer", call) \/ In(down'[i], "answer", call)
                <5>1. CASE a # u
                    BY <1>2, <2>4, <5>1
                <5>2. CASE a = u /\ msg.m = "answer" /\ msg.call = call
                    <6>1. down'[i] = Append(down[i], msg) /\ down[i] \in Seq(Msg)
                        BY <1>0, <2>1, <2>4, <5>2
                    <6>2. QED
                        BY <1>0, <5>2, <6>1, InMore
                <5>3. CASE a = u /\ ~(msg.m = "answer" /\ msg.call = call)
                    <6>1. up'[u] = Tail(up[u])
                        BY <1>0, <1>1
                    <6>2. QED
                        BY <1>0, <5>3, <6>1, InRest
                <5>4. QED
                    BY <5>1, <5>2, <5>3
            <4>2. In(down[i], "answer", call) => In(down'[i], "answer", call)
                BY <2>5
            <4>3. QED
                BY <1>1, <2>1, <2>4, <4>1, <4>2, TalkPrimed DEF AnswerComes
        <3>4. Offered(i, a)'
            BY <1>1, <2>1, <2>4, <2>7, <3>1, <3>2, <3>3, TalkPrimed DEF Offered
        <3>5. QED
            BY <3>4 DEF a
    <2>8. QED
        BY <2>3, <2>6, <2>7
<1>6. CASE EndsAll
    BY <1>6 DEF EndsAll
<1>7. CASE BeginsAll
    <2>1. PICK i \in Users, m \in Msg : m.m = "initiate" /\ m.call = call' /\ down'[i] = Append(down[i], m)
        BY <1>7 DEF BeginsAll, Appends
    <2>2. In(down'[i], "initiate", call')
        BY <1>0, <2>1, InMore
    <2>3. Initiates(i)'
        BY <2>2, TalkPrimed
    <2>4. QED
        BY <2>3
<1>8. QED
    BY <1>4, <1>5, <1>6, <1>7, HandleShapes

-----------------------------------------------------------------------------
(* Seats.                                                                  *)

LEMMA SeatIsToldPrimed ==
    ASSUME NEW v \in Users
    PROVE  SeatIsTold(v)' <=>
             ( /\ \A i \in DOMAIN up'[v] : up'[v][i].m = "rejoin" => i = 1 /\ v \notin live'
               /\ tab'[v].chat = "off" /\ open' = "yes" /\ (v \in live' \/ Has(up'[v], "rejoin"))
                     => Has(up'[v], "skip") )
BY DEF SeatIsTold

LEMMA HandleTellsSeat ==
    ASSUME CallInv, NEW u \in Users, Handle(u), NEW v \in Users, SeatIsTold(v)
    PROVE  SeatIsTold(v)'
<1> DEFINE msg == Head(up[u])
<1>0. /\ up \in [Users -> Seq(Msg)] /\ up[u] \in Seq(Msg) /\ up[u] # <<>> /\ live \subseteq Users
      /\ open \in {"yes", "no"}
    <2>1. up[u] # <<>>
        BY DEF Handle
    <2>2. QED
        BY <2>1 DEF CallInv, TypeOK
<1>1. UNCHANGED tab /\ up' = [up EXCEPT ![u] = Tail(@)]
    BY DEF Handle, tabs
<1>2. /\ live' \subseteq live \/ (live' = live \cup {u} /\ msg.m = "rejoin")
      /\ open' = "yes" => open = "yes"
      /\ msg.m = "skip" /\ u \in live => open' = "no" \/ open = "no"
    BY <1>0 DEF Handle, Tell, Rejoin, VideoRequest, VideoAccept, VideoReject, VideoEnd, RtcSignal, Close, server, Signals
<1>3. CASE v = u
    <2>1. up'[u] = Tail(up[u])
        BY <1>0, <1>1
    <2>2. \A i \in DOMAIN up'[u] : up'[u][i].m # "rejoin"
        <3>1. TAKE i \in DOMAIN up'[u]
        <3>2. i + 1 \in DOMAIN up[u] /\ up'[u][i] = up[u][i + 1] /\ i \in Nat \ {0}
            BY <1>0, <2>1, TailIsShifted
        <3>3. i + 1 # 1
            BY <3>2
        <3>4. QED
            BY <1>3, <3>2, <3>3 DEF SeatIsTold
    <2>3. ASSUME tab'[u].chat = "off", open' = "yes", u \in live' PROVE Has(up'[u], "skip")
        <3>1. u \in live \/ msg.m = "rejoin"
            BY <1>2, <2>3
        <3>2. u \in live \/ Has(up[u], "rejoin")
            BY <1>0, <3>1, HasRest
        <3>3. Has(up[u], "skip")
            BY <1>1, <1>2, <1>3, <2>3, <3>2 DEF SeatIsTold
        <3>4. msg.m # "skip"
            <4>1. CASE u \in live
                BY <1>2, <2>3, <4>1
            <4>2. CASE msg.m = "rejoin"
                BY <4>2
            <4>3. QED
                BY <3>1, <4>1, <4>2
        <3>5. QED
            BY <1>0, <2>1, <3>3, <3>4, HasRest
    <2>4. ~Has(up'[u], "rejoin")
        BY <2>2 DEF Has
    <2>5. QED
        BY <1>3, <2>2, <2>3, <2>4, SeatIsToldPrimed
<1>4. CASE v # u
    <2>1. up'[v] = up[v] /\ (v \in live' => v \in live)
        BY <1>0, <1>1, <1>2, <1>4
    <2>2. QED
        BY <1>1, <1>2, <2>1, SeatIsToldPrimed DEF SeatIsTold
<1>5. QED
    BY <1>3, <1>4

LEMMA RoomEndsTellsSeat ==
    ASSUME RoomEnds, NEW v \in Users, SeatIsTold(v)
    PROVE  SeatIsTold(v)'
<1>1. open' = "no" /\ live' = {} /\ UNCHANGED up
    BY DEF RoomEnds, Close
<1>2. QED
    BY <1>1, SeatIsToldPrimed DEF SeatIsTold

LEMMA ElsewhereTellsSeat ==
    ASSUME NEW v \in Users, SeatIsTold(v), Elsewhere(v)
    PROVE  SeatIsTold(v)'
BY SeatIsToldPrimed DEF SeatIsTold, Elsewhere

\* A tab says something that is no rejoin, and keeps its seat when it has no more
\* than it had; who leaves the chat says so, or the room is over.
LEMMA SayingTellsSeat ==
    ASSUME CallInv, NEW u \in Users, SeatIsTold(u), UNCHANGED <<open, live, linked>>,
           NEW msgs \in Seq(Msg), Sends(u, msgs), ~Has(msgs, "rejoin"),
           tab'[u].chat = tab[u].chat \/ open = "no" \/ Has(msgs, "skip")
    PROVE  SeatIsTold(u)'
<1>0. up \in [Users -> Seq(Msg)] /\ up[u] \in Seq(Msg) /\ live \subseteq linked /\ (u \notin linked => up[u] = <<>>)
    BY DEF CallInv, TypeOK, Unplugged
<1>1. up'[u] = IF u \in linked THEN up[u] \o msgs ELSE up[u]
    BY <1>0 DEF Sends
<1>2. ASSUME NEW i \in DOMAIN up'[u], up'[u][i].m = "rejoin" PROVE i \in DOMAIN up[u] /\ up'[u][i] = up[u][i]
    <2>1. CASE u \notin linked
        BY <1>1, <1>2, <2>1
    <2>2. CASE u \in linked
        <3>1. CASE i \in DOMAIN up[u]
            BY <1>0, <1>1, <2>2, <3>1
        <3>2. CASE i \notin DOMAIN up[u]
            <4>1. i - Len(up[u]) \in DOMAIN msgs /\ up'[u][i] = msgs[i - Len(up[u])]
                BY <1>0, <1>1, <2>2, <3>2
            <4>2. QED
                BY <1>2, <4>1 DEF Has
        <3>3. QED
            BY <3>1, <3>2
    <2>3. QED
        BY <2>1, <2>2
<1>3. (Has(up[u], "skip") => Has(up'[u], "skip")) /\ (Has(up'[u], "rejoin") => Has(up[u], "rejoin"))
    BY HasSent
<1>4. ASSUME tab'[u].chat = "off", open' = "yes", u \in live' \/ Has(up'[u], "rejoin")
      PROVE  Has(up'[u], "skip")
    <2>1. u \in live \/ Has(up[u], "rejoin")
        BY <1>3, <1>4
    <2>2. CASE tab'[u].chat = tab[u].chat
        BY <1>3, <1>4, <2>1, <2>2 DEF SeatIsTold
    <2>3. CASE Has(msgs, "skip")
        <3>1. u \in linked
            BY <1>0, <2>1 DEF Has
        <3>2. PICK i \in DOMAIN msgs : msgs[i].m = "skip"
            BY <2>3 DEF Has
        <3>3. Len(up[u]) + i \in DOMAIN up'[u] /\ up'[u][Len(up[u]) + i] = msgs[i]
            BY <1>0, <1>1, <3>1
        <3>4. QED
            BY <3>2, <3>3 DEF Has
    <2>4. QED
        BY <1>4, <2>2, <2>3
<1>5. QED
    BY <1>2, <1>4, SeatIsToldPrimed DEF SeatIsTold

-----------------------------------------------------------------------------
(* The tabs: what a step of one leaves of the talk.                        *)

TalkKept(u) ==
    call # 0 /\ u \in live' /\ Joined(u)' =>
        /\ Joined(u)
        /\ Initiates(u) => Initiates(u)' \/ (tab'[u].pc = call /\ In(up'[u], "offer", call))
        /\ tab[u].pc = call => tab'[u].pc = call /\ (tab[u].heard = "yes" => tab'[u].heard = "yes")
        /\ \A m \in {"offer", "answer"} : In(up[u], m, call) => In(up'[u], m, call)
        /\ tab[u].pc = call /\ In(down[u], "answer", call) =>
              In(down'[u], "answer", call) \/ tab'[u].heard = "yes"
        /\ OfferIsNear(u) =>
              OfferIsNear(u)' \/ (tab'[u].pc = call /\ tab'[u].heard = "yes" /\ In(up'[u], "answer", call))

LEMMA ElsewhereKeepsTune ==
    ASSUME NEW v \in Users, Elsewhere(v), InTune(v)
    PROVE  InTune(v)'
BY InTunePrimed DEF InTune, Elsewhere, Joined, Holds

LEMMA TabKeepsTalk ==
    ASSUME NEW u \in Users, TalkKept(u), call' = call, live' \subseteq live, live \subseteq Users,
           \A v \in Users : v # u => Elsewhere(v), Talk
    PROVE  Talk'
<1> SUFFICES ASSUME call' # 0, live' = Users, \A v \in Users : Joined(v)'
             PROVE  \E i \in Users : Initiates(i)' \/ Offered(i, Partner(i))'
    BY TalkPrimed
<1>0. call # 0 /\ live = Users /\ u \in live'
    OBVIOUS
<1>1. ASSUME NEW v \in Users, v # u
      PROVE  /\ up'[v] = up[v] /\ down'[v] = down[v] /\ tab'[v] = tab[v]
             /\ starts'[v] = starts[v] /\ lit'[v] = lit[v]
             /\ (Joined(v)' <=> Joined(v)) /\ (Initiates(v)' <=> Initiates(v))
             /\ (OfferIsNear(v)' <=> OfferIsNear(v))
    <2>1. /\ up'[v] = up[v] /\ down'[v] = down[v] /\ tab'[v] = tab[v]
          /\ starts'[v] = starts[v] /\ lit'[v] = lit[v]
        BY <1>1 DEF Elsewhere
    <2>2. Joined(v)' <=> Joined(v)
        BY <2>1, InTunePrimed DEF Joined, Holds
    <2>3. Initiates(v)' <=> Initiates(v)
        BY <2>1, TalkPrimed DEF Initiates
    <2>4. OfferIsNear(v)' <=> OfferIsNear(v)
        BY <2>1, TalkPrimed DEF OfferIsNear, Holds
    <2>5. QED
        BY <2>1, <2>2, <2>3, <2>4
<1>2. /\ Joined(u)
      /\ Initiates(u) => Initiates(u)' \/ (tab'[u].pc = call /\ In(up'[u], "offer", call))
      /\ tab[u].pc = call => tab'[u].pc = call /\ (tab[u].heard = "yes" => tab'[u].heard = "yes")
      /\ \A m \in {"offer", "answer"} : In(up[u], m, call) => In(up'[u], m, call)
      /\ tab[u].pc = call /\ In(down[u], "answer", call) =>
            In(down'[u], "answer", call) \/ tab'[u].heard = "yes"
      /\ OfferIsNear(u) =>
            OfferIsNear(u)' \/ (tab'[u].pc = call /\ tab'[u].heard = "yes" /\ In(up'[u], "answer", call))
    BY <1>0 DEF TalkKept
<1>3. (\A v \in Users : Joined(v)) /\ live = Users
    <2>1. \A v \in Users : Joined(v)
        BY <1>1, <1>2
    <2>2. live = Users
        BY <1>0
    <2>3. QED
        BY <2>1, <2>2
<1>4. PICK i \in Users : Initiates(i) \/ Offered(i, Partner(i))
    BY <1>0, <1>3 DEF Talk
<1> DEFINE a == Partner(i)
<1>5. a \in Users /\ a # i
    BY PartnerIsOther
<1> HIDE DEF a
<1>6. Initiates(i)' \/ Offered(i, a)'
    <2>1. CASE i = u
        <3>1. CASE Initiates(u)
            BY <1>2, <2>1, <3>1, TalkPrimed, <1>5
        <3>2. CASE Offered(i, a)
            <4>1. tab[u].pc = call /\ tab'[u].pc = call
                BY <1>2, <2>1, <3>2 DEF Offered
            <4>2. In(up[u], "offer", call) => In(up'[u], "offer", call)
                BY <1>2
            <4>3. OfferIsNear(a)' <=> OfferIsNear(a)
                BY <1>1, <1>5, <2>1
            <4>4. AnswerComes(i, a) => AnswerComes(i, a)'
                BY <1>1, <1>2, <1>5, <2>1, <4>1, TalkPrimed DEF AnswerComes
            <4>5. QED
                BY <1>5, <2>1, <3>2, <4>1, <4>2, <4>3, <4>4, TalkPrimed DEF Offered
        <3>3. QED
            BY <1>4, <2>1, <3>1, <3>2 DEF a
    <2>2. CASE i # u
        <3>0. a = u
            BY <1>5, <2>2, TwoMembers
        <3>1. CASE Initiates(i)
            BY <1>1, <2>2, <3>1
        <3>2. CASE Offered(i, a)
            <4>1. tab'[i] = tab[i] /\ up'[i] = up[i] /\ down'[i] = down[i] /\ tab[i].pc = call
                BY <1>1, <2>2, <3>2 DEF Offered
            <4>2. OfferIsNear(a) => OfferIsNear(a)' \/ AnswerComes(i, a)'
                BY <1>2, <3>0, <1>5, TalkPrimed
            <4>3. AnswerComes(i, a) => AnswerComes(i, a)'
                BY <1>2, <1>5, <3>0, <4>1, TalkPrimed DEF AnswerComes
            <4>4. QED
                BY <1>5, <3>2, <4>1, <4>2, <4>3, TalkPrimed DEF Offered
        <3>3. QED
            BY <1>4, <3>1, <3>2 DEF a
    <2>3. QED
        BY <2>1, <2>2
<1>7. QED
    BY <1>6 DEF a

\* The first event is heard: what begins, and whether an offer is near.
LEMMA BegunHeard ==
    ASSUME NEW d \in Seq(Msg), d # <<>>
    PROVE  /\ Head(d).m \in Begins => Begun(d) = Begun(Tail(d)) \cup {Head(d).call}
           /\ Head(d).m \notin Begins => Begun(d) = Begun(Tail(d))
<1>0. /\ 1 \in DOMAIN d /\ Head(d) = d[1] /\ DOMAIN d = 1..Len(d) /\ Len(d) \in Nat \ {0}
      /\ DOMAIN Tail(d) = 1..(Len(d) - 1)
      /\ \A k \in DOMAIN Tail(d) : k + 1 \in DOMAIN d /\ Tail(d)[k] = d[k + 1]
    BY TailIsShifted
<1>1. \A c : c \in Begun(Tail(d)) => c \in Begun(d)
    BY <1>0 DEF Begun
<1>2. ASSUME NEW c \in Begun(d) PROVE c \in Begun(Tail(d)) \/ (Head(d).m \in Begins /\ c = Head(d).call)
    <2>1. PICK k \in DOMAIN d : d[k].m \in Begins /\ d[k].call = c
        BY <1>2 DEF Begun
    <2>2. CASE k = 1
        BY <1>0, <2>1, <2>2
    <2>3. CASE k # 1
        <3>1. k - 1 \in DOMAIN Tail(d) /\ (k - 1) + 1 = k
            BY <1>0, <2>1, <2>3
        <3>2. Tail(d)[k - 1] = d[k]
            BY <1>0, <3>1
        <3>3. QED
            BY <2>1, <3>1, <3>2 DEF Begun
    <2>4. QED
        BY <2>2, <2>3
<1>3. Head(d).m \in Begins => Head(d).call \in Begun(d)
    BY <1>0 DEF Begun
<1>4. QED
    BY <1>1, <1>2, <1>3

LEMMA OfferHeard ==
    ASSUME NEW d \in Seq(Msg), d # <<>>, NEW c, OfferIn(d, c)
    PROVE  \/ OfferIn(Tail(d), c)
           \/ Head(d).m = "offer" /\ Head(d).call = c /\ c \notin Begun(Tail(d))
<1>0. /\ 1 \in DOMAIN d /\ Head(d) = d[1] /\ DOMAIN d = 1..Len(d) /\ Len(d) \in Nat \ {0}
      /\ DOMAIN Tail(d) = 1..(Len(d) - 1) /\ Len(Tail(d)) = Len(d) - 1
      /\ \A k \in DOMAIN Tail(d) : k + 1 \in DOMAIN d /\ Tail(d)[k] = d[k + 1]
    BY TailIsShifted
<1>1. PICK j \in DOMAIN d : /\ d[j].m = "offer" /\ d[j].call = c
                            /\ \A k \in (j + 1)..Len(d) : ~(d[k].m \in Begins /\ d[k].call = c)
    BY DEF OfferIn
<1>2. CASE j = 1
    <2>1. ASSUME NEW k \in DOMAIN Tail(d) PROVE ~(Tail(d)[k].m \in Begins /\ Tail(d)[k].call = c)
        <3>1. k + 1 \in (j + 1)..Len(d) /\ Tail(d)[k] = d[k + 1]
            BY <1>0, <1>2
        <3>2. QED
            BY <1>1, <3>1
    <2>2. c \notin Begun(Tail(d))
        BY <2>1 DEF Begun
    <2>3. QED
        BY <1>0, <1>1, <1>2, <2>2
<1>3. CASE j # 1
    <2>1. j - 1 \in DOMAIN Tail(d) /\ (j - 1) + 1 = j
        BY <1>0, <1>3
    <2>2. Tail(d)[j - 1] = d[j]
        BY <1>0, <2>1
    <2>3. ASSUME NEW k \in ((j - 1) + 1)..Len(Tail(d)) PROVE ~(Tail(d)[k].m \in Begins /\ Tail(d)[k].call = c)
        <3>1. k \in DOMAIN Tail(d) /\ k + 1 \in (j + 1)..Len(d)
            BY <1>0, <2>1
        <3>2. QED
            BY <1>0, <1>1, <3>1
    <2>4. QED
        BY <1>1, <2>1, <2>2, <2>3 DEF OfferIn
<1>4. QED
    BY <1>2, <1>3

-----------------------------------------------------------------------------
(* The tabs: each step of one keeps it in tune, and the talk.              *)

\* What a tab holds is one call.
LEMMA HoldsOne ==
    ASSUME CallInv, NEW u \in Users, Course(u), InTune(u)
    PROVE  /\ starts[u] = {} => Holds(u) = {tab[u].media} \ {0} /\ tab[u].pc = tab[u].media
           /\ starts[u] # {} => tab[u].pc = 0 /\ tab[u].chat = "on"
           /\ \A s \in starts[u] : starts[u] = {s} /\ Holds(u) = {s.call} /\ s.call \in Calls /\ s \in Start
           /\ \A s \in starts[u] : s.stage = "media" => lit[u] = {} /\ tab[u].media = 0
           /\ tab[u].media \in 0..MaxRequests
           /\ tab[u].chat = "off" => Holds(u) = {}
           /\ Holds(u) = {} => starts[u] = {} /\ tab[u].media = 0
<1>0. /\ tab[u] \in Tab /\ starts[u] \subseteq Start /\ tab[u].media \in 0..MaxRequests
      /\ tab[u].chat \in {"on", "off"} /\ lit[u] = {tab[u].media} \ {0}
      /\ tab[u].pc = IF starts[u] = {} THEN tab[u].media ELSE 0
      /\ \A s \in starts[u] : s.stage = "setup" => s.call = tab[u].media
      /\ \A s, t \in starts[u] : s = t
      /\ \A s \in starts[u] : s.stage = "media" => lit[u] = {}
      /\ tab[u].chat = "off" => starts[u] = {} /\ lit[u] = {}
    BY DEF CallInv, TypeOK, Tab, Course, OneAtATime, InTune, Settled
<1>1. starts[u] = {} => Holds(u) = {tab[u].media} \ {0} /\ tab[u].pc = tab[u].media
    BY <1>0 DEF Holds, Calling
<1>2. starts[u] # {} => tab[u].pc = 0 /\ tab[u].chat = "on"
    BY <1>0
<1>3. ASSUME NEW s \in starts[u]
      PROVE  /\ starts[u] = {s} /\ Holds(u) = {s.call} /\ s.call \in Calls /\ s \in Start
             /\ s.stage = "media" => lit[u] = {} /\ tab[u].media = 0
    <2>1. starts[u] = {s} /\ s \in Start /\ s.call \in Calls /\ s.stage \in {"media", "setup"}
        BY <1>0 DEF Start
    <2>2. lit[u] \subseteq {s.call} /\ (s.stage = "media" => lit[u] = {} /\ tab[u].media = 0)
        BY <1>0, <2>1
    <2>3. QED
        BY <2>1, <2>2 DEF Holds, Calling
<1>4. Holds(u) = {} => starts[u] = {} /\ tab[u].media = 0
    BY <1>0 DEF Holds, Calling
<1>5. tab[u].chat = "off" => Holds(u) = {}
    BY <1>0 DEF Holds, Calling
<1>6. QED
    BY <1>0, <1>1, <1>2, <1>3, <1>4, <1>5

\* A click or a connection that changes nothing of a call.
LEMMA UntouchedKeepsTune ==
    ASSUME CallInv, NEW u \in Users, InTune(u), UNCHANGED <<call, down, starts, lit>>, live' \subseteq live,
           tab'[u].state = tab[u].state, tab'[u].media = tab[u].media, tab'[u].pc = tab[u].pc,
           tab'[u].heard = tab[u].heard, tab'[u].pending = tab[u].pending,
           \/ u \notin live'
           \/ up' = up
           \/ \E msgs \in Seq(Msg) : Sends(u, msgs)
    PROVE  InTune(u)' /\ TalkKept(u)
<1>1. ASSUME u \in live' PROVE (\A m, c : In(up[u], m, c) => In(up'[u], m, c)) /\ (Has(up[u], "skip") => Has(up'[u], "skip"))
    <2>1. CASE up' = up
        BY <2>1
    <2>2. ASSUME NEW msgs \in Seq(Msg), Sends(u, msgs)
          PROVE  (\A m, c : In(up[u], m, c) => In(up'[u], m, c)) /\ (Has(up[u], "skip") => Has(up'[u], "skip"))
        <3>1. \A m, c : In(up[u], m, c) => In(up'[u], m, c)
            BY <2>2, InSent
        <3>2. Has(up[u], "skip") => Has(up'[u], "skip")
            BY <2>2, HasSent
        <3>3. QED
            BY <3>1, <3>2
    <2>3. QED
        BY <1>1, <2>1, <2>2
<1>2. Joined(u)' <=> Joined(u)
    BY InTunePrimed DEF Joined, Holds
<1>3. InTune(u)'
    BY <1>1, <1>2, InTunePrimed DEF InTune, Settled, Holds
<1>4. Initiates(u) => Initiates(u)'
    BY TalkPrimed DEF Initiates
<1>5. OfferIsNear(u) => OfferIsNear(u)'
    BY TalkPrimed DEF OfferIsNear, Holds
<1>6. TalkKept(u)
    BY <1>1, <1>2, <1>4, <1>5 DEF TalkKept
<1>7. QED
    BY <1>3, <1>6

\* The call, or the chat, is ended here.
LEMMA EndingKeepsTune ==
    ASSUME CallInv, NEW u \in Users, Course(u), InTune(u), u \notin marred',
           ClickEnd(u) \/ ClickSkip(u) \/ StartFails(u)
    PROVE  InTune(u)' /\ TalkKept(u)
<1>0. /\ TypeOK /\ tab \in [Users -> Tab] /\ tab[u] \in Tab /\ live \subseteq linked /\ up[u] \in Seq(Msg)
      /\ starts \in [Users -> SUBSET Start] /\ lit \in [Users -> SUBSET Calls] /\ call \in Nat
    BY BoundsAreNumbers DEF CallInv, TypeOK
<1>1. EndedIsOver(tab[u].media, Holds(u), down[u], up[u], calls) /\ UNCHANGED <<call, live, down>>
    BY DEF Course, ClickEnd, ClickSkip, StartFails, server
<1>2. ASSUME NEW t \in Tab, t.media = tab[u].media, t.pc = tab[u].pc, Cleanup(u, t),
             NEW m \in Msg, Sends(u, <<m>>), m.m = "skip" \/ (m.m = "end" /\ (call \in Holds(u) => m.call = call))
      PROVE  InTune(u)' /\ TalkKept(u)
    <2>1. starts'[u] = {} /\ lit'[u] = {} /\ tab'[u].media = 0
        BY <1>0, <1>2, CleanupEnds
    <2>2. tab'[u].state = "idle" /\ tab'[u].pc = 0
        BY <1>0, <1>2 DEF Cleanup, Tab
    <2>3. Settled(tab'[u], starts'[u], lit'[u]) /\ Calling(starts'[u], lit'[u]) = {}
        BY <2>1, <2>2 DEF Settled, Calling
    <2>4. RepliesAlternate({}, down[u]) /\ (call # 0 => GoesOn({}, down[u], call))
        BY DEF InTune, RepliesAlternate, GoesOn
    <2>5. Joined(u)' <=> call \in Begun(down[u])
        BY <1>1, <2>3, InTunePrimed
    <2>6. <<m>> \in Seq(Msg) /\ In(<<m>>, m.m, m.call) /\ Has(<<m>>, m.m)
        BY <1>2 DEF In, Has
    <2> DEFINE msgs == <<m>>
    <2>7. Sends(u, msgs) /\ msgs \in Seq(Msg) /\ In(msgs, m.m, m.call) /\ Has(msgs, m.m)
        BY <1>2, <2>6
    <2> HIDE DEF msgs
    <2>8. \A x, c : (In(up[u], x, c) => In(up'[u], x, c)) /\ (u \in linked /\ In(msgs, x, c) => In(up'[u], x, c))
        BY <2>7, InSent
    <2>9. (Has(up[u], "skip") => Has(up'[u], "skip")) /\ (u \in linked /\ m.m = "skip" => Has(up'[u], "skip"))
        <3>1. Has(up[u], "skip") => Has(up'[u], "skip")
            BY <2>7, HasSent
        <3>2. u \in linked /\ m.m = "skip" => In(up'[u], "skip", m.call)
            BY <2>7, <2>8
        <3>3. QED
            BY <3>1, <3>2 DEF In, Has
    <2>10. call # 0 /\ u \in live => Joined(u)' \/ In(up'[u], "end", call) \/ Has(up'[u], "skip")
        <3>1. ASSUME call # 0, u \in live, Joined(u) PROVE Joined(u)' \/ In(up'[u], "end", call) \/ Has(up'[u], "skip")
            <4>1. CASE call \in Begun(down[u])
                BY <2>5, <4>1
            <4>2. CASE call \in Holds(u)
                BY <1>0, <1>2, <2>7, <2>8, <2>9, <3>1, <4>2
            <4>3. QED
                BY <3>1, <4>1, <4>2 DEF Joined
        <3>2. QED
            BY <2>8, <2>9, <3>1 DEF InTune
    <2>11. InTune(u)'
        BY <1>1, <2>3, <2>4, <2>10, InTunePrimed
    <2>12. ASSUME call # 0, u \in live', Joined(u)'
           PROVE  /\ Joined(u) /\ tab[u].pc # call
                  /\ Initiates(u) => Initiates(u)'
                  /\ OfferIsNear(u) => OfferIsNear(u)'
        <3>1. call \in Begun(down[u]) /\ call \notin Holds(u)
            BY <1>1, <2>5, <2>12 DEF EndedIsOver
        <3>2. tab[u].pc # call
            <4>1. starts[u] = {} => Holds(u) = {tab[u].media} \ {0} /\ tab[u].pc = tab[u].media
                BY HoldsOne
            <4>2. starts[u] # {} => tab[u].pc = 0
                BY HoldsOne
            <4>3. QED
                BY <2>12, <3>1, <4>1, <4>2
        <3>3. \A s \in starts[u] : s.call # call
            BY <3>1 DEF Holds, Calling
        <3>4. Initiates(u) => Initiates(u)'
            BY <1>1, <3>3, TalkPrimed DEF Initiates
        <3>5. OfferIsNear(u) => OfferIsNear(u)'
            BY <1>1, <3>1, TalkPrimed DEF OfferIsNear
        <3>6. QED
            BY <3>1, <3>2, <3>4, <3>5 DEF Joined
    <2>13. TalkKept(u)
        BY <2>8, <2>12 DEF TalkKept
    <2>14. QED
        BY <2>11, <2>13
<1>3. CASE ClickEnd(u)
    <2>1. tab[u].state = "active" /\ starts' = starts /\ Cleanup(u, tab[u])
          /\ Sends(u, <<[m |-> "end", call |-> tab[u].media]>>)
        BY <1>3 DEF ClickEnd, CallPanel
    <2>2. starts[u] = {}
        BY <1>0, <2>1, CleanupEnds
    <2>3. call \in Holds(u) => call = tab[u].media
        BY <2>2, HoldsOne
    <2>4. [m |-> "end", call |-> tab[u].media] \in Msg
        BY <1>0 DEF Msg, Tab
    <2>5. QED
        BY <1>0, <1>2, <2>1, <2>3, <2>4
<1>4. CASE ClickSkip(u)
    <2> DEFINE t == [tab[u] EXCEPT !.chat = "off", !.incoming = "no", !.explain = "none"]
    <2>1. t \in Tab /\ t.media = tab[u].media /\ t.pc = tab[u].pc
        BY <1>0 DEF Tab
    <2>2. M("skip") \in Msg /\ M("skip").m = "skip" /\ Cleanup(u, t) /\ Sends(u, <<M("skip")>>)
        BY <1>4, BoundsAreNumbers DEF ClickSkip, Leave, M, Msg
    <2> HIDE DEF t
    <2>3. QED
        BY <1>2, <2>1, <2>2
<1>5. CASE StartFails(u)
    <2>1. PICK s \in starts[u] : Cleanup(u, tab[u]) /\ Sends(u, <<[m |-> "end", call |-> s.call]>>)
        BY <1>5 DEF StartFails
    <2>2. Holds(u) = {s.call} /\ s.call \in Calls
        BY HoldsOne
    <2>3. [m |-> "end", call |-> s.call] \in Msg
        BY <2>2, BoundsAreNumbers DEF Msg, Calls
    <2>4. QED
        BY <1>0, <1>2, <2>1, <2>2, <2>3
<1>6. QED
    BY <1>3, <1>4, <1>5

LEMMA MediaKeepsTune ==
    ASSUME CallInv, NEW u \in Users, Course(u), InTune(u), MediaReady(u)
    PROVE  InTune(u)' /\ TalkKept(u)
<1>0. /\ tab \in [Users -> Tab] /\ tab[u] \in Tab
      /\ starts \in [Users -> SUBSET Start] /\ lit \in [Users -> SUBSET Calls]
    BY DEF CallInv, TypeOK
<1>1. PICK s \in starts[u] :
          /\ s.stage = "media"
          /\ starts' = [starts EXCEPT ![u] = (@ \ {s}) \cup {[s EXCEPT !.stage = "setup"]}]
          /\ lit' = [lit EXCEPT ![u] = @ \cup {s.call}]
          /\ tab' = [tab EXCEPT ![u].media = s.call,
                                ![u].state = IF tab[u].chat = "on" THEN "active" ELSE @]
    BY DEF MediaReady
<1>2. UNCHANGED <<call, live, up, down>>
    BY DEF MediaReady, server, net
<1>3. /\ starts[u] = {s} /\ Holds(u) = {s.call} /\ s.call \in Calls /\ s \in Start
      /\ lit[u] = {} /\ tab[u].pc = 0 /\ tab[u].chat = "on"
    BY <1>1, HoldsOne
<1> DEFINE r == [s EXCEPT !.stage = "setup"]
<1>4. r.call = s.call /\ r.role = s.role /\ r.stage = "setup" /\ s.call # 0
    BY <1>3 DEF Start, Calls
<1>5. starts'[u] = {r} /\ lit'[u] = {s.call}
    BY <1>0, <1>1, <1>3
<1> HIDE DEF r
<1>6. /\ tab'[u].media = s.call /\ tab'[u].state = "active" /\ tab'[u].pc = 0
      /\ tab'[u].heard = tab[u].heard /\ tab'[u].pending = tab[u].pending
    BY <1>0, <1>1, <1>3 DEF Tab
<1>7. Calling(starts'[u], lit'[u]) = Holds(u)
    BY <1>3, <1>4, <1>5 DEF Calling
<1>8. Settled(tab'[u], starts'[u], lit'[u])
    BY <1>4, <1>5, <1>6 DEF Settled
<1>9. Joined(u)' <=> Joined(u)
    BY <1>2, <1>7, InTunePrimed DEF Joined
<1>10. InTune(u)'
    BY <1>2, <1>7, <1>8, <1>9, InTunePrimed DEF InTune
<1>11. Initiates(u) => Initiates(u)'
    BY <1>2, <1>3, <1>4, <1>5, TalkPrimed DEF Initiates
<1>12. OfferIsNear(u) => OfferIsNear(u)'
    BY <1>2, <1>5, <1>6, <1>7, TalkPrimed DEF OfferIsNear
<1>13. TalkKept(u)
    BY <1>2, <1>3, <1>9, <1>11, <1>12 DEF TalkKept
<1>14. QED
    BY <1>10, <1>13

\* An offer that is heard is answered.
LEMMA OffersAreAnswered ==
    ASSUME NEW signals \in Seq(Signals), NEW c \in 0..MaxRequests
    PROVE  /\ Answers(c, signals) \in Seq(Msg)
           /\ \A i \in DOMAIN Answers(c, signals) : Answers(c, signals)[i] = [m |-> "answer", call |-> c]
           /\ \A k : In(signals, "offer", k) => In(Answers(c, signals), "answer", c)
<1>1. /\ Answers(c, signals) \in Seq(Msg)
      /\ \A i \in DOMAIN Answers(c, signals) : Answers(c, signals)[i] = [m |-> "answer", call |-> c]
    BY AnswersFit
<1>2. ASSUME NEW k, In(signals, "offer", k) PROVE In(Answers(c, signals), "answer", c)
    <2> DEFINE of == {j \in DOMAIN signals : signals[j].m = "offer"}
    <2>1. PICK j \in DOMAIN signals : signals[j].m = "offer"
        BY <1>2 DEF In
    <2>2. j \in of /\ of \subseteq 1..Len(signals) /\ Len(signals) \in Nat
        BY <2>1
    <2>3. IsFiniteSet(1..Len(signals))
        BY <2>2, FS_Interval
    <2>4. IsFiniteSet(of)
        BY <2>2, <2>3, FS_Subset
    <2>5. Cardinality(of) \in Nat /\ Cardinality(of) # 0
        BY <2>2, <2>4, FS_CardinalityType, FS_EmptySet
    <2>6. DOMAIN Answers(c, signals) = 1..Cardinality(of)
        BY DEF Answers
    <2>7. 1 \in DOMAIN Answers(c, signals)
        BY <2>5, <2>6
    <2>8. Answers(c, signals)[1].m = "answer" /\ Answers(c, signals)[1].call = c
        BY <1>1, <2>7
    <2>9. QED
        BY <2>7, <2>8 DEF In
<1>3. QED
    BY <1>1, <1>2

LEMMA CallReadyKeepsTune ==
    ASSUME CallInv, NEW u \in Users, Course(u), InTune(u), CallReady(u)
    PROVE  InTune(u)' /\ TalkKept(u)
<1>0. /\ tab \in [Users -> Tab] /\ tab[u] \in Tab /\ live \subseteq linked
      /\ starts \in [Users -> SUBSET Start] /\ lit \in [Users -> SUBSET Calls]
    BY DEF CallInv, TypeOK
<1>1. PICK s \in starts[u] :
          /\ s.stage = "setup"
          /\ starts' = [starts EXCEPT ![u] = @ \ {s}]
          /\ tab' = [tab EXCEPT ![u].pc = s.call, ![u].pending = <<>>, ![u].heard = Hears(s.call, tab[u].pending)]
          /\ Sends(u, Offers(s) \o Answers(s.call, tab[u].pending))
    BY DEF CallReady
<1>2. UNCHANGED <<call, live, down, lit>>
    BY DEF CallReady, server
<1>3. /\ starts[u] = {s} /\ Holds(u) = {s.call} /\ s.call \in Calls /\ s \in Start
      /\ tab[u].pc = 0
    BY <1>1, HoldsOne
<1>4. /\ s.call = tab[u].media /\ lit[u] = {tab[u].media} \ {0} /\ s.call # 0 /\ s.call \in 0..MaxRequests
      /\ (tab[u].state = "active" <=> tab[u].media # 0)
    BY <1>1, <1>3, BoundsAreNumbers DEF InTune, Settled, Calls
<1>5. /\ starts'[u] = {} /\ lit'[u] = {s.call}
      /\ tab'[u].media = s.call /\ tab'[u].state = tab[u].state /\ tab'[u].pc = s.call
      /\ tab'[u].heard = Hears(s.call, tab[u].pending)
    BY <1>0, <1>1, <1>2, <1>3, <1>4 DEF Tab
<1>6. Calling(starts'[u], lit'[u]) = Holds(u) /\ Settled(tab'[u], starts'[u], lit'[u])
    BY <1>3, <1>4, <1>5 DEF Calling, Settled
<1> DEFINE pend == tab[u].pending
           off == Offers(s)
           ans == Answers(s.call, pend)
           msgs == off \o ans
<1>7. /\ pend \in Seq(Signals) /\ off \in Seq(Msg) /\ ans \in Seq(Msg)
      /\ \A k : In(pend, "offer", k) => In(ans, "answer", s.call)
      /\ s.role = "initiate" => In(off, "offer", s.call)
    <2>1. pend \in Seq(Signals)
        BY <1>0 DEF Tab
    <2>2. off \in Seq(Msg)
        BY <1>3, OffersFit
    <2>3. s.role = "initiate" => In(off, "offer", s.call)
        BY DEF Offers, In
    <2>4. QED
        BY <1>4, <2>1, <2>2, <2>3, OffersAreAnswered
<1>8. Sends(u, msgs)
    BY <1>1
<1> HIDE DEF off, ans, pend
<1>9. msgs \in Seq(Msg) /\ \A m, c : In(off, m, c) \/ In(ans, m, c) => In(msgs, m, c)
    BY <1>7, InJoined
<1> HIDE DEF msgs
<1>10. \A m, c : (In(up[u], m, c) => In(up'[u], m, c)) /\ (u \in linked /\ In(msgs, m, c) => In(up'[u], m, c))
    BY <1>8, <1>9, InSent
<1>11. Has(up[u], "skip") => Has(up'[u], "skip")
    BY <1>8, <1>9, HasSent
<1>12. Joined(u)' <=> Joined(u)
    BY <1>2, <1>6, InTunePrimed DEF Joined
<1>13. InTune(u)'
    BY <1>2, <1>6, <1>10, <1>11, <1>12, InTunePrimed DEF InTune
<1>14. ASSUME call # 0, u \in live'
       PROVE  /\ Initiates(u) => Initiates(u)' \/ (tab'[u].pc = call /\ In(up'[u], "offer", call))
              /\ OfferIsNear(u) =>
                    OfferIsNear(u)' \/ (tab'[u].pc = call /\ tab'[u].heard = "yes" /\ In(up'[u], "answer", call))
    <2>0. u \in linked
        BY <1>0, <1>2, <1>14
    <2>1. CASE s.call = call
        <3>1. s.role = "initiate" => In(up'[u], "offer", call)
            BY <1>7, <1>9, <1>10, <2>0, <2>1
        <3>2. Initiates(u) => Initiates(u)' \/ (tab'[u].pc = call /\ In(up'[u], "offer", call))
            BY <1>2, <1>3, <1>5, <2>1, <3>1, TalkPrimed DEF Initiates
        <3>3. In(pend, "offer", call) => In(up'[u], "answer", call) /\ tab'[u].heard = "yes"
            <4>1. In(pend, "offer", call) => Hears(call, pend) = "yes"
                BY DEF Hears, In
            <4>2. tab'[u].heard = Hears(call, pend)
                BY <1>5, <2>1 DEF pend
            <4>3. QED
                BY <1>7, <1>9, <1>10, <2>0, <2>1, <4>1, <4>2
        <3>4. QED
            BY <1>2, <1>5, <2>1, <3>2, <3>3, TalkPrimed DEF OfferIsNear, pend
    <2>2. CASE s.call # call
        <3>1. Initiates(u) => Initiates(u)'
            BY <1>2, <1>3, <2>2, TalkPrimed DEF Initiates
        <3>2. OfferIsNear(u) => OfferIsNear(u)'
            BY <1>2, <1>3, <2>2, TalkPrimed DEF OfferIsNear
        <3>3. QED
            BY <3>1, <3>2
    <2>3. QED
        BY <2>1, <2>2
<1>15. TalkKept(u)
    BY <1>2, <1>3, <1>10, <1>12, <1>14 DEF TalkKept
<1>16. QED
    BY <1>13, <1>15

LEMMA BreakKeepsTune ==
    ASSUME CallInv, NEW u \in Users, InTune(u), Break(u)
    PROVE  InTune(u)' /\ TalkKept(u)
<1>1. /\ UNCHANGED <<call, tab, starts, lit>> /\ down'[u] = <<>> /\ u \notin live'
    BY DEF Break, tabs, CallInv, TypeOK
<1>2. RepliesAlternate(Holds(u), <<>>) /\ GoesOn(Holds(u), <<>>, call)
    BY DEF RepliesAlternate, GoesOn, Ended
<1>3. InTune(u)'
    BY <1>1, <1>2, InTunePrimed DEF InTune, Holds
<1>4. QED
    BY <1>1, <1>3 DEF TalkKept

\* A start, and what changes the state of a tab otherwise, finds no call there.
LEMMA FindsNothing ==
    ASSUME CallInv, NEW u \in Users, Course(u), InTune(u), down[u] # <<>>,
           Head(down[u]).m \in Begins \cup Replies
    PROVE  Holds(u) = {}
<1>1. 1 \in DOMAIN down[u] /\ Head(down[u]) = down[u][1]
    BY TailIsShifted DEF CallInv, TypeOK
<1>2. ~Ended(down[u], 1, 1 - 1)
    BY DEF Ended
<1>3. QED
    BY <1>1, <1>2 DEF Course, StartsAlternate, InTune, RepliesAlternate

\* An event reaches a tab in the chat: g is what the tab holds then.
LEMMA HeardKeepsTune ==
    ASSUME CallInv, NEW u \in Users, Course(u), InTune(u), UNCHANGED <<call, live>>,
           down[u] # <<>>, down'[u] = Tail(down[u]),
           NEW g, g = Calling(starts'[u], lit'[u]), Settled(tab'[u], starts'[u], lit'[u]),
           \/ Head(down[u]).m \notin Begins \cup Ends /\ g = Holds(u)
           \/ Head(down[u]).m \in Begins /\ g = {Head(down[u]).call}
           \/ Head(down[u]).m \in Ends /\ g = {},
           In(up[u], "end", call) => In(up'[u], "end", call),
           Has(up[u], "skip") => Has(up'[u], "skip")
    PROVE  /\ InTune(u)'
           /\ Joined(u)' <=> call \in Begun(Tail(down[u])) \cup g
           /\ Joined(u)' => Joined(u)
<1> DEFINE h == Holds(u)
           d == down[u]
<1>0. d \in Seq(Msg) /\ d # <<>> /\ Len(d) \in Nat \ {0} /\ Head(d) = d[1]
    BY TailIsShifted DEF CallInv, TypeOK
<1>1. RepliesAlternate(h, d) /\ (call # 0 => GoesOn(h, d, call))
    BY DEF InTune
<1>2. Head(d).m \in Begins => h = {}
    BY FindsNothing
<1>3. RepliesAlternate(g, Tail(d))
    BY <1>0, <1>1, RepliesHeard
<1>4. call # 0 => GoesOn(g, Tail(d), call)
    BY <1>0, <1>1, GoesOnHeard
<1>5. Joined(u)' <=> call \in Begun(Tail(d)) \cup g
    BY InTunePrimed
<1>6. /\ Head(d).m \in Begins => Begun(d) = Begun(Tail(d)) \cup {Head(d).call}
      /\ Head(d).m \notin Begins => Begun(d) = Begun(Tail(d))
    BY <1>0, BegunHeard
<1>7. Joined(u)' => Joined(u)
    BY <1>5, <1>6 DEF Joined, Begins, Ends
<1>8. call # 0 /\ Joined(u) => Joined(u)'
    <2>1. ASSUME call # 0, Head(d).m \in Ends PROVE call \notin h
        <3>1. Ended(d, 1, Len(d))
            BY <1>0, <2>1 DEF Ended
        <3>2. QED
            BY <1>1, <2>1, <3>1 DEF GoesOn
    <2>2. QED
        BY <1>2, <1>5, <1>6, <2>1 DEF Joined, Begins, Ends
<1>9. InTune(u)'
    <2>1. call' # 0 /\ u \in live' => Joined(u)' \/ In(up'[u], "end", call') \/ Has(up'[u], "skip")
        BY <1>8 DEF InTune
    <2> HIDE DEF h, d
    <2>2. RepliesAlternate(Calling(starts'[u], lit'[u]), down'[u])
          /\ (call' # 0 => GoesOn(Calling(starts'[u], lit'[u]), down'[u], call'))
        BY <1>3, <1>4 DEF d
    <2>3. QED
        BY <2>1, <2>2, InTunePrimed
<1>10. QED
    BY <1>5, <1>7, <1>9

LEMMA DeliverKeepsTune ==
    ASSUME CallInv, NEW u \in Users, Course(u), InTune(u), RoomIsKnown(u), SeatIsTold(u), open = "yes",
           u \notin marred', Deliver(u)
    PROVE  InTune(u)' /\ TalkKept(u)
<1> DEFINE d == down[u]
           msg == Head(d)
           h == Holds(u)
           on == tab[u].chat = "on"
           g == Calling(starts'[u], lit'[u])
<1>0. /\ TypeOK /\ tab \in [Users -> Tab] /\ tab[u] \in Tab /\ down \in [Users -> Seq(Msg)] /\ d \in Seq(Msg)
      /\ starts \in [Users -> SUBSET Start] /\ lit \in [Users -> SUBSET Calls] /\ live \subseteq linked
    BY DEF CallInv, TypeOK
<1>1. /\ UNCHANGED <<call, live>> /\ d # <<>>
      /\ down'[u] = IF on THEN Tail(d) ELSE <<>>
    BY <1>0 DEF Deliver, server
<1>2. Settled(tab[u], starts[u], lit[u])
    BY DEF InTune
<1>3. CASE ~on
    <2>1. tab' = [tab EXCEPT ![u] = tab[u]] /\ UNCHANGED <<starts, lit, up>> /\ down'[u] = <<>>
        BY <1>1, <1>3 DEF Deliver
    <2>2. tab'[u] = tab[u] /\ tab[u].chat = "off"
        BY <1>0, <1>3, <2>1 DEF Tab
    <2>3. h = {} /\ g = {}
        <3>1. h = {}
            BY <2>2, HoldsOne
        <3>2. QED
            BY <2>1, <3>1 DEF Holds
    <2>4. RepliesAlternate({}, <<>>) /\ GoesOn({}, <<>>, call) /\ Begun(<<>>) = {}
        BY DEF RepliesAlternate, GoesOn, Begun
    <2>5. u \in live => Has(up[u], "skip")
        BY <2>2 DEF SeatIsTold
    <2>6. InTune(u)'
        BY <1>1, <1>2, <2>1, <2>2, <2>3, <2>4, <2>5, InTunePrimed
    <2>7. ~Joined(u)'
        BY <2>1, <2>3, <2>4, InTunePrimed
    <2>8. QED
        BY <2>6, <2>7 DEF TalkKept
\* What is heard is neither a start nor an end.
<1>4. ASSUME on, msg.m \notin Begins \cup Ends, UNCHANGED <<starts, lit>>, Settled(tab'[u], starts[u], lit[u]),
             tab'[u].pc = tab[u].pc, tab'[u].heard = tab[u].heard \/ tab'[u].heard = "yes",
             \A m, c : In(up[u], m, c) => In(up'[u], m, c),
             Has(up[u], "skip") => Has(up'[u], "skip"),
             In(tab[u].pending, "offer", call) => In(tab'[u].pending, "offer", call),
             msg.m = "answer" /\ msg.call = tab[u].pc /\ tab[u].pc = call /\ call # 0 => tab'[u].heard = "yes",
             msg.m = "offer" /\ msg.call = call /\ call \in h =>
                \/ starts[u] # {} /\ In(tab'[u].pending, "offer", call)
                \/ u \in live /\ call # 0 =>
                      tab'[u].pc = call /\ tab'[u].heard = "yes" /\ In(up'[u], "answer", call)
      PROVE  InTune(u)' /\ TalkKept(u)
    <2>1. g = h /\ down'[u] = Tail(d)
        BY <1>1, <1>4 DEF Holds
    <2>2. InTune(u)' /\ (Joined(u)' <=> call \in Begun(Tail(d)) \cup g) /\ (Joined(u)' => Joined(u))
        BY <1>1, <1>4, <2>1, HeardKeepsTune
    <2>3. Initiates(u) => Initiates(u)'
        <3>1. In(d, "initiate", call) => In(Tail(d), "initiate", call)
            BY <1>0, <1>1, <1>4, InRest DEF Begins
        <3>2. QED
            BY <1>1, <1>4, <2>1, <3>1, TalkPrimed DEF Initiates
    <2>4. ASSUME call # 0, tab[u].pc = call, In(d, "answer", call)
          PROVE  In(down'[u], "answer", call) \/ tab'[u].heard = "yes"
        <3>1. In(Tail(d), "answer", call) \/ (msg.m = "answer" /\ msg.call = call)
            BY <1>0, <1>1, <2>4, InRest
        <3>2. QED
            BY <1>4, <2>1, <2>4, <3>1
    <2>5. ASSUME call # 0, u \in live, Joined(u)', OfferIsNear(u)
          PROVE  OfferIsNear(u)' \/ (tab'[u].pc = call /\ tab'[u].heard = "yes" /\ In(up'[u], "answer", call))
        <3>1. CASE OfferIn(d, call)
            <4>1. CASE OfferIn(Tail(d), call)
                BY <1>1, <2>1, <4>1, TalkPrimed
            <4>2. CASE msg.m = "offer" /\ msg.call = call /\ call \notin Begun(Tail(d))
                <5>1. call \in h
                    BY <2>1, <2>2, <2>5, <4>2
                <5>2. QED
                    BY <1>1, <1>4, <2>1, <2>5, <4>2, <5>1, TalkPrimed
            <4>3. QED
                BY <1>0, <1>1, <3>1, <4>1, <4>2, OfferHeard
        <3>2. CASE starts[u] # {} /\ call \in h /\ In(tab[u].pending, "offer", call)
            BY <1>1, <1>4, <2>1, <3>2, TalkPrimed
        <3>3. QED
            BY <2>5, <3>1, <3>2 DEF OfferIsNear
    <2>6. TalkKept(u)
        BY <1>1, <1>4, <2>2, <2>3, <2>4, <2>5 DEF TalkKept
    <2>7. QED
        BY <2>2, <2>6
<1>5. CASE on /\ msg.m = "request" /\ UNCHANGED <<starts, lit, up>> /\ tab' = [tab EXCEPT ![u] = [tab[u] EXCEPT !.incoming = "yes"]]
    <2>1. /\ tab'[u].state = tab[u].state /\ tab'[u].media = tab[u].media /\ tab'[u].pc = tab[u].pc
          /\ tab'[u].heard = tab[u].heard /\ tab'[u].pending = tab[u].pending
        BY <1>0, <1>5 DEF Tab
    <2>2. Settled(tab'[u], starts[u], lit[u])
        BY <1>2, <2>1 DEF Settled
    <2>3. QED
        BY <1>4, <1>5, <2>1, <2>2 DEF Begins, Ends
<1>6. CASE /\ on /\ msg.m \in Replies /\ UNCHANGED <<starts, lit, up>>
           /\ \E s \in {"requesting", "idle"} : tab' = [tab EXCEPT ![u] = [tab[u] EXCEPT !.state = s]]
    <2>1. /\ tab'[u].state # "active" /\ tab'[u].media = tab[u].media /\ tab'[u].pc = tab[u].pc
          /\ tab'[u].heard = tab[u].heard /\ tab'[u].pending = tab[u].pending
        BY <1>0, <1>6 DEF Tab
    <2>2. h = {}
        BY <1>1, <1>6, FindsNothing
    <2>3. tab[u].media = 0
        BY <2>2, HoldsOne
    <2>4. Settled(tab'[u], starts[u], lit[u])
        BY <1>2, <2>1, <2>3 DEF Settled
    <2>5. QED
        BY <1>4, <1>6, <2>1, <2>4 DEF Begins, Ends, Replies
<1>7. CASE /\ on /\ msg \in Signals /\ tab[u].pc = 0 /\ UNCHANGED <<starts, lit, up>>
           /\ tab' = [tab EXCEPT ![u] = [tab[u] EXCEPT !.pending = Append(@, msg)]]
    <2>1. /\ tab'[u].state = tab[u].state /\ tab'[u].media = tab[u].media /\ tab'[u].pc = tab[u].pc
          /\ tab'[u].heard = tab[u].heard /\ tab'[u].pending = Append(tab[u].pending, msg)
        BY <1>0, <1>7 DEF Tab
    <2>2. Settled(tab'[u], starts[u], lit[u])
        BY <1>2, <2>1 DEF Settled
    <2>3. tab[u].pending \in Seq(Msg) /\ msg \in Msg
        BY <1>0, <1>7 DEF Tab, Signals
    <2>4. In(tab'[u].pending, "offer", call) <=>
             In(tab[u].pending, "offer", call) \/ (msg.m = "offer" /\ msg.call = call)
        BY <2>1, <2>3, InMore
    <2>5. call \in h => starts[u] # {}
        BY <1>7, HoldsOne
    <2>6. msg.m \notin Begins \cup Ends
        BY <1>7 DEF Begins, Ends, Signals
    <2>7. QED
        BY <1>4, <1>7, <2>1, <2>2, <2>4, <2>5, <2>6
<1>8. CASE /\ on /\ msg \in Signals /\ tab[u].pc # 0 /\ UNCHANGED <<starts, lit>>
           /\ tab' = [tab EXCEPT ![u].heard = IF msg.call = tab[u].pc THEN "yes" ELSE @]
           /\ Sends(u, Answers(tab[u].pc, <<msg>>))
    <2>1. /\ tab'[u].state = tab[u].state /\ tab'[u].media = tab[u].media /\ tab'[u].pc = tab[u].pc
          /\ tab'[u].pending = tab[u].pending
          /\ tab'[u].heard = IF msg.call = tab[u].pc THEN "yes" ELSE tab[u].heard
        BY <1>0, <1>8 DEF Tab
    <2>2. Settled(tab'[u], starts[u], lit[u])
        BY <1>2, <2>1 DEF Settled
    <2>3. <<msg>> \in Seq(Signals) /\ tab[u].pc \in 0..MaxRequests
        BY <1>0, <1>8 DEF Tab
    <2> DEFINE msgs == Answers(tab[u].pc, <<msg>>)
    <2>4. msgs \in Seq(Msg) /\ Sends(u, msgs) /\ \A k : In(<<msg>>, "offer", k) => In(msgs, "answer", tab[u].pc)
        BY <1>8, <2>3, OffersAreAnswered
    <2> HIDE DEF msgs
    <2>5. \A m, c : (In(up[u], m, c) => In(up'[u], m, c)) /\ (u \in linked /\ In(msgs, m, c) => In(up'[u], m, c))
        BY <2>4, InSent
    <2>6. Has(up[u], "skip") => Has(up'[u], "skip")
        BY <2>4, HasSent
    <2>7. msg.m \notin Begins \cup Ends
        BY <1>8 DEF Begins, Ends, Signals
    <2>8. call \in h => call = tab[u].pc
        <3>1. starts[u] = {}
            BY <1>8, HoldsOne
        <3>2. QED
            BY <3>1, HoldsOne
    <2>9. ASSUME msg.m = "offer", msg.call = call, call \in h, u \in live
          PROVE  tab'[u].pc = call /\ tab'[u].heard = "yes" /\ In(up'[u], "answer", call)
        <3>1. In(<<msg>>, "offer", call)
            BY <2>9 DEF In
        <3>2. QED
            BY <1>0, <2>1, <2>4, <2>5, <2>8, <2>9, <3>1
    <2>10. /\ \A m, c : In(up[u], m, c) => In(up'[u], m, c)
           /\ tab'[u].heard = tab[u].heard \/ tab'[u].heard = "yes"
           /\ msg.m = "answer" /\ msg.call = tab[u].pc => tab'[u].heard = "yes"
           /\ In(tab[u].pending, "offer", call) => In(tab'[u].pending, "offer", call)
        BY <2>1, <2>5
    <2>11. QED
        BY <1>4, <1>8, <2>1, <2>2, <2>6, <2>7, <2>9, <2>10
<1>9. CASE /\ on /\ msg.m \in Begins
           /\ starts' = [starts EXCEPT ![u] = @ \cup {[call |-> msg.call, role |-> msg.m, stage |-> "media"]}]
           /\ UNCHANGED <<tab, lit, up>>
    <2> DEFINE s == [call |-> msg.call, role |-> msg.m, stage |-> "media"]
    <2>1. h = {}
        BY <1>1, <1>9, FindsNothing
    <2>2. starts[u] = {} /\ tab[u].media = 0 /\ tab[u].pc = 0
        BY <2>1, HoldsOne
    <2>3. starts'[u] = {s} /\ lit'[u] = lit[u] /\ tab'[u] = tab[u] /\ lit[u] = {}
        BY <1>0, <1>2, <1>9, <2>2 DEF Settled
    <2>4. s.call = msg.call /\ s.role = msg.m /\ s.stage = "media"
        OBVIOUS
    <2> HIDE DEF s
    <2>5. g = {msg.call} /\ Settled(tab'[u], starts'[u], lit'[u])
        BY <1>2, <2>2, <2>3, <2>4 DEF Calling, Settled
    <2>6. down'[u] = Tail(d)
        BY <1>1, <1>9
    <2>7. InTune(u)' /\ (Joined(u)' => Joined(u))
        BY <1>1, <1>9, <2>5, <2>6, HeardKeepsTune
    <2>8. Initiates(u) => Initiates(u)'
        <3>1. In(d, "initiate", call) => In(Tail(d), "initiate", call) \/ (msg.m = "initiate" /\ msg.call = call)
            BY <1>0, <1>1, InRest
        <3>2. QED
            BY <1>1, <2>2, <2>3, <2>4, <2>6, <3>1, TalkPrimed DEF Initiates
    <2>9. OfferIsNear(u) => OfferIsNear(u)'
        <3>1. OfferIn(d, call) => OfferIn(Tail(d), call)
            BY <1>0, <1>1, <1>9, OfferHeard DEF Begins
        <3>2. QED
            BY <1>1, <2>2, <2>6, <3>1, TalkPrimed DEF OfferIsNear
    <2>10. TalkKept(u)
        BY <1>9, <2>2, <2>7, <2>8, <2>9 DEF TalkKept
    <2>11. QED
        BY <2>7, <2>10
<1>10. CASE on /\ msg.m = "end" /\ Cleanup(u, tab[u]) /\ up' = up
    <2>1. starts'[u] = {} /\ lit'[u] = {} /\ tab'[u].media = 0
        BY <1>0, <1>10, CleanupEnds
    <2>2. tab'[u].state = "idle" /\ tab'[u].pc = 0
        BY <1>0, <1>10 DEF Cleanup, Tab
    <2>3. g = {} /\ Settled(tab'[u], starts'[u], lit'[u]) /\ msg.m \in Ends /\ msg.m \notin Begins
        BY <1>10, <2>1, <2>2 DEF Calling, Settled, Ends, Begins
    <2>4. down'[u] = Tail(d)
        BY <1>1, <1>10
    <2>5. InTune(u)' /\ (Joined(u)' <=> call \in Begun(Tail(d)) \cup g) /\ (Joined(u)' => Joined(u))
        BY <1>1, <1>10, <2>3, <2>4, HeardKeepsTune
    <2>6. ASSUME call # 0, Joined(u)'
          PROVE  /\ tab[u].pc # call
                 /\ Initiates(u) => Initiates(u)'
                 /\ OfferIsNear(u) => OfferIsNear(u)'
        <3>1. call \in Begun(d)
            BY <1>0, <1>1, <2>3, <2>5, <2>6, BegunHeard
        <3>2. call \notin h
            BY <3>1 DEF Course, EndedIsOver
        <3>3. tab[u].pc # call
            <4>1. starts[u] = {} => h = {tab[u].media} \ {0} /\ tab[u].pc = tab[u].media
                BY HoldsOne
            <4>2. starts[u] # {} => tab[u].pc = 0
                BY HoldsOne
            <4>3. QED
                BY <2>6, <3>2, <4>1, <4>2
        <3>4. \A s \in starts[u] : s.call # call
            BY <3>2 DEF Holds, Calling
        <3>5. In(d, "initiate", call) => In(Tail(d), "initiate", call)
            BY <1>0, <1>1, <1>10, InRest
        <3>6. Initiates(u) => Initiates(u)'
            BY <1>1, <2>4, <3>4, <3>5, TalkPrimed DEF Initiates
        <3>7. OfferIn(d, call) => OfferIn(Tail(d), call)
            BY <1>0, <1>1, <1>10, OfferHeard
        <3>8. OfferIsNear(u) => OfferIsNear(u)'
            BY <1>1, <2>4, <3>2, <3>7, TalkPrimed DEF OfferIsNear
        <3>9. QED
            BY <3>3, <3>6, <3>8
    <2>7. TalkKept(u)
        BY <1>10, <2>5, <2>6 DEF TalkKept
    <2>8. QED
        BY <2>5, <2>7
<1>11. msg.m \notin {"left", "gone"}
    <2>1. 1 \in DOMAIN d /\ msg = d[1]
        BY <1>0, <1>1, TailIsShifted
    <2>2. QED
        BY <2>1 DEF RoomIsKnown, Farewell, Has
<1>12. CASE on /\ msg.m = "asked" /\ UNCHANGED <<starts, lit, up>>
            /\ tab' = [tab EXCEPT ![u] = [tab[u] EXCEPT !.state = "requesting"]]
    BY <1>6, <1>12 DEF Replies
<1>13. CASE on /\ msg.m = "reject" /\ UNCHANGED <<starts, lit, up>>
            /\ tab' = [tab EXCEPT ![u] = [tab[u] EXCEPT !.state = "idle"]]
    BY <1>6, <1>13 DEF Replies
<1>14. CASE on /\ msg.m \in {"initiate", "start"}
            /\ starts' = [starts EXCEPT ![u] = @ \cup {[call |-> msg.call, role |-> msg.m, stage |-> "media"]}]
            /\ UNCHANGED <<tab, lit, up>>
    BY <1>9, <1>14 DEF Begins
<1>15. QED
    BY <1>3, <1>5, <1>7, <1>8, <1>10, <1>11, <1>12, <1>13, <1>14 DEF Deliver

\* Who leaves the chat says so.
LEMMA TabTellsSeat ==
    ASSUME CallInv, NEW u \in Users, TabStep(u), RoomIsKnown(u), SeatIsTold(u)
    PROVE  SeatIsTold(u)'
<1>0. /\ TypeOK /\ tab \in [Users -> Tab] /\ tab[u] \in Tab /\ down[u] \in Seq(Msg) /\ starts[u] \subseteq Start
      /\ up \in [Users -> Seq(Msg)] /\ live \subseteq linked
    BY DEF CallInv, TypeOK
<1>1. ASSUME UNCHANGED <<open, live, up>>, tab'[u].chat = tab[u].chat \/ open = "no" PROVE SeatIsTold(u)'
    BY <1>1, SeatIsToldPrimed DEF SeatIsTold
<1>2. ASSUME UNCHANGED <<open, live, linked>>, NEW m \in Msg, Sends(u, <<m>>), m.m # "rejoin",
             tab'[u].chat = tab[u].chat \/ m.m = "skip"
      PROVE  SeatIsTold(u)'
    <2> DEFINE msgs == <<m>>
    <2>1. msgs \in Seq(Msg) /\ ~Has(msgs, "rejoin") /\ (m.m = "skip" => Has(msgs, "skip")) /\ Sends(u, msgs)
        BY <1>2 DEF Has
    <2> HIDE DEF msgs
    <2>2. QED
        BY <1>2, <2>1, SayingTellsSeat
<1>3. CASE \/ ClickRequest(u) \/ ClickRespond(u, TRUE) \/ ClickRespond(u, FALSE)
           \/ Confirm(u) \/ CancelExplainer(u)
    <2>1. UNCHANGED <<open, live, linked>>
        BY <1>3 DEF ClickRequest, ClickRespond, Confirm, CancelExplainer, server, net
    <2>2. tab'[u].chat = tab[u].chat
        BY <1>0, <1>3 DEF ClickRequest, ClickRespond, Confirm, CancelExplainer, Tab
    <2>3. up' = up \/ \E m \in {"request", "accept", "reject"} : Sends(u, <<M(m)>>)
        <3>1. CASE ClickRequest(u)
            BY <3>1 DEF ClickRequest, Ask
        <3>2. ASSUME NEW accept \in BOOLEAN, ClickRespond(u, accept)
              PROVE  up' = up \/ \E m \in {"request", "accept", "reject"} : Sends(u, <<M(m)>>)
            BY <3>2 DEF ClickRespond, Accept
        <3>3. CASE Confirm(u)
            BY <3>3 DEF Confirm, Ask, Accept
        <3>4. CASE CancelExplainer(u)
            BY <3>4 DEF CancelExplainer, net
        <3>5. QED
            BY <1>3, <3>1, <3>2, <3>3, <3>4
    <2>4. \A m \in {"request", "accept", "reject"} : M(m) \in Msg /\ M(m).m # "rejoin"
        BY NotesFit DEF M
    <2>5. QED
        BY <1>1, <1>2, <2>1, <2>2, <2>3, <2>4
<1>4. CASE ClickEnd(u)
    <2>1. UNCHANGED <<open, live, linked>> /\ Cleanup(u, tab[u]) /\ Sends(u, <<[m |-> "end", call |-> tab[u].media]>>)
        BY <1>4 DEF ClickEnd, server
    <2>2. tab'[u].chat = tab[u].chat
        BY <1>0, <2>1 DEF Cleanup, Tab
    <2>3. [m |-> "end", call |-> tab[u].media] \in Msg
        BY <1>0 DEF Msg, Tab
    <2>4. QED
        BY <1>2, <2>1, <2>2, <2>3
<1>5. CASE ClickSkip(u)
    <2>1. UNCHANGED <<open, live, linked>> /\ Sends(u, <<M("skip")>>)
        BY <1>5 DEF ClickSkip, server
    <2>2. M("skip") \in Msg /\ M("skip").m = "skip"
        BY BoundsAreNumbers DEF M, Msg
    <2>3. QED
        BY <1>2, <2>1, <2>2
<1>6. CASE StartFails(u)
    <2>1. PICK s \in starts[u] : Cleanup(u, tab[u]) /\ Sends(u, <<[m |-> "end", call |-> s.call]>>)
        BY <1>6 DEF StartFails
    <2>2. UNCHANGED <<open, live, linked>>
        BY <1>6 DEF StartFails, server
    <2>3. tab'[u].chat = tab[u].chat
        BY <1>0, <2>1 DEF Cleanup, Tab
    <2>4. [m |-> "end", call |-> s.call] \in Msg
        BY <1>0, BoundsAreNumbers DEF Msg, Start, Calls
    <2>5. QED
        BY <1>2, <2>1, <2>2, <2>3, <2>4
<1>7. CASE MediaReady(u)
    <2>1. PICK s \in starts[u] :
              tab' = [tab EXCEPT ![u].media = s.call,
                                 ![u].state = IF tab[u].chat = "on" THEN "active" ELSE @]
        BY <1>7 DEF MediaReady
    <2>2. tab'[u].chat = tab[u].chat /\ UNCHANGED <<open, live, up>>
        BY <1>0, <1>7, <2>1 DEF MediaReady, server, net, Tab
    <2>3. QED
        BY <1>1, <2>2
<1>8. CASE CallReady(u)
    <2>1. PICK s \in starts[u] :
              /\ tab' = [tab EXCEPT ![u].pc = s.call, ![u].pending = <<>>, ![u].heard = Hears(s.call, tab[u].pending)]
              /\ Sends(u, Offers(s) \o Answers(s.call, tab[u].pending))
        BY <1>8 DEF CallReady
    <2>2. tab'[u].chat = tab[u].chat /\ UNCHANGED <<open, live, linked>>
        BY <1>0, <1>8, <2>1 DEF CallReady, server, Tab
    <2> DEFINE off == Offers(s)
               ans == Answers(s.call, tab[u].pending)
               msgs == off \o ans
    <2>3. s \in Start /\ s.call \in 0..MaxRequests /\ tab[u].pending \in Seq(Signals)
        BY <1>0, BoundsAreNumbers DEF Start, Calls, Tab
    <2>4. /\ off \in Seq(Msg) /\ ans \in Seq(Msg)
          /\ \A i \in DOMAIN off : off[i].m = "offer"
          /\ \A i \in DOMAIN ans : ans[i].m = "answer"
        <3>1. off \in Seq(Msg) /\ \A i \in DOMAIN off : off[i] = [m |-> "offer", call |-> s.call]
            BY <2>3, OffersFit
        <3>2. ans \in Seq(Msg) /\ \A i \in DOMAIN ans : ans[i] = [m |-> "answer", call |-> s.call]
            BY <2>3, AnswersFit
        <3>3. QED
            BY <3>1, <3>2
    <2>5. Sends(u, msgs)
        BY <2>1
    <2> HIDE DEF off, ans
    <2>6. msgs \in Seq(Msg) /\ \A i \in DOMAIN msgs : msgs[i].m \in {"offer", "answer"}
        BY <2>4
    <2> HIDE DEF msgs
    <2>7. ~Has(msgs, "rejoin")
        BY <2>6 DEF Has
    <2>8. QED
        BY <2>2, <2>5, <2>6, <2>7, SayingTellsSeat
<1>9. CASE Deliver(u)
    <2> DEFINE msg == Head(down[u])
    <2>1. UNCHANGED <<open, live, linked>> /\ down[u] # <<>>
        BY <1>9 DEF Deliver, server
    <2>2. CASE msg.m \in {"left", "gone"} /\ Leave(u) /\ up' = up
        <3>1. 1 \in DOMAIN down[u] /\ msg = down[u][1]
            BY <1>0, <2>1, TailIsShifted
        <3>2. open = "no"
            BY <2>2, <3>1 DEF RoomIsKnown, Farewell, Has
        <3>3. QED
            BY <1>1, <2>1, <2>2, <3>2
    <2>3. CASE /\ msg \in Signals
               /\ tab' = [tab EXCEPT ![u].heard = IF msg.call = tab[u].pc THEN "yes" ELSE @]
               /\ Sends(u, Answers(tab[u].pc, <<msg>>))
        <3>1. tab'[u].chat = tab[u].chat
            BY <1>0, <2>3 DEF Tab
        <3>2. <<msg>> \in Seq(Signals) /\ tab[u].pc \in 0..MaxRequests
            BY <1>0, <2>3 DEF Tab
        <3> DEFINE msgs == Answers(tab[u].pc, <<msg>>)
        <3>3. msgs \in Seq(Msg) /\ \A i \in DOMAIN msgs : msgs[i] = [m |-> "answer", call |-> tab[u].pc]
            BY <3>2, AnswersFit
        <3>4. Sends(u, msgs)
            BY <2>3
        <3> HIDE DEF msgs
        <3>5. ~Has(msgs, "rejoin")
            BY <3>3 DEF Has
        <3>6. QED
            BY <2>1, <3>1, <3>3, <3>4, <3>5, SayingTellsSeat
    <2>4. CASE Cleanup(u, tab[u]) /\ up' = up
        <3>1. tab'[u].chat = tab[u].chat
            BY <1>0, <2>4 DEF Cleanup, Tab
        <3>2. QED
            BY <1>1, <2>1, <2>4, <3>1
    <2>5. CASE UNCHANGED <<tab, up>>
        BY <1>1, <2>1, <2>5
    <2>6. ASSUME up' = up,
                 \/ tab' = [tab EXCEPT ![u] = tab[u]]
                 \/ tab' = [tab EXCEPT ![u] = [tab[u] EXCEPT !.incoming = "yes"]]
                 \/ tab' = [tab EXCEPT ![u] = [tab[u] EXCEPT !.state = "requesting"]]
                 \/ tab' = [tab EXCEPT ![u] = [tab[u] EXCEPT !.state = "idle"]]
                 \/ tab' = [tab EXCEPT ![u] = [tab[u] EXCEPT !.pending = Append(@, msg)]]
          PROVE  SeatIsTold(u)'
        <3>1. tab'[u].chat = tab[u].chat
            BY <1>0, <2>6 DEF Tab
        <3>2. QED
            BY <1>1, <2>1, <2>6, <3>1
    <2>7. QED
        BY <1>9, <2>2, <2>3, <2>4, <2>5, <2>6 DEF Deliver
<1>10. CASE Break(u)
    <2>1. up'[u] = <<>> /\ u \notin live'
        BY <1>0, <1>10 DEF Break
    <2>2. QED
        BY <2>1, SeatIsToldPrimed DEF Has
<1>11. CASE Reconnect(u)
    <2>1. /\ UNCHANGED <<open, live, tab>> /\ u \notin live
          /\ up'[u] = IF tab[u].chat = "on" THEN <<M("rejoin")>> ELSE <<>>
        BY <1>0, <1>11 DEF Reconnect, server, tabs
    <2>2. \A i \in DOMAIN up'[u] : i = 1
        BY <2>1
    <2>3. tab[u].chat = "off" => ~Has(up'[u], "rejoin")
        BY <2>1 DEF Has
    <2>4. QED
        BY <2>1, <2>2, <2>3, SeatIsToldPrimed
<1>12. QED
    BY <1>3, <1>4, <1>5, <1>6, <1>7, <1>8, <1>9, <1>10, <1>11 DEF TabStep

\* A tab on its own.
LEMMA TabKeepsTune ==
    ASSUME CallInv, NEW u \in Users, TabStep(u), Course(u), InTune(u), RoomIsKnown(u), SeatIsTold(u),
           open = "yes", u \notin marred'
    PROVE  InTune(u)' /\ TalkKept(u) /\ live' \subseteq live
<1>0. /\ tab \in [Users -> Tab] /\ tab[u] \in Tab /\ live \subseteq linked
      /\ {M("request"), M("accept"), M("reject")} \subseteq Msg
    BY NotesFit DEF CallInv, TypeOK
<1>1. live' \subseteq live
    BY DEF TabStep, ClickRequest, ClickRespond, Confirm, CancelExplainer, ClickEnd, ClickSkip, MediaReady,
           CallReady, StartFails, Deliver, Break, Reconnect, server
<1>2. CASE \/ ClickRequest(u) \/ ClickRespond(u, TRUE) \/ ClickRespond(u, FALSE)
           \/ Confirm(u) \/ CancelExplainer(u) \/ Reconnect(u)
    <2>1. UNCHANGED <<call, down, starts, lit>>
        BY <1>2 DEF ClickRequest, ClickRespond, Confirm, CancelExplainer, Reconnect, server, net, tabs
    <2>2. /\ tab'[u].state = tab[u].state /\ tab'[u].media = tab[u].media /\ tab'[u].pc = tab[u].pc
          /\ tab'[u].heard = tab[u].heard /\ tab'[u].pending = tab[u].pending
        BY <1>0, <1>2 DEF ClickRequest, ClickRespond, Confirm, CancelExplainer, Reconnect, tabs, Tab
    <2>3. u \notin live' \/ up' = up \/ \E m \in {"request", "accept", "reject"} : Sends(u, <<M(m)>>)
        <3>1. CASE ClickRequest(u)
            BY <3>1 DEF ClickRequest, Ask
        <3>2. ASSUME NEW accept \in BOOLEAN, ClickRespond(u, accept)
              PROVE  up' = up \/ \E m \in {"request", "accept", "reject"} : Sends(u, <<M(m)>>)
            BY <3>2 DEF ClickRespond, Accept
        <3>3. CASE Confirm(u)
            BY <3>3 DEF Confirm, Ask, Accept
        <3>4. CASE CancelExplainer(u)
            BY <3>4 DEF CancelExplainer, net
        <3>5. CASE Reconnect(u)
            BY <1>0, <1>1, <3>5 DEF Reconnect
        <3>6. QED
            BY <1>2, <3>1, <3>2, <3>3, <3>4, <3>5
    <2>4. \A m \in {"request", "accept", "reject"} : <<M(m)>> \in Seq(Msg)
        BY <1>0
    <2>5. u \notin live' \/ up' = up \/ \E msgs \in Seq(Msg) : Sends(u, msgs)
        BY <2>3, <2>4
    <2>6. QED
        BY <1>1, <2>1, <2>2, <2>5, UntouchedKeepsTune
<1>3. CASE ClickEnd(u) \/ ClickSkip(u) \/ StartFails(u)
    BY <1>1, <1>3, EndingKeepsTune
<1>4. CASE MediaReady(u)
    BY <1>1, <1>4, MediaKeepsTune
<1>5. CASE CallReady(u)
    BY <1>1, <1>5, CallReadyKeepsTune
<1>6. CASE Deliver(u)
    BY <1>1, <1>6, DeliverKeepsTune
<1>7. CASE Break(u)
    BY <1>1, <1>7, BreakKeepsTune
<1>8. QED
    BY <1>2, <1>3, <1>4, <1>5, <1>6, <1>7 DEF TabStep

-----------------------------------------------------------------------------
(* All together.                                                           *)

LEMMA SharedInvPrimed ==
    SharedInv' <=> /\ \A v \in Users : SeatIsTold(v)'
                   /\ open' = "yes" /\ marred' = {} => (\A v \in Users : InTune(v)') /\ Talk'
BY DEF SharedInv

LEMMA SharedInvInitially == Init => SharedInv
<1> SUFFICES ASSUME Init PROVE SharedInv
    OBVIOUS
<1>1. ASSUME NEW u \in Users PROVE SeatIsTold(u) /\ InTune(u)
    <2>1. /\ up[u] = <<>> /\ down[u] = <<>> /\ starts[u] = {} /\ lit[u] = {} /\ call = 0 /\ tab[u] = Fresh
        BY <1>1 DEF Init
    <2>2. SeatIsTold(u)
        BY <2>1 DEF SeatIsTold, Fresh
    <2>3. Settled(tab[u], starts[u], lit[u])
        BY <2>1 DEF Settled, Fresh
    <2>4. RepliesAlternate(Holds(u), <<>>)
        BY DEF RepliesAlternate
    <2>5. QED
        BY <2>1, <2>2, <2>3, <2>4 DEF InTune
<1>2. Talk
    BY DEF Init, Talk
<1>3. QED
    BY <1>1, <1>2 DEF SharedInv

LEMMA SharedInvStep ==
    ASSUME CallInv, CourseInv, SharedInv, [Next]_vars
    PROVE  SharedInv'
<1>0. /\ RequestsWait /\ TypeOK /\ live \subseteq Users
      /\ \A v \in Users : RoomIsKnown(v) /\ SeatIsTold(v)
    BY DEF CallInv, TypeOK, CourseInv, SharedInv
<1>1. CASE UNCHANGED vars
    <2>1. UNCHANGED <<open, live, req, call, linked, up, down, tab, starts, lit, calls, marred>>
        BY <1>1 DEF vars, server, net, tabs
    <2>2. QED
        BY <2>1 DEF SharedInv, SeatIsTold, InTune, Talk, Joined, Initiates, Offered, OfferIsNear, AnswerComes, Holds
<1>2. CASE Next
    <2>1. marred \subseteq marred'
        BY <1>2, MarredStay
    <2>2. open = "yes" /\ marred' = {} => /\ \A v \in Users : InTune(v) /\ Course(v)
                                          /\ Talk
        BY <2>1 DEF SharedInv, CourseInv
    <2>3. CASE RoomEnds
        <3>1. open' = "no"
            BY <2>3 DEF RoomEnds, Close
        <3>2. \A v \in Users : SeatIsTold(v)'
            BY <1>0, <2>3, RoomEndsTellsSeat
        <3>3. QED
            BY <3>1, <3>2, SharedInvPrimed
    <2>4. ASSUME NEW u \in Users, Handle(u) PROVE SharedInv'
        <3>1. \A v \in Users : SeatIsTold(v)'
            BY <1>0, <2>4, HandleTellsSeat
        <3>2. open' = "yes" => open = "yes"
            BY <1>0, <2>4, HandleShapes
        <3>3. ASSUME open' = "yes", marred' = {} PROVE (\A v \in Users : InTune(v)') /\ Talk'
            <4>1. \A v \in Users : InTune(v)'
                BY <1>0, <2>2, <2>4, <3>2, <3>3, HandleKeepsTune
            <4>2. Talk'
                BY <1>0, <2>2, <2>4, <3>2, <3>3, HandleKeepsTalk
            <4>3. QED
                BY <4>1, <4>2
        <3>4. QED
            BY <3>1, <3>3, SharedInvPrimed
    <2>5. ASSUME NEW u \in Users, TabStep(u) PROVE SharedInv'
        <3>1. \A v \in Users : v # u => Elsewhere(v)
            BY <1>0, <2>5, TabStepIsLocal
        <3>2. \A v \in Users : SeatIsTold(v)'
            BY <1>0, <2>5, <3>1, TabTellsSeat, ElsewhereTellsSeat
        <3>3. UNCHANGED <<open, call>>
            BY <3>1, TwoMembers DEF Elsewhere
        <3>4. ASSUME open' = "yes", marred' = {} PROVE (\A v \in Users : InTune(v)') /\ Talk'
            <4>1. InTune(u)' /\ TalkKept(u) /\ live' \subseteq live
                BY <1>0, <2>2, <2>5, <3>3, <3>4, TabKeepsTune
            <4>2. \A v \in Users : InTune(v)'
                BY <2>2, <3>1, <3>3, <3>4, <4>1, ElsewhereKeepsTune
            <4>3. Talk'
                BY <1>0, <2>2, <3>1, <3>3, <3>4, <4>1, TabKeepsTalk
            <4>4. QED
                BY <4>2, <4>3
        <3>5. QED
            BY <3>2, <3>4, SharedInvPrimed
    <2>6. QED
        BY <1>2, <2>3, <2>4, <2>5 DEF Next, TabStep
<1>3. QED
    BY <1>1, <1>2

\* While a room is open and every end reached every tab: the call of the server is
\* on, or starting, or about to begin in each tab, unless that tab has sent its
\* end or a skip, and of two tabs that have it one will offer, has offered, or is
\* being answered, however starts, failures and reconnects cross
\* (useVideo.js:35-80, index.js:262-330).
THEOREM CallsAreCarried == Spec => []SharedInv
<1>1. Init => SharedInv
    BY SharedInvInitially
<1>2. CallInv /\ CourseInv /\ SharedInv /\ [Next]_vars => SharedInv'
    BY SharedInvStep
<1>3. QED
    BY <1>1, <1>2, CallInvAlways, CallsTakeTheirCourse, PTL DEF Spec

\* Once all is quiet, what is on its way is nothing, so the call is on in both.
LEMMA QuietCallIsShared == CallInv /\ CourseInv /\ SharedInv => CallIsShared
<1> SUFFICES ASSUME CallInv, CourseInv, SharedInv, Quiet, open = "yes", live = Users, marred = {}, NEW u \in Users
             PROVE  /\ tab[u].state = "active" <=> call # 0
                    /\ call # 0 => /\ tab[u].media = call /\ tab[u].pc = call
                                   /\ tab[u].heard = "yes"
    BY DEF CallIsShared
<1>1. \A v \in Users : up[v] = <<>> /\ down[v] = <<>> /\ starts[v] = {} /\ InTune(v) /\ Course(v)
    BY DEF Quiet, SharedInv, CourseInv
<1>2. \A m, c : ~In(<<>>, m, c) /\ ~Has(<<>>, m)
    BY DEF In, Has
<1>3. Begun(<<>>) = {} /\ ~Ended(<<>>, 1, Len(<<>>)) /\ \A c : ~OfferIn(<<>>, c)
    BY DEF Begun, Ended, OfferIn
<1>4. ASSUME NEW v \in Users
      PROVE  /\ tab[v].state = "active" <=> tab[v].media # 0
             /\ tab[v].media # 0 => tab[v].media = call
             /\ call # 0 => tab[v].media = call /\ Joined(v)
             /\ tab[v].pc = tab[v].media
    <2>1. /\ tab[v].state = "active" <=> tab[v].media # 0
          /\ tab[v].pc = tab[v].media
        BY <1>1 DEF InTune, Settled
    <2>2. Holds(v) = {tab[v].media} \ {0}
        BY <1>1, HoldsOne
    <2>3. tab[v].media # 0 => tab[v].media = call
        <3>1. Holds(v) # {} => Holds(v) = {call}
            BY <1>1, <1>3 DEF Course, LatestIsServers
        <3>2. QED
            BY <2>2, <3>1
    <2>4. call # 0 => Joined(v)
        BY <1>1, <1>2 DEF InTune
    <2>5. call # 0 => call \in Holds(v)
        BY <1>1, <1>3, <2>4 DEF Joined
    <2>6. QED
        BY <2>1, <2>2, <2>3, <2>4, <2>5
<1>5. tab[u].state = "active" <=> call # 0
    BY <1>4
<1>6. ASSUME call # 0 PROVE tab[u].heard = "yes"
    <2>1. Talk
        BY DEF SharedInv
    <2>2. PICK i \in Users : Initiates(i) \/ Offered(i, Partner(i))
        BY <1>4, <1>6, <2>1 DEF Talk
    <2>3. ~Initiates(i)
        BY <1>1, <1>2 DEF Initiates
    <2> DEFINE a == Partner(i)
    <2>4. a \in Users /\ a # i
        BY PartnerIsOther
    <2> HIDE DEF a
    <2>5. Offered(i, a)
        BY <2>2, <2>3 DEF a
    <2>6. ~In(up[i], "offer", call) /\ ~OfferIsNear(a)
        BY <1>1, <1>2, <1>3, <2>4 DEF OfferIsNear
    <2>7. tab[a].heard = "yes" /\ tab[i].heard = "yes"
        BY <1>1, <1>2, <2>4, <2>5, <2>6 DEF Offered, AnswerComes
    <2>8. u = a \/ u = i
        BY <2>4, TwoMembers
    <2>9. QED
        BY <2>7, <2>8
<1>7. QED
    BY <1>4, <1>5, <1>6

\* Once nothing is on its way and nothing starts, a call the server has is on in
\* both tabs, with the other's offer or answer, and no tab shows a call that the
\* server has not: for any number of clicks, lost connections and failures, while
\* no end of a call went astray (index.js:272, useVideo.js:54).
THEOREM CallIsAlwaysShared == Spec => []CallIsShared
<1>1. CallInv /\ CourseInv /\ SharedInv => CallIsShared
    BY QuietCallIsShared
<1>2. QED
    BY <1>1, CallInvAlways, CallsTakeTheirCourse, CallsAreCarried, PTL
================================================================================
