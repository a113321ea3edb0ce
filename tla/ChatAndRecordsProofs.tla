-------------------------- MODULE ChatAndRecordsProofs -------------------------
(***************************************************************************)
(* Proofs about what users write and what is kept of them.                 *)
(*                                                                         *)
(* ChatClient, for any number of calls, messages and breaks: no message is *)
(* lost unnoticed, nothing is shown early, nobody is left behind, and what *)
(* a tab shows is what the server holds.  ChatInv says what is on its way  *)
(* between a tab and the server; each of its parts is a predicate of one   *)
(* tab, TabFits, and the lemmas show what an event added, delivered or     *)
(* dropped does to it.  RailInv adds where what is on its way leads a tab  *)
(* (LeadsTo): to what the server holds now.                                *)
(*                                                                         *)
(* Records, for any people, ids, limits and retention times: totals,       *)
(* retention, erasure and shutdown.  What the properties need of a row     *)
(* depends on the day, the last night, and the ids that are and that were  *)
(* in use.  RowFits says it; the lemmas show that the operators on rows (a *)
(* row added, a flush, a relabelling, a purge) keep it, and what they do   *)
(* to the totals.                                                          *)
(***************************************************************************)
EXTENDS ChatClient, Records, FiniteSetTheorems, SequenceTheorems, TLAPS

-----------------------------------------------------------------------------
(* The invariant of ChatClient: what is on its way between a tab and the   *)
(* server.                                                                 *)

Has(d, e) == \E i \in DOMAIN d : d[i].event = e
HasCall(q, c) == \E i \in DOMAIN q : q[i].call = c
HasAnswer(d, r) == \E i \in DOMAIN d : d[i] = Ack(r)

\* Nothing is on its way without a connection, nor to a tab that has left.
WayFits(u) ==
    /\ u \notin linked => up[u] = <<>> /\ down[u] = <<>> /\ seat[u] # "live" /\ awaited[u] = "none"
    /\ u \notin inChat => down[u] = <<>> /\ awaited[u] = "none"

\* The call a tab waits for is the last on its way, or its answer is.
Unheeded(q) == \A i \in DOMAIN q : ~q[i].waited
LastAwaited(q, a) ==
    /\ q # <<>> /\ q[Len(q)] = [call |-> a, waited |-> TRUE]
    /\ \A i \in DOMAIN q : q[i].waited => i = Len(q)
OneAnswer(d) == \E i \in DOMAIN d : \A j \in DOMAIN d : d[j].event = "ack" <=> j = i
AnswerIsDue(d, q, a) ==
    \/ a = "none" /\ ~Has(d, "ack") /\ Unheeded(q)
    \/ a # "none" /\ ~Has(d, "ack") /\ LastAwaited(q, a)
    \/ a # "none" /\ OneAnswer(d) /\ Unheeded(q)

\* rejoin is the first call of a connection; one that leaves the chat says so
\* last; what was given up is remembered.
CallFits(u, c) ==
    /\ c.call \notin {"skip", "start_chat"}
    /\ c.call = "rejoin" => c.waited
    /\ ~c.waited => u \in missed /\ (c.call = "report" => shown[u].report # "none")
CallsFit(u) ==
    /\ \A i \in DOMAIN up[u] : up[u][i].call = "rejoin" => i = 1
    /\ u \in inChat => \A i \in DOMAIN up[u] : CallFits(u, up[u][i])

\* What is on its way is as it was sent, and true of the server.
EventFits(u, x, isOpen, votes, known, call) ==
    /\ x.event = "receive_message" => x = Note("receive_message")
    /\ x.event = "ack" => /\ x = Ack(x.result)
                          /\ call = "send_message" => x.result \in {"ok", "error"}
    /\ isOpen => /\ x.event = "enjoy_mutual" => votes = Users
                 /\ x.event = "revealed" => known
                 /\ x.event = "ack" /\ call = "enjoy" =>
                       /\ x.result = "mutual" => votes = Users
                       /\ x.result # "error" => u \in votes
EventsFit(u) == \A i \in DOMAIN down[u] :
    EventFits(u, down[u][i], open, enjoy, revealed, awaited[u])

\* Who is connected and has lost the seat asks for it, or is told it is gone.
SeatFits(u) ==
    u \in inChat \cap linked /\ seat[u] # "live" =>
        /\ awaited[u] = "rejoin"
        /\ HasCall(up[u], "rejoin") \/ (~open /\ HasAnswer(down[u], "error"))

\* Who left takes the room along.
LeftFits(u) ==
    open /\ u \notin inChat /\ (seat[u] = "live" \/ HasCall(up[u], "rejoin")) =>
        u \in refused \/ HasCall(up[u], "start_chat")

\* Who stays hears of its end.
StaysFits(u) ==
    ~open /\ u \in inChat \cap linked =>
        \/ shown[u].report # "none" \/ Has(down[u], "partner_left")
        \/ awaited[u] = "report" /\ HasAnswer(down[u], "ok")
        \/ awaited[u] = "rejoin" /\ (HasCall(up[u], "rejoin") \/ HasAnswer(down[u], "error"))

\* What is shown the server has.
ShownFits(u) ==
    open /\ u \in inChat =>
        /\ shown[u].enjoy = "mutual" => enjoy = Users
        /\ shown[u].enjoy = "sent" => u \in enjoy
        /\ shown[u].friend = "friends" => revealed

TabFits(u) ==
    /\ WayFits(u) /\ CallsFit(u) /\ EventsFit(u) /\ SeatFits(u)
    /\ u \in inChat => AnswerIsDue(down[u], up[u], awaited[u])
    /\ LeftFits(u) /\ StaysFits(u) /\ ShownFits(u)

ChatInv == ChatTypeOK /\ (\A u \in Users : TabFits(u)) /\ TextsAgree

-----------------------------------------------------------------------------
(* Queues.                                                                 *)

LEMMA Members ==
    ASSUME NEW u \in Users
    PROVE  Partner(u) \in Users /\ Partner(u) # u /\ Users = {u, Partner(u)}
<1>1. PICK a, b \in Users : a # b /\ Users = {a, b}
    BY PairAssumption
<1>2. \E v \in Users : v # u
    BY <1>1
<1>3. Partner(u) \in Users /\ Partner(u) # u
    BY <1>2 DEF Partner, PartnerOf
<1>4. QED
    BY <1>1, <1>3

\* The items of two sequences joined, and of one without its head.
LEMMA ItemsJoined ==
    ASSUME NEW S, NEW s \in Seq(S), NEW t \in Seq(S)
    PROVE  /\ s \o t \in Seq(S)
           /\ \A i \in DOMAIN s : i \in DOMAIN (s \o t) /\ (s \o t)[i] = s[i]
           /\ \A i \in DOMAIN t : Len(s) + i \in DOMAIN (s \o t) /\ (s \o t)[Len(s) + i] = t[i]
           /\ \A i \in DOMAIN (s \o t) :
                 \/ i \in DOMAIN s /\ (s \o t)[i] = s[i]
                 \/ i - Len(s) \in DOMAIN t /\ (s \o t)[i] = t[i - Len(s)]
OBVIOUS

LEMMA ItemsLeft ==
    ASSUME NEW S, NEW s \in Seq(S), s # <<>>
    PROVE  /\ Tail(s) \in Seq(S) /\ Head(s) \in S
           /\ 1 \in DOMAIN s /\ Head(s) = s[1] /\ Len(s) \in DOMAIN s
           /\ \A i \in DOMAIN Tail(s) : i + 1 \in DOMAIN s /\ Tail(s)[i] = s[i + 1]
           /\ \A i \in DOMAIN s : i # 1 => i - 1 \in DOMAIN Tail(s) /\ Tail(s)[i - 1] = s[i]
OBVIOUS

\* What is in a queue that grows, or loses its head.
LEMMA HasJoined ==
    ASSUME NEW S, NEW s \in Seq(S), NEW t \in Seq(S)
    PROVE  /\ \A e : Has(s \o t, e) <=> Has(s, e) \/ Has(t, e)
           /\ \A c : HasCall(s \o t, c) <=> HasCall(s, c) \/ HasCall(t, c)
           /\ \A r : HasAnswer(s \o t, r) <=> HasAnswer(s, r) \/ HasAnswer(t, r)
<1>1. /\ \A i \in DOMAIN s : i \in DOMAIN (s \o t) /\ (s \o t)[i] = s[i]
      /\ \A i \in DOMAIN t : Len(s) + i \in DOMAIN (s \o t) /\ (s \o t)[Len(s) + i] = t[i]
      /\ \A i \in DOMAIN (s \o t) :
            \/ i \in DOMAIN s /\ (s \o t)[i] = s[i]
            \/ i - Len(s) \in DOMAIN t /\ (s \o t)[i] = t[i - Len(s)]
    BY ItemsJoined
<1> DEFINE j == s \o t
<1> HIDE DEF j
<1>2. /\ \A i \in DOMAIN s : \E k \in DOMAIN j : j[k] = s[i]
      /\ \A i \in DOMAIN t : \E k \in DOMAIN j : j[k] = t[i]
      /\ \A i \in DOMAIN j : (\E k \in DOMAIN s : j[i] = s[k]) \/ (\E k \in DOMAIN t : j[i] = t[k])
    BY <1>1, Zenon DEF j
<1>3. \A e : Has(j, e) <=> Has(s, e) \/ Has(t, e)
    BY <1>2 DEF Has
<1>4. \A c : HasCall(j, c) <=> HasCall(s, c) \/ HasCall(t, c)
    BY <1>2 DEF HasCall
<1>5. \A r : HasAnswer(j, r) <=> HasAnswer(s, r) \/ HasAnswer(t, r)
    BY <1>2 DEF HasAnswer
<1>6. QED
    BY <1>3, <1>4, <1>5 DEF j

LEMMA HasLeft ==
    ASSUME NEW S, NEW s \in Seq(S), s # <<>>
    PROVE  /\ \A e : Has(s, e) <=> Head(s).event = e \/ Has(Tail(s), e)
           /\ \A c : HasCall(s, c) <=> Head(s).call = c \/ HasCall(Tail(s), c)
           /\ \A r : HasAnswer(s, r) <=> Head(s) = Ack(r) \/ HasAnswer(Tail(s), r)
<1> DEFINE h == Head(s)
           t == Tail(s)
<1>1. /\ 1 \in DOMAIN s /\ h = s[1]
      /\ \A i \in DOMAIN t : i + 1 \in DOMAIN s /\ t[i] = s[i + 1]
      /\ \A i \in DOMAIN s : i # 1 => i - 1 \in DOMAIN t /\ t[i - 1] = s[i]
    BY ItemsLeft
<1> HIDE DEF h, t
<1>2. /\ \A i \in DOMAIN t : \E k \in DOMAIN s : t[i] = s[k]
      /\ \A i \in DOMAIN s : s[i] = h \/ \E k \in DOMAIN t : s[i] = t[k]
      /\ \E k \in DOMAIN s : s[k] = h
    BY <1>1, Zenon
<1>3. \A e : Has(s, e) <=> h.event = e \/ Has(t, e)
    BY <1>2, ZenonT(40) DEF Has
<1>4. \A c : HasCall(s, c) <=> h.call = c \/ HasCall(t, c)
    BY <1>2, ZenonT(40) DEF HasCall
<1>5. \A r : HasAnswer(s, r) <=> h = Ack(r) \/ HasAnswer(t, r)
    BY <1>2, ZenonT(40) DEF HasAnswer
<1>6. QED
    BY <1>3, <1>4, <1>5 DEF h, t

\* What is in short queues.
LEMMA HasFew ==
    ASSUME NEW x
    PROVE  /\ \A e : ~Has(<<>>, e) /\ (Has(<<x>>, e) <=> x.event = e)
           /\ \A c : ~HasCall(<<>>, c) /\ (HasCall(<<x>>, c) <=> x.call = c)
           /\ \A r : ~HasAnswer(<<>>, r) /\ (HasAnswer(<<x>>, r) <=> x = Ack(r))
BY DEF Has, HasCall, HasAnswer

\* The calls one click makes.
LEMMA CallsMade ==
    ASSUME NEW calls \in Seq(Calls)
    PROVE  LET made == [i \in DOMAIN calls |-> [call |-> calls[i], waited |-> TRUE]]
           IN  /\ made \in Seq(Call) /\ Len(made) = Len(calls) /\ DOMAIN made = DOMAIN calls
               /\ \A i \in DOMAIN calls : made[i] = [call |-> calls[i], waited |-> TRUE]
<1> DEFINE made == [i \in DOMAIN calls |-> [call |-> calls[i], waited |-> TRUE]]
<1>1. \A i \in DOMAIN calls : [call |-> calls[i], waited |-> TRUE] \in Call
    BY DEF Call
<1>2. made \in [1..Len(calls) -> Call] /\ Len(calls) \in Nat
    BY <1>1
<1>3. made \in Seq(Call)
    BY <1>2
<1>4. Len(made) = Len(calls)
    BY <1>2, <1>3
<1>5. QED
    BY <1>3, <1>4

LEMMA OneCallMade ==
    ASSUME NEW call \in Calls
    PROVE  [i \in DOMAIN <<call>> |-> [call |-> <<call>>[i], waited |-> TRUE]]
               = <<[call |-> call, waited |-> TRUE]>>
<1> DEFINE calls == <<call>>
           made == [i \in DOMAIN calls |-> [call |-> calls[i], waited |-> TRUE]]
           c == [call |-> call, waited |-> TRUE]
<1>1. calls \in Seq(Calls) /\ Len(calls) = 1 /\ calls[1] = call /\ 1 \in DOMAIN calls
    OBVIOUS
<1>2. made \in Seq(Call) /\ Len(made) = Len(calls) /\ \A i \in DOMAIN calls : made[i] = [call |-> calls[i], waited |-> TRUE]
    <2> HIDE DEF calls
    <2>1. QED
        BY <1>1, CallsMade
<1>3. made[1] = c /\ Len(made) = 1
    BY <1>1, <1>2
<1>4. made = <<c>>
    <2> HIDE DEF made, c
    <2>1. c \in Call
        BY DEF c, Call
    <2>2. QED
        BY <1>2, <1>3, <2>1
<1>5. QED
    BY <1>4


-----------------------------------------------------------------------------
(* The answer a tab waits for.                                             *)

LEMMA DueTold ==
    ASSUME NEW d \in Seq(Event), NEW m \in Seq(Event), NEW q, NEW a,
           AnswerIsDue(d, q, a), ~Has(m, "ack")
    PROVE  AnswerIsDue(d \o m, q, a)
<1>1. Has(d \o m, "ack") <=> Has(d, "ack")
    BY HasJoined
<1>2. OneAnswer(d) => OneAnswer(d \o m)
    <2> SUFFICES ASSUME OneAnswer(d) PROVE OneAnswer(d \o m)
        OBVIOUS
    <2>1. PICK i \in DOMAIN d : \A j \in DOMAIN d : d[j].event = "ack" <=> j = i
        BY DEF OneAnswer
    <2>2. /\ i \in DOMAIN (d \o m)
          /\ \A j \in DOMAIN (d \o m) :
                \/ j \in DOMAIN d /\ (d \o m)[j] = d[j]
                \/ j - Len(d) \in DOMAIN m /\ (d \o m)[j] = m[j - Len(d)] /\ j \notin DOMAIN d
        OBVIOUS
    <2>3. \A j \in DOMAIN (d \o m) : (d \o m)[j].event = "ack" <=> j = i
        BY <2>1, <2>2 DEF Has
    <2>4. QED
        BY <2>2, <2>3 DEF OneAnswer
<1>3. QED
    BY <1>1, <1>2 DEF AnswerIsDue

\* The answer is put on its way when the call is handled.
LEMMA DueHandled ==
    ASSUME NEW d \in Seq(Event), NEW q \in Seq(Call), q # <<>>, NEW a,
           AnswerIsDue(d, q, a), NEW x \in Event, x.event = "ack"
    PROVE  /\ Head(q).waited =>
                 /\ a # "none" /\ a = Head(q).call /\ Tail(q) = <<>>
                 /\ ~Has(d, "ack") /\ AnswerIsDue(d \o <<x>>, Tail(q), a)
           /\ ~Head(q).waited => AnswerIsDue(d, Tail(q), a)
<1>1. /\ Tail(q) \in Seq(Call) /\ Head(q) = q[1] /\ 1 \in DOMAIN q /\ Len(q) \in Nat /\ Len(q) >= 1
      /\ Len(Tail(q)) = Len(q) - 1
      /\ \A i \in DOMAIN Tail(q) : i + 1 \in DOMAIN q /\ Tail(q)[i] = q[i + 1]
    OBVIOUS
<1>2. Unheeded(q) => Unheeded(Tail(q)) /\ ~Head(q).waited
    BY <1>1 DEF Unheeded
<1>3. ASSUME Head(q).waited
      PROVE  /\ a # "none" /\ a = Head(q).call /\ Tail(q) = <<>>
             /\ ~Has(d, "ack") /\ AnswerIsDue(d \o <<x>>, Tail(q), a)
    <2>1. a # "none" /\ ~Has(d, "ack") /\ LastAwaited(q, a)
        BY <1>2, <1>3 DEF AnswerIsDue
    <2>2. Len(q) = 1
        BY <1>1, <1>3, <2>1 DEF LastAwaited
    <2>3. Tail(q) = <<>> /\ a = Head(q).call
        BY <1>1, <2>1, <2>2 DEF LastAwaited
    <2>4. OneAnswer(d \o <<x>>)
        <3>1. \A j \in DOMAIN (d \o <<x>>) :
                  \/ j \in DOMAIN d /\ (d \o <<x>>)[j] = d[j] /\ j # Len(d) + 1
                  \/ j = Len(d) + 1 /\ (d \o <<x>>)[j] = x
            OBVIOUS
        <3>2. Len(d) + 1 \in DOMAIN (d \o <<x>>)
            OBVIOUS
        <3>3. \A j \in DOMAIN (d \o <<x>>) : (d \o <<x>>)[j].event = "ack" <=> j = Len(d) + 1
            BY <2>1, <3>1 DEF Has
        <3>4. QED
            BY <3>2, <3>3 DEF OneAnswer
    <2>5. Unheeded(Tail(q))
        BY <2>3 DEF Unheeded
    <2>6. QED
        BY <2>1, <2>3, <2>4, <2>5 DEF AnswerIsDue
<1>4. ASSUME ~Head(q).waited PROVE AnswerIsDue(d, Tail(q), a)
    <2>1. LastAwaited(q, a) => LastAwaited(Tail(q), a)
        <3> SUFFICES ASSUME LastAwaited(q, a) PROVE LastAwaited(Tail(q), a)
            OBVIOUS
        <3>1. q[Len(q)].waited
            BY DEF LastAwaited
        <3>2. Len(q) # 1
            BY <1>1, <1>4, <3>1
        <3>3. Tail(q) # <<>> /\ Len(Tail(q)) \in DOMAIN Tail(q)
            <4>1. Tail(q) # <<>>
                <5>1. Len(Tail(q)) = Len(q) - 1 /\ Len(q) - 1 # 0
                    BY <1>1, <3>2
                <5>2. Len(<<>>) = 0
                    OBVIOUS
                <5>3. QED
                    BY <5>1, <5>2, Zenon
            <4>2. Tail(q) \in Seq(Call)
                OBVIOUS
            <4>3. QED
                BY <4>1, <4>2, ItemsLeft
        <3>4. Tail(q)[Len(Tail(q))] = q[Len(q)]
            BY <1>1, <3>3
        <3>5. ASSUME NEW i \in DOMAIN Tail(q), Tail(q)[i].waited PROVE i = Len(Tail(q))
            <4>1. i + 1 \in DOMAIN q /\ q[i + 1].waited
                BY <1>1, <3>5
            <4>2. i + 1 = Len(q)
                BY <4>1 DEF LastAwaited
            <4>3. i \in Nat /\ Len(q) \in Nat /\ Len(Tail(q)) = Len(q) - 1
                BY <1>1
            <4> DEFINE n == Len(q)
            <4> HIDE DEF n
            <4>4. i = n - 1
                BY <4>2, <4>3 DEF n
            <4>5. Len(Tail(q)) = n - 1
                BY <4>3 DEF n
            <4>6. QED
                BY <4>4, <4>5, Zenon
        <3>6. QED
            BY <3>3, <3>4, <3>5 DEF LastAwaited
    <2>2. QED
        BY <1>2, <2>1 DEF AnswerIsDue
<1>5. QED
    BY <1>3, <1>4

\* A call is made and awaited when none is.
LEMMA DueCalled ==
    ASSUME NEW d, NEW q \in Seq(Call), AnswerIsDue(d, q, "none"),
           NEW c \in Calls, NEW s \in Seq(Call), s = <<[call |-> c, waited |-> TRUE]>>
    PROVE  AnswerIsDue(d, q \o s, c)
<1>0. c # "none"
    BY DEF Calls, Asks
<1>1. ~Has(d, "ack") /\ Unheeded(q)
    BY DEF AnswerIsDue
<1>2. /\ Len(q \o s) = Len(q) + 1 /\ q \o s # <<>>
      /\ (q \o s)[Len(q) + 1] = [call |-> c, waited |-> TRUE]
      /\ \A i \in DOMAIN (q \o s) : i = Len(q) + 1 \/ (i \in DOMAIN q /\ (q \o s)[i] = q[i])
    OBVIOUS
<1>3. LastAwaited(q \o s, c)
    BY <1>1, <1>2 DEF LastAwaited, Unheeded
<1>4. QED
    BY <1>0, <1>1, <1>3 DEF AnswerIsDue

\* An event reaches the tab.
LEMMA DueHeard ==
    ASSUME NEW d \in Seq(Event), d # <<>>, NEW q, NEW a, AnswerIsDue(d, q, a)
    PROVE  /\ Head(d).event = "ack" => /\ a # "none" /\ Unheeded(q) /\ ~Has(Tail(d), "ack")
                                       /\ AnswerIsDue(Tail(d), q, "none")
           /\ Head(d).event # "ack" => AnswerIsDue(Tail(d), q, a)
<1>1. /\ Tail(d) \in Seq(Event) /\ Head(d) = d[1] /\ 1 \in DOMAIN d
      /\ \A i \in DOMAIN Tail(d) : i + 1 \in DOMAIN d /\ Tail(d)[i] = d[i + 1] /\ i + 1 # 1
      /\ \A i \in DOMAIN d : i # 1 => i - 1 \in DOMAIN Tail(d) /\ Tail(d)[i - 1] = d[i]
    OBVIOUS
<1>2. Has(d, "ack") <=> Head(d).event = "ack" \/ Has(Tail(d), "ack")
    BY HasLeft
<1>3. ASSUME Head(d).event = "ack"
      PROVE  /\ a # "none" /\ Unheeded(q) /\ ~Has(Tail(d), "ack")
             /\ AnswerIsDue(Tail(d), q, "none")
    <2>1. a # "none" /\ OneAnswer(d) /\ Unheeded(q)
        BY <1>2, <1>3 DEF AnswerIsDue
    <2>2. \A i \in DOMAIN d : d[i].event = "ack" => i = 1
        BY <1>1, <1>3, <2>1 DEF OneAnswer
    <2>3. ~Has(Tail(d), "ack")
        BY <1>1, <2>2 DEF Has
    <2>4. QED
        BY <2>1, <2>3 DEF AnswerIsDue
<1>4. ASSUME Head(d).event # "ack" PROVE AnswerIsDue(Tail(d), q, a)
    <2>1. OneAnswer(d) => OneAnswer(Tail(d))
        <3> SUFFICES ASSUME OneAnswer(d) PROVE OneAnswer(Tail(d))
            OBVIOUS
        <3>1. PICK i \in DOMAIN d : \A j \in DOMAIN d : d[j].event = "ack" <=> j = i
            BY DEF OneAnswer
        <3>2. i \in Nat /\ i - 1 \in DOMAIN Tail(d)
            BY <1>1, <1>4, <3>1
        <3>3. \A j \in DOMAIN Tail(d) : Tail(d)[j].event = "ack" <=> j + 1 = i
            BY <1>1, <3>1
        <3>4. \A j \in DOMAIN Tail(d) : j + 1 = i <=> j = i - 1
            BY <3>2
        <3>5. QED
            BY <3>2, <3>3, <3>4 DEF OneAnswer
    <2>2. QED
        BY <1>2, <1>4, <2>1 DEF AnswerIsDue
<1>5. QED
    BY <1>3, <1>4

\* The answer that is given up.
LEMMA NoAnswerLeft ==
    ASSUME NEW d \in Seq(Event), OneAnswer(d) \/ ~Has(d, "ack")
    PROVE  /\ Unanswered(d) \in Seq(Event)
           /\ \A i \in DOMAIN Unanswered(d) :
                 \E j \in DOMAIN d : Unanswered(d)[i] = d[j] /\ d[j].event # "ack"
           /\ \A j \in DOMAIN d : d[j].event # "ack" =>
                 \E i \in DOMAIN Unanswered(d) : Unanswered(d)[i] = d[j]
<1>1. CASE ~Has(d, "ack")
    <2>1. \A i \in DOMAIN d : d[i].event # "ack"
        BY <1>1 DEF Has
    <2>2. Unanswered(d) = d
        BY <2>1 DEF Unanswered
    <2>3. QED
        BY <2>1, <2>2
<1>2. ASSUME OneAnswer(d)
      PROVE  /\ Unanswered(d) \in Seq(Event)
             /\ \A i \in DOMAIN Unanswered(d) :
                   \E j \in DOMAIN d : Unanswered(d)[i] = d[j] /\ d[j].event # "ack"
             /\ \A j \in DOMAIN d : d[j].event # "ack" =>
                   \E i \in DOMAIN Unanswered(d) : Unanswered(d)[i] = d[j]
    <2>1. PICK k \in DOMAIN d : \A j \in DOMAIN d : d[j].event = "ack" <=> j = k
        BY <1>2 DEF OneAnswer
    <2>2. k = CHOOSE i \in DOMAIN d : d[i].event = "ack"
        BY <2>1
    <2> DEFINE s == SubSeq(d, 1, k - 1)
               t == SubSeq(d, k + 1, Len(d))
    <2>3. Unanswered(d) = s \o t
        BY <2>1, <2>2 DEF Unanswered
    <2>4. k \in 1..Len(d) /\ Len(d) \in Nat
        OBVIOUS
    <2>5. /\ s \in Seq(Event) /\ Len(s) = k - 1
          /\ \A i \in 1..(k - 1) : i \in DOMAIN d /\ s[i] = d[i]
        BY <2>4
    <2>6. /\ t \in Seq(Event) /\ Len(t) = Len(d) - k
          /\ \A i \in 1..(Len(d) - k) : k + i \in DOMAIN d /\ t[i] = d[k + i]
        BY <2>4
    <2> HIDE DEF s, t
    <2>7. /\ s \o t \in Seq(Event) /\ DOMAIN (s \o t) = 1..(Len(d) - 1)
          /\ \A i \in 1..(k - 1) : (s \o t)[i] = d[i]
          /\ \A i \in k..(Len(d) - 1) : (s \o t)[i] = d[i + 1]
        <3>1. s \o t \in Seq(Event) /\ Len(s \o t) = Len(d) - 1
            BY <2>4, <2>5, <2>6
        <3>2. DOMAIN (s \o t) = 1..(Len(d) - 1)
            BY <3>1, <2>4
        <3>3. \A i \in 1..(k - 1) : (s \o t)[i] = d[i]
            <4>1. TAKE i \in 1..(k - 1)
            <4>2. (s \o t)[i] = s[i]
                BY <2>4, <2>5, <2>6
            <4>3. QED
                BY <2>5, <4>2
        <3>4. \A i \in k..(Len(d) - 1) : (s \o t)[i] = d[i + 1]
            <4>1. TAKE i \in k..(Len(d) - 1)
            <4>2. i - (k - 1) \in 1..(Len(d) - k)
                BY <2>4
            <4>a. Len(s) = k - 1 /\ Len(t) = Len(d) - k
                BY <2>5, <2>6
            <4>b. /\ i \in Nat /\ i \in 1..(Len(s) + Len(t)) /\ ~(i <= Len(s))
                  /\ i - Len(s) = i - (k - 1)
                BY <2>4, <4>a
            <4>c. i \in DOMAIN (s \o t)
                BY <2>4, <3>2
            <4>d. i \notin DOMAIN s
                <5>1. DOMAIN s = 1..Len(s)
                    BY <2>5
                <5>2. QED
                    BY <4>b, <5>1
            <4>3. (s \o t)[i] = t[i - (k - 1)]
                <5>1. s \in Seq(Event) /\ t \in Seq(Event)
                    BY <2>5, <2>6
                <5>2. (s \o t)[i] = t[i - Len(s)]
                    BY <4>c, <4>d, <5>1, ItemsJoined
                <5>3. QED
                    BY <4>b, <5>2
            <4>4. k + (i - (k - 1)) = i + 1
                BY <2>4
            <4>5. QED
                BY <2>6, <4>2, <4>3, <4>4
        <3>5. QED
            BY <3>1, <3>2, <3>3, <3>4
    <2>8. \A i \in 1..(Len(d) - 1) :
              \E j \in DOMAIN d : (s \o t)[i] = d[j] /\ d[j].event # "ack"
        <3>1. TAKE i \in 1..(Len(d) - 1)
        <3>2. CASE i < k
            <4>1. i \in 1..(k - 1) /\ i \in DOMAIN d /\ i # k
                BY <2>4, <3>2
            <4>2. QED
                BY <2>1, <2>7, <4>1
        <3>3. CASE i >= k
            <4>1. i \in k..(Len(d) - 1) /\ i + 1 \in DOMAIN d /\ i + 1 # k
                BY <2>4, <3>3
            <4>2. QED
                BY <2>1, <2>7, <4>1
        <3>4. i < k \/ i >= k
            BY <2>4
        <3>5. QED
            BY <3>2, <3>3, <3>4
    <2>9. \A j \in DOMAIN d : d[j].event # "ack" =>
              \E i \in 1..(Len(d) - 1) : (s \o t)[i] = d[j]
        <3>1. TAKE j \in DOMAIN d
        <3>2. CASE j < k
            <4>1. j \in 1..(k - 1) /\ j \in 1..(Len(d) - 1)
                BY <2>4, <3>2
            <4>2. QED
                BY <2>7, <4>1
        <3>3. CASE j > k
            <4>1. j - 1 \in k..(Len(d) - 1) /\ j - 1 \in 1..(Len(d) - 1) /\ (j - 1) + 1 = j
                BY <2>4, <3>3
            <4>2. QED
                BY <2>7, <4>1
        <3>4. CASE j = k
            BY <2>1, <3>4
        <3>5. j < k \/ j > k \/ j = k
            BY <2>4
        <3>6. QED
            BY <3>2, <3>3, <3>4, <3>5
    <2>10. QED
        <3> DEFINE st == s \o t
        <3>1. st \in Seq(Event) /\ DOMAIN st = 1..(Len(d) - 1) /\ Unanswered(d) = st
            BY <2>3, <2>7
        <3>2. /\ \A i \in DOMAIN st : \E j \in DOMAIN d : st[i] = d[j] /\ d[j].event # "ack"
              /\ \A j \in DOMAIN d : d[j].event # "ack" => \E i \in DOMAIN st : st[i] = d[j]
            BY <2>8, <2>9, <3>1
        <3> HIDE DEF st
        <3>3. QED
            BY <3>1, <3>2
<1>3. QED
    BY <1>1, <1>2

LEMMA DueGivenUp ==
    ASSUME NEW d \in Seq(Event), NEW q, NEW a, AnswerIsDue(d, q, a)
    PROVE  /\ Unanswered(d) \in Seq(Event) /\ ~Has(Unanswered(d), "ack")
           /\ \A i \in DOMAIN Unanswered(d) : \E j \in DOMAIN d : Unanswered(d)[i] = d[j]
           /\ \A e : e # "ack" /\ Has(d, e) => Has(Unanswered(d), e)
<1>1. OneAnswer(d) \/ ~Has(d, "ack")
    BY DEF AnswerIsDue
<1>2. QED
    BY <1>1, NoAnswerLeft DEF Has

-----------------------------------------------------------------------------
(* The invariant of one tab after a step.                                  *)

LEMMA QueueTypes ==
    ASSUME ChatTypeOK, NEW u \in Users
    PROVE  up[u] \in Seq(Call) /\ down[u] \in Seq(Event)
BY DEF ChatTypeOK

\* No answer, or one call, is on the way of a rejoin.
LEMMA RejoinIsFirst ==
    ASSUME ChatTypeOK, NEW u \in Users, TabFits(u), up[u] # <<>>
    PROVE  /\ HasCall(up[u], "rejoin") => Head(up[u]).call = "rejoin"
           /\ ~HasCall(Tail(up[u]), "rejoin")
<1>1. up[u] \in Seq(Call)
    BY QueueTypes
<1>2. \A i \in DOMAIN up[u] : up[u][i].call = "rejoin" => i = 1
    BY DEF TabFits, CallsFit
<1>3. /\ Head(up[u]) = up[u][1]
      /\ \A i \in DOMAIN Tail(up[u]) : i + 1 \in DOMAIN up[u] /\ Tail(up[u])[i] = up[u][i + 1] /\ i + 1 # 1
    BY <1>1
<1>4. QED
    BY <1>2, <1>3 DEF HasCall

\* A tab that does nothing, and is told something or not.
LEMMA TabElsewhere ==
    ASSUME ChatTypeOK, NEW w \in Users, TabFits(w),
           up'[w] = up[w], awaited'[w] = awaited[w], shown'[w] = shown[w],
           seat'[w] = seat[w] \/ (seat[w] # "live" /\ seat'[w] # "live"),
           w \in linked' <=> w \in linked, w \in inChat' <=> w \in inChat,
           w \in missed => w \in missed', w \in refused => w \in refused',
           NEW m \in Seq(Event), down'[w] = down[w] \o m, m = <<>> \/ Hears(w), ~Has(m, "ack"),
           \A i \in DOMAIN m : EventFits(w, m[i], open', enjoy', revealed', awaited'[w]),
           open' => open /\ enjoy \subseteq enjoy' /\ enjoy' \subseteq Users /\ (revealed => revealed'),
           open /\ ~open' => (Hears(w) => Has(m, "partner_left"))
    PROVE  TabFits(w)'
<1>1. up[w] \in Seq(Call) /\ down[w] \in Seq(Event)
    BY QueueTypes
<1>2. /\ \A e : Has(down'[w], e) <=> Has(down[w], e) \/ Has(m, e)
      /\ \A r : HasAnswer(down'[w], r) <=> HasAnswer(down[w], r) \/ HasAnswer(m, r)
    BY <1>1, HasJoined
<1>3. WayFits(w)'
    <2>1. w \notin inChat \/ w \notin linked => m = <<>>
        BY DEF Hears, TabFits, WayFits
    <2>2. m = <<>> => down'[w] = down[w]
        BY <1>1
    <2>3. QED
        BY <2>1, <2>2 DEF TabFits, WayFits
<1>4. CallsFit(w)'
    BY DEF TabFits, CallsFit, CallFits
<1>5. EventsFit(w)'
    <2> SUFFICES ASSUME NEW i \in DOMAIN down'[w]
                 PROVE  EventFits(w, down'[w][i], open', enjoy', revealed', awaited'[w])
        BY DEF EventsFit
    <2>1. \/ \E j \in DOMAIN down[w] : down'[w][i] = down[w][j]
          \/ \E j \in DOMAIN m : down'[w][i] = m[j]
        BY <1>1, ItemsJoined, SMTT(30)
    <2>2. \A x : EventFits(w, x, open, enjoy, revealed, awaited[w]) =>
               EventFits(w, x, open', enjoy', revealed', awaited'[w])
        BY DEF EventFits, ChatTypeOK
    <2>3. QED
        BY <2>1, <2>2 DEF TabFits, EventsFit
<1>6. SeatFits(w)'
    BY <1>2 DEF TabFits, SeatFits
<1>7. w \in inChat' => AnswerIsDue(down'[w], up'[w], awaited'[w])
    BY <1>1, DueTold DEF TabFits
<1>8. LeftFits(w)'
    BY DEF TabFits, LeftFits
<1>9. StaysFits(w)'
    <2>1. CASE ~open
        BY <1>2, <2>1 DEF TabFits, StaysFits
    <2>2. CASE open
        BY <1>2, <2>2 DEF TabFits, StaysFits, SeatFits, Hears
    <2>3. QED
        BY <2>1, <2>2
<1>10. ShownFits(w)'
    BY DEF TabFits, ShownFits, ChatTypeOK
<1>11. QED
    BY <1>3, <1>4, <1>5, <1>6, <1>7, <1>8, <1>9, <1>10 DEF TabFits

\* A tab whose call is handled, or refused.
LEMMA TabHandled ==
    ASSUME ChatTypeOK, NEW u \in Users, TabFits(u), up[u] # <<>>, up'[u] = Tail(up[u]),
           awaited'[u] = awaited[u], shown'[u] = shown[u],
           u \in linked' <=> u \in linked, u \in inChat' <=> u \in inChat,
           u \in missed => u \in missed', u \in refused => u \in refused',
           NEW call, call = Head(up[u]).call,
           NEW m \in Seq(Event), m = <<>> \/ Hears(u), ~Has(m, "ack"),
           \A i \in DOMAIN m : EventFits(u, m[i], open', enjoy', revealed', awaited'[u]),
           NEW r \in Result,
           down'[u] = IF u \in inChat /\ Head(up[u]).waited THEN (down[u] \o m) \o <<Ack(r)>>
                      ELSE down[u] \o m,
           open' => open /\ enjoy \subseteq enjoy' /\ enjoy' \subseteq Users /\ (revealed => revealed'),
           open /\ ~open' => call \in {"skip", "start_chat"} \/ (call = "report" /\ r = "ok"),
           call # "rejoin" => seat'[u] = seat[u],
           call = "rejoin" => \/ open /\ open' /\ seat'[u] = "live"
                              \/ ~open /\ r = "error" /\ seat'[u] = seat[u],
           call = "start_chat" /\ seat[u] = "live" /\ open' => u \in refused',
           call = "send_message" => r \in {"ok", "error"},
           call = "enjoy" /\ open' => /\ r = "mutual" => enjoy' = Users
                                      /\ r # "error" => u \in enjoy'
    PROVE  TabFits(u)'
<1> DEFINE ack == Ack(r)
           told == down[u] \o m
           waits == u \in inChat /\ Head(up[u]).waited
<1>1. /\ up[u] \in Seq(Call) /\ down[u] \in Seq(Event) /\ told \in Seq(Event)
      /\ Tail(up[u]) \in Seq(Call) /\ Head(up[u]) \in Call
    BY QueueTypes
<1>2. ack \in Event /\ <<ack>> \in Seq(Event) /\ ack.event = "ack" /\ ack.result = r
    <2>1. 0 \in 0..(Terms - 1)
        BY BoundAssumption
    <2>2. QED
        BY <2>1 DEF Ack, Event, Events
<1>3. down'[u] = IF waits THEN told \o <<ack>> ELSE told
    OBVIOUS
<1>4. u \in linked
    BY DEF TabFits, WayFits
<1>5. WayFits(u)'
    <2>1. u \notin inChat => m = <<>> /\ ~waits /\ down[u] = <<>>
        BY DEF Hears, TabFits, WayFits
    <2>2. m = <<>> => told = down[u]
        BY <1>1
    <2>3. QED
        BY <1>3, <1>4, <2>1, <2>2 DEF TabFits, WayFits
<1>6. \A i \in DOMAIN up'[u] : i + 1 \in DOMAIN up[u] /\ up'[u][i] = up[u][i + 1] /\ i + 1 # 1
    BY <1>1
<1>7. CallsFit(u)'
    <2>1. \A c : CallFits(u, c) => CallFits(u, c)'
        BY DEF CallFits
    <2>2. \A i \in DOMAIN up'[u] : up'[u][i].call = "rejoin" => i = 1
        BY <1>6 DEF TabFits, CallsFit
    <2>3. u \in inChat => \A i \in DOMAIN up'[u] : CallFits(u, up'[u][i])
        BY <1>6 DEF TabFits, CallsFit
    <2>4. QED
        BY <2>1, <2>2, <2>3 DEF CallsFit, CallFits
<1>8. u \in inChat => AnswerIsDue(told, up[u], awaited[u])
    BY <1>1, DueTold DEF TabFits
<1>9. u \in inChat =>
          /\ Head(up[u]).waited => awaited[u] = call /\ AnswerIsDue(told \o <<ack>>, Tail(up[u]), awaited[u])
          /\ ~Head(up[u]).waited => AnswerIsDue(told, Tail(up[u]), awaited[u])
    <2> HIDE DEF ack, told
    <2>1. QED
        BY <1>1, <1>2, <1>8, DueHandled
<1>10. u \in inChat' => AnswerIsDue(down'[u], up'[u], awaited'[u])
    BY <1>3, <1>9
<1>11. EventsFit(u)'
    <2> SUFFICES ASSUME NEW i \in DOMAIN down'[u]
                 PROVE  EventFits(u, down'[u][i], open', enjoy', revealed', awaited'[u])
        BY DEF EventsFit
    <2>1. \A x : EventFits(u, x, open, enjoy, revealed, awaited[u]) =>
               EventFits(u, x, open', enjoy', revealed', awaited'[u])
        BY DEF EventFits, ChatTypeOK
    <2>2. \A j \in DOMAIN told : EventFits(u, told[j], open', enjoy', revealed', awaited'[u])
        <3>1. TAKE j \in DOMAIN told
        <3>2. \/ \E k \in DOMAIN down[u] : told[j] = down[u][k]
              \/ \E k \in DOMAIN m : told[j] = m[k]
            BY <1>1, ItemsJoined, SMTT(30)
        <3>3. QED
            BY <2>1, <3>2 DEF TabFits, EventsFit
    <2>3. waits => EventFits(u, ack, open', enjoy', revealed', awaited'[u])
        BY <1>2, <1>9 DEF EventFits, Ack
    <2>4. \/ \E j \in DOMAIN told : down'[u][i] = told[j]
          \/ waits /\ down'[u][i] = ack
        <3>1. CASE waits
            <4>1. \/ \E j \in DOMAIN told : (told \o <<ack>>)[i] = told[j]
                  \/ \E j \in DOMAIN <<ack>> : (told \o <<ack>>)[i] = <<ack>>[j]
                <5> HIDE DEF told, ack
                <5>1. QED
                    BY <1>1, <1>2, <1>3, <3>1, ItemsJoined
            <4>2. QED
                BY <1>3, <3>1, <4>1
        <3>2. CASE ~waits
            BY <1>3, <3>2
        <3>3. QED
            BY <3>1, <3>2
    <2>5. QED
        BY <2>2, <2>3, <2>4
<1>12. /\ \A e : Has(down[u], e) => Has(down'[u], e)
       /\ \A a : HasAnswer(down[u], a) => HasAnswer(down'[u], a)
       /\ waits => HasAnswer(down'[u], r)
    <2>1. /\ \A e : Has(told, e) <=> Has(down[u], e) \/ Has(m, e)
          /\ \A a : HasAnswer(told, a) <=> HasAnswer(down[u], a) \/ HasAnswer(m, a)
        BY <1>1, HasJoined
    <2>2. /\ \A e : Has(told \o <<ack>>, e) <=> Has(told, e) \/ Has(<<ack>>, e)
          /\ \A a : HasAnswer(told \o <<ack>>, a) <=> HasAnswer(told, a) \/ HasAnswer(<<ack>>, a)
        <3> HIDE DEF told, ack
        <3>1. QED
            BY <1>1, <1>2, HasJoined
    <2>3. HasAnswer(<<ack>>, r)
        BY HasFew
    <2> HIDE DEF told, ack
    <2>4. QED
        BY <1>3, <2>1, <2>2, <2>3
<1>13. /\ call = "rejoin" => HasCall(up[u], "rejoin")
       /\ HasCall(up[u], "rejoin") => call = "rejoin" /\ (u \in inChat => waits)
       /\ ~HasCall(up'[u], "rejoin")
       /\ HasCall(up[u], "start_chat") => call = "start_chat" \/ HasCall(up'[u], "start_chat")
    <2>1. \A c : HasCall(up[u], c) <=> Head(up[u]).call = c \/ HasCall(Tail(up[u]), c)
        BY <1>1, HasLeft
    <2>2. u \in inChat => CallFits(u, Head(up[u]))
        BY <1>1 DEF TabFits, CallsFit
    <2>3. QED
        BY <2>1, <2>2, RejoinIsFirst DEF CallFits
<1> HIDE DEF waits
<1>14. SeatFits(u)'
    BY <1>12, <1>13 DEF TabFits, SeatFits
<1>15. LeftFits(u)'
    BY <1>13 DEF TabFits, LeftFits
<1>16. u \in inChat => /\ call \notin {"skip", "start_chat"}
                       /\ call = "report" => (waits /\ awaited[u] = "report") \/ shown[u].report # "none"
    <2>1. u \in inChat => CallFits(u, Head(up[u]))
        BY <1>1 DEF TabFits, CallsFit
    <2>2. QED
        BY <1>9, <2>1 DEF CallFits, waits
<1>17. StaysFits(u)'
    <2>1. CASE ~open
        BY <1>12, <1>13, <2>1 DEF TabFits, StaysFits
    <2>2. CASE open
        BY <1>12, <1>16, <2>2 DEF TabFits, StaysFits
    <2>3. QED
        BY <2>1, <2>2
<1>18. ShownFits(u)'
    BY DEF TabFits, ShownFits, ChatTypeOK
<1>19. QED
    BY <1>5, <1>7, <1>10, <1>11, <1>14, <1>15, <1>17, <1>18 DEF TabFits

-----------------------------------------------------------------------------
(* What a tab does.                                                        *)

LEMMA AnsweredFits ==
    ASSUME NEW s \in Shown, NEW call, NEW r \in Result
    PROVE  LET a == Answered(s, call, r)
           IN  /\ a \in Shown /\ a.heard = s.heard
               /\ a.report = IF call = "report" /\ r # "error" THEN "done" ELSE s.report
               /\ a.enjoy = IF call = "enjoy" /\ r # "error" THEN EnjoyAck(s, r) ELSE s.enjoy
               /\ a.friend = "friends" => s.friend = "friends"
               /\ a.said = IF call = "send_message" /\ r # "error" THEN s.said + 1 ELSE s.said
<1>0. s.said + 1 \in Nat /\ EnjoyAck(s, r) \in {"none", "sent", "received", "mutual"}
    BY DEF Shown, EnjoyAck
<1> DEFINE a == Answered(s, call, r)
<1>1. CASE r = "error"
    BY <1>1 DEF Answered, Refused, Shown
<1>2. CASE r # "error" /\ call = "enjoy"
    <2>1. a = [s EXCEPT !.enjoy = EnjoyAck(s, r)]
        BY <1>2 DEF Answered, Refused
    <2>2. QED
        BY <1>0, <1>2, <2>1 DEF Shown
<1>3. CASE r # "error" /\ call = "friend_request"
    <2>1. a = s \/ a = [s EXCEPT !.friend = "sent"]
        BY <1>3 DEF Answered, Refused
    <2>2. QED
        BY <1>3, <2>1 DEF Shown
<1>4. CASE r # "error" /\ call = "friend_reject"
    <2>1. a = [s EXCEPT !.friend = "none"]
        BY <1>4 DEF Answered, Refused
    <2>2. QED
        BY <1>4, <2>1 DEF Shown
<1>5. CASE r # "error" /\ call \in {"extend_request", "extend_accept", "extend_reject"}
    <2>1. a = [s EXCEPT !.extend = "sent"] \/ a = [s EXCEPT !.extend = "none"]
        BY <1>5 DEF Answered, Refused
    <2>2. QED
        BY <1>5, <2>1 DEF Shown
<1>6. CASE r # "error" /\ call = "send_message"
    <2>1. a = [s EXCEPT !.said = @ + 1]
        BY <1>6 DEF Answered, Refused, Appears
    <2>2. QED
        BY <1>0, <1>6, <2>1 DEF Shown
<1>7. CASE r # "error" /\ call = "report"
    <2>1. a = [s EXCEPT !.report = "done"]
        BY <1>7 DEF Answered, Refused
    <2>2. QED
        BY <1>7, <2>1 DEF Shown
<1>8. CASE r # "error" /\ call \notin {"enjoy", "friend_request", "friend_reject", "extend_request",
                                      "extend_accept", "extend_reject", "send_message", "report"}
    <2>1. a = s
        BY <1>8 DEF Answered, Refused
    <2>2. QED
        BY <1>8, <2>1
<1>9. QED
    BY <1>1, <1>2, <1>3, <1>4, <1>5, <1>6, <1>7, <1>8

LEMMA ToldFits ==
    ASSUME NEW s \in Shown, NEW m \in Event
    PROVE  LET t == Told(s, m)
           IN  /\ t \in Shown /\ t.report = s.report /\ t.said = s.said
               /\ t.heard = IF m.event = "receive_message" THEN s.heard + 1 ELSE s.heard
               /\ t.enjoy = "mutual" => s.enjoy = "mutual" \/ m.event = "enjoy_mutual"
               /\ t.enjoy = "sent" => s.enjoy = "sent"
               /\ t.friend = "friends" => s.friend = "friends" \/ m.event = "revealed"
<1> DEFINE t == Told(s, m)
<1>1. CASE m.event = "enjoy_request"
    <2>1. t = s \/ t = [s EXCEPT !.enjoy = "received"]
        BY <1>1 DEF Told, Shown
    <2>2. QED
        BY <1>1, <2>1 DEF Shown
<1>2. CASE m.event = "enjoy_mutual"
    <2>1. t = [s EXCEPT !.enjoy = "mutual"]
        BY <1>2 DEF Told
    <2>2. QED
        BY <1>2, <2>1 DEF Shown
<1>3. CASE m.event \in {"friend_request", "friend_reject"}
    <2>1. t = [s EXCEPT !.friend = "received"] \/ t = [s EXCEPT !.friend = "none"]
        BY <1>3 DEF Told
    <2>2. QED
        BY <1>3, <2>1 DEF Shown
<1>4. CASE m.event = "revealed"
    <2>1. t = [s EXCEPT !.friend = "friends"]
        BY <1>4 DEF Told
    <2>2. QED
        BY <1>4, <2>1 DEF Shown
<1>5. CASE m.event \in {"extend_request", "extend_reject"}
    <2>1. t = [s EXCEPT !.extend = "received"] \/ t = [s EXCEPT !.extend = "none"]
        BY <1>5 DEF Told
    <2>2. QED
        BY <1>5, <2>1 DEF Shown
<1>6. CASE m.event = "extend_accept"
    <2>1. t = [s EXCEPT !.extend = "none", !.term = m.term]
        BY <1>6 DEF Told
    <2>2. m.term \in 0..(Terms - 1)
        BY DEF Event
    <2>3. QED
        BY <1>6, <2>1, <2>2 DEF Shown
<1>7. CASE m.event \in {"partner_reconnecting", "partner_back"}
    <2>1. t = [s EXCEPT !.away = TRUE] \/ t = [s EXCEPT !.away = FALSE]
        BY <1>7 DEF Told
    <2>2. QED
        BY <1>7, <2>1 DEF Shown
<1>8. CASE m.event = "receive_message"
    <2>1. t = [s EXCEPT !.heard = @ + 1]
        BY <1>8 DEF Told
    <2>2. s.heard + 1 \in Nat
        BY DEF Shown
    <2>3. QED
        BY <1>8, <2>1, <2>2 DEF Shown
<1>9. CASE m.event \in {"partner_left", "ack"}
    <2>1. t = s
        BY <1>9 DEF Told
    <2>2. QED
        BY <1>9, <2>1
<1>10. m.event \in Events
    BY DEF Event
<1>11. QED
    BY <1>1, <1>2, <1>3, <1>4, <1>5, <1>6, <1>7, <1>8, <1>9, <1>10 DEF Events

\* A call is made.
LEMMA TabCalled ==
    ASSUME ChatTypeOK, NEW u \in Users, TabFits(u), u \in inChat \cap linked, awaited[u] = "none",
           NEW call \in Calls \ {"rejoin", "skip", "start_chat"},
           up'[u] = up[u] \o <<[call |-> call, waited |-> TRUE]>>, awaited'[u] = call,
           down'[u] = down[u], shown'[u] = shown[u],
           UNCHANGED <<server, linked, inChat, history>>
    PROVE  TabFits(u)'
<1> DEFINE c == [call |-> call, waited |-> TRUE]
<1>1. /\ up[u] \in Seq(Call) /\ down[u] \in Seq(Event) /\ c \in Call /\ <<c>> \in Seq(Call)
      /\ c.call = call
    <2>1. c \in Call /\ c.call = call
        BY DEF Call
    <2> HIDE DEF c
    <2>2. QED
        BY <2>1, QueueTypes
<1>2. \A k : HasCall(up'[u], k) <=> HasCall(up[u], k) \/ k = call
    <2>1. \A k : HasCall(<<c>>, k) <=> c.call = k
        BY HasFew
    <2> HIDE DEF c
    <2>2. \A k : HasCall(up[u] \o <<c>>, k) <=> HasCall(up[u], k) \/ HasCall(<<c>>, k)
        BY <1>1, HasJoined
    <2>3. QED
        BY <1>1, <2>1, <2>2 DEF c
<1>3. AnswerIsDue(down'[u], up'[u], awaited'[u])
    BY <1>1, DueCalled DEF TabFits
<1>4. ~Has(down[u], "ack")
    BY DEF TabFits, AnswerIsDue
<1>5. CallsFit(u)'
    <2>1. \A i \in DOMAIN up'[u] : up'[u][i] = c \/ (i \in DOMAIN up[u] /\ up'[u][i] = up[u][i])
        <3>1. up'[u] = up[u] \o <<c>>
            OBVIOUS
        <3> HIDE DEF c
        <3>2. \A i \in DOMAIN <<c>> : <<c>>[i] = c
            OBVIOUS
        <3>3. \A i \in DOMAIN (up[u] \o <<c>>) :
                  \/ i \in DOMAIN up[u] /\ (up[u] \o <<c>>)[i] = up[u][i]
                  \/ i - Len(up[u]) \in DOMAIN <<c>>
                        /\ (up[u] \o <<c>>)[i] = <<c>>[i - Len(up[u])]
            BY <1>1, ItemsJoined
        <3>4. QED
            BY <3>1, <3>2, <3>3
    <2>2. \A i \in DOMAIN up'[u] : up'[u][i].call = "rejoin" => i = 1
        BY <2>1 DEF TabFits, CallsFit
    <2>3. \A i \in DOMAIN up'[u] : CallFits(u, up'[u][i])
        BY <2>1 DEF TabFits, CallsFit, CallFits
    <2>4. QED
        BY <2>2, <2>3 DEF CallsFit, CallFits, history
<1>6. EventsFit(u)'
    BY <1>4 DEF TabFits, EventsFit, EventFits, Has, server
<1>7. WayFits(u)' /\ ShownFits(u)'
    BY DEF TabFits, WayFits, ShownFits, server
<1>8. SeatFits(u)'
    BY DEF TabFits, SeatFits, server
<1>9. LeftFits(u)'
    BY DEF LeftFits
<1>10. StaysFits(u)'
    BY DEF TabFits, StaysFits, server
<1>11. QED
    BY <1>3, <1>5, <1>6, <1>7, <1>8, <1>9, <1>10 DEF TabFits

\* The chat is left.
LEMMA TabLeft ==
    ASSUME ChatTypeOK, NEW u \in Users, TabFits(u),
           u \notin inChat', awaited'[u] = "none", down'[u] = <<>>, open' = open,
           \/ /\ u \in linked /\ u \in linked' /\ seat'[u] = seat[u]
              /\ \E s \in Seq(Call) : /\ up'[u] = up[u] \o s
                                      /\ HasCall(s, "start_chat") /\ ~HasCall(s, "rejoin")
           \/ u \notin linked' /\ up'[u] = <<>> /\ seat'[u] # "live"
    PROVE  TabFits(u)'
<1>1. WayFits(u)' /\ SeatFits(u)' /\ StaysFits(u)' /\ ShownFits(u)'
    BY DEF WayFits, SeatFits, StaysFits, ShownFits
<1>2. EventsFit(u)'
    BY DEF EventsFit
<1>3. ASSUME NEW s \in Seq(Call), up'[u] = up[u] \o s, HasCall(s, "start_chat"), ~HasCall(s, "rejoin")
      PROVE  CallsFit(u)' /\ LeftFits(u)'
    <2>1. up[u] \in Seq(Call)
        BY QueueTypes
    <2>2. HasCall(up'[u], "start_chat")
        BY <1>3, <2>1, HasJoined
    <2>3. \A i \in DOMAIN up'[u] : \/ i \in DOMAIN up[u] /\ up'[u][i] = up[u][i]
                                   \/ \E j \in DOMAIN s : up'[u][i] = s[j]
        BY <1>3, <2>1, ItemsJoined
    <2>4. \A i \in DOMAIN up'[u] : up'[u][i].call = "rejoin" => i = 1
        BY <1>3, <2>3 DEF TabFits, CallsFit, HasCall
    <2>5. QED
        BY <2>2, <2>4 DEF CallsFit, LeftFits
<1>4. ASSUME u \notin linked', up'[u] = <<>>, seat'[u] # "live"
      PROVE  CallsFit(u)' /\ LeftFits(u)'
    <2>1. \A k : ~HasCall(up'[u], k)
        BY <1>4, HasFew, ZenonT(40)
    <2>2. QED
        BY <1>4, <2>1 DEF CallsFit, LeftFits
<1>5. QED
    BY <1>1, <1>2, <1>3, <1>4 DEF TabFits

\* An event that leaves the tab where it is.
LEMMA TabHeard ==
    ASSUME ChatTypeOK, NEW u \in Users, TabFits(u), down[u] # <<>>,
           NEW m, m = Head(down[u]),
           m.event # "partner_left", ~(m.event = "ack" /\ awaited[u] = "rejoin" /\ m.result = "error"),
           down'[u] = Tail(down[u]), up'[u] = up[u],
           shown'[u] = IF m.event = "ack" THEN Answered(shown[u], awaited[u], m.result)
                       ELSE Told(shown[u], m),
           awaited'[u] = IF m.event = "ack" THEN "none" ELSE awaited[u],
           UNCHANGED <<server, linked, inChat, history>>
    PROVE  TabFits(u)'
<1>1. /\ up[u] \in Seq(Call) /\ down[u] \in Seq(Event) /\ Tail(down[u]) \in Seq(Event)
      /\ m \in Event /\ m.result \in Result /\ shown[u] \in Shown
    <2>1. down[u] \in Seq(Event) /\ up[u] \in Seq(Call)
        BY QueueTypes
    <2>2. Tail(down[u]) \in Seq(Event) /\ m \in Event
        BY <2>1
    <2>3. QED
        BY <2>1, <2>2 DEF ChatTypeOK, Event
<1>2. u \in inChat /\ u \in linked
    BY DEF TabFits, WayFits
<1>3. EventFits(u, m, open, enjoy, revealed, awaited[u])
    <2>1. 1 \in DOMAIN down[u] /\ m = down[u][1]
        BY <1>1
    <2>2. QED
        BY <2>1 DEF TabFits, EventsFit
<1>4. AnswerIsDue(down[u], up[u], awaited[u])
    BY <1>2 DEF TabFits
<1>5. /\ m.event = "ack" => /\ awaited[u] # "none" /\ Unheeded(up[u]) /\ ~Has(Tail(down[u]), "ack")
                            /\ AnswerIsDue(Tail(down[u]), up[u], "none")
      /\ m.event # "ack" => AnswerIsDue(Tail(down[u]), up[u], awaited[u])
    BY <1>1, <1>4, DueHeard
<1>6. /\ \A e : Has(down[u], e) <=> m.event = e \/ Has(down'[u], e)
      /\ \A r : HasAnswer(down[u], r) <=> m = Ack(r) \/ HasAnswer(down'[u], r)
    BY <1>1, HasLeft
<1>7. \A r : HasAnswer(down'[u], r) => Has(down'[u], "ack")
    BY DEF HasAnswer, Has, Ack
<1>8. AnswerIsDue(down'[u], up'[u], awaited'[u])
    BY <1>5
<1>9. WayFits(u)'
    BY <1>2 DEF WayFits
<1>10. /\ shown'[u].report = "none" =>
              shown[u].report = "none" /\ ~(m.event = "ack" /\ awaited[u] = "report" /\ m.result # "error")
       /\ shown'[u].friend = "friends" => shown[u].friend = "friends" \/ m.event = "revealed"
       /\ shown'[u].enjoy = "mutual" =>
              \/ shown[u].enjoy = "mutual" \/ m.event = "enjoy_mutual"
              \/ m.event = "ack" /\ awaited[u] = "enjoy" /\ m.result = "mutual"
       /\ shown'[u].enjoy = "sent" =>
              shown[u].enjoy = "sent" \/ (m.event = "ack" /\ awaited[u] = "enjoy" /\ m.result # "error")
    <2>1. CASE m.event = "ack"
        <3>1. shown'[u] = Answered(shown[u], awaited[u], m.result)
            BY <2>1
        <3> DEFINE a == Answered(shown[u], awaited[u], m.result)
        <3>2. /\ a.report = IF awaited[u] = "report" /\ m.result # "error" THEN "done" ELSE shown[u].report
              /\ a.enjoy = IF awaited[u] = "enjoy" /\ m.result # "error" THEN EnjoyAck(shown[u], m.result)
                           ELSE shown[u].enjoy
              /\ a.friend = "friends" => shown[u].friend = "friends"
            BY <1>1, AnsweredFits
        <3>3. /\ EnjoyAck(shown[u], m.result) = "mutual" => m.result = "mutual" \/ shown[u].enjoy = "mutual"
            BY DEF EnjoyAck
        <3> HIDE DEF a
        <3>4. shown'[u] = a
            BY <3>1 DEF a
        <3>5. QED
            BY <2>1, <3>2, <3>3, <3>4
    <2>2. CASE m.event # "ack"
        <3>1. shown'[u] = Told(shown[u], m)
            BY <2>2
        <3>2. QED
            BY <1>1, <2>2, <3>1, ToldFits, SMTT(30)
    <2>3. QED
        BY <2>1, <2>2
<1>11. ShownFits(u)'
    BY <1>3, <1>10 DEF TabFits, ShownFits, EventFits, server
<1>12. CallsFit(u)'
    BY <1>10 DEF TabFits, CallsFit, CallFits, history
<1>13. EventsFit(u)'
    <2> SUFFICES ASSUME NEW i \in DOMAIN down'[u]
                 PROVE  EventFits(u, down'[u][i], open', enjoy', revealed', awaited'[u])
        BY DEF EventsFit
    <2>1. \E j \in DOMAIN down[u] : down'[u][i] = down[u][j]
        BY <1>1, ItemsLeft
    <2>2. EventFits(u, down'[u][i], open, enjoy, revealed, awaited[u])
        BY <2>1 DEF TabFits, EventsFit
    <2>3. m.event = "ack" => down'[u][i].event # "ack"
        BY <1>5 DEF Has
    <2>4. QED
        BY <2>2, <2>3 DEF EventFits, server
<1>14. m.event = "ack" => ~HasCall(up[u], "rejoin") /\ m = Ack(m.result) /\ ~Has(down'[u], "ack")
    <2>1. Unheeded(up[u]) => ~HasCall(up[u], "rejoin")
        BY <1>2 DEF TabFits, CallsFit, CallFits, Unheeded, HasCall
    <2>2. QED
        BY <1>3, <1>5, <2>1 DEF EventFits
<1>15. m = Ack("error") => m.event = "ack" /\ m.result = "error"
    BY DEF Ack
<1>16. SeatFits(u)'
    BY <1>6, <1>7, <1>14, <1>15 DEF TabFits, SeatFits, server
<1>17. LeftFits(u)'
    BY <1>2 DEF LeftFits
<1>18. StaysFits(u)'
    <2>1. m = Ack("ok") => m.event = "ack" /\ m.result = "ok"
        BY DEF Ack
    <2>2. QED
        BY <1>2, <1>6, <1>7, <1>10, <1>14, <1>15, <2>1 DEF TabFits, StaysFits, server
<1>19. QED
    BY <1>8, <1>9, <1>11, <1>12, <1>13, <1>16, <1>17, <1>18 DEF TabFits

\* The connection is broken, and the tab stays.
LEMMA TabUnplugged ==
    ASSUME ChatTypeOK, NEW u \in Users, TabFits(u), u \in linked,
           up'[u] = <<>>, down'[u] = <<>>, awaited'[u] = "none",
           seat'[u] = (IF seat[u] = "live" THEN "stale" ELSE seat[u]),
           shown'[u] = Answered(shown[u], awaited[u], "error"),
           linked' = linked \ {u}, open' = open, enjoy' = enjoy, revealed' = revealed,
           inChat' = inChat
    PROVE  TabFits(u)'
<1>1. shown'[u] = shown[u] \/ shown'[u] = [shown[u] EXCEPT !.extend = "none"]
    BY DEF Answered, Refused
<1>2. shown[u] \in Shown
    BY DEF ChatTypeOK
<1>3. shown'[u].enjoy = shown[u].enjoy /\ shown'[u].friend = shown[u].friend
    BY <1>1, <1>2 DEF Shown
<1>4. WayFits(u)' /\ SeatFits(u)' /\ StaysFits(u)'
    BY DEF WayFits, SeatFits, StaysFits
<1>5. CallsFit(u)' /\ EventsFit(u)'
    BY DEF CallsFit, EventsFit
<1>6. ShownFits(u)'
    BY <1>3 DEF TabFits, ShownFits
<1>7. LeftFits(u)'
    BY HasFew, ZenonT(40) DEF LeftFits
<1>8. AnswerIsDue(down'[u], up'[u], awaited'[u])
    BY DEF AnswerIsDue, Has, Unheeded
<1>9. QED
    BY <1>4, <1>5, <1>6, <1>7, <1>8 DEF TabFits

\* The tab is connected again.
LEMMA TabReplugged ==
    ASSUME ChatTypeOK, NEW u \in Users, TabFits(u), u \notin linked, u \in inChat,
           up'[u] = <<[call |-> "rejoin", waited |-> TRUE]>>, awaited'[u] = "rejoin",
           down'[u] = down[u], shown'[u] = shown[u], linked' = linked \cup {u},
           UNCHANGED <<server, inChat, history>>
    PROVE  TabFits(u)'
<1>1. up[u] = <<>> /\ down[u] = <<>> /\ seat[u] # "live" /\ awaited[u] = "none"
    BY DEF TabFits, WayFits
<1>2. HasCall(up'[u], "rejoin")
    BY HasFew
<1>3. WayFits(u)' /\ ShownFits(u)'
    BY DEF TabFits, WayFits, ShownFits, server
<1>4. CallsFit(u)' /\ EventsFit(u)'
    BY <1>1 DEF CallsFit, CallFits, EventsFit
<1>5. SeatFits(u)' /\ LeftFits(u)' /\ StaysFits(u)'
    BY <1>2 DEF SeatFits, LeftFits, StaysFits
<1>6. AnswerIsDue(down'[u], up'[u], awaited'[u])
    <2>1. ~Has(down'[u], "ack")
        BY <1>1 DEF Has
    <2>2. LastAwaited(up'[u], "rejoin")
        BY DEF LastAwaited
    <2>3. QED
        BY <2>1, <2>2 DEF AnswerIsDue
<1>7. QED
    BY <1>3, <1>4, <1>5, <1>6 DEF TabFits

\* The tab gives the call up, and stays.
LEMMA TabGaveUp ==
    ASSUME ChatTypeOK, NEW u \in Users, TabFits(u), awaited[u] \notin {"none", "rejoin"},
           up'[u] = [i \in DOMAIN up[u] |-> [up[u][i] EXCEPT !.waited = FALSE]],
           down'[u] = Unanswered(down[u]), awaited'[u] = "none",
           shown'[u] = GivenUp(Answered(shown[u], awaited[u], "error"), awaited[u]),
           UNCHANGED <<server, linked, inChat, refused>>, u \in missed'
    PROVE  TabFits(u)'
<1>1. up[u] \in Seq(Call) /\ down[u] \in Seq(Event) /\ shown[u] \in Shown
    BY QueueTypes DEF ChatTypeOK
<1>2. u \in inChat /\ u \in linked
    BY DEF TabFits, WayFits
<1>3. /\ shown'[u].enjoy = shown[u].enjoy /\ shown'[u].friend = shown[u].friend
      /\ shown'[u].report = IF awaited[u] = "report" THEN "late" ELSE shown[u].report
    <2> DEFINE a == Answered(shown[u], awaited[u], "error")
    <2>1. a = shown[u] \/ a = [shown[u] EXCEPT !.extend = "none"]
        BY DEF Answered, Refused
    <2>2. /\ a.enjoy = shown[u].enjoy /\ a.friend = shown[u].friend /\ a.report = shown[u].report
          /\ a \in Shown
        BY <1>1, <2>1 DEF Shown
    <2> HIDE DEF a
    <2>3. shown'[u] = IF awaited[u] = "report" THEN [a EXCEPT !.report = "late"] ELSE a
        BY DEF a, GivenUp
    <2>4. QED
        BY <2>2, <2>3 DEF Shown
<1>4. /\ Unanswered(down[u]) \in Seq(Event) /\ ~Has(down'[u], "ack")
      /\ \A i \in DOMAIN down'[u] : \E j \in DOMAIN down[u] : down'[u][i] = down[u][j]
      /\ \A e : e # "ack" /\ Has(down[u], e) => Has(down'[u], e)
    BY <1>1, <1>2, DueGivenUp DEF TabFits
<1>5. /\ DOMAIN up'[u] = DOMAIN up[u]
      /\ \A i \in DOMAIN up[u] : up'[u][i].call = up[u][i].call /\ up'[u][i].waited = FALSE
    <2>1. \A i \in DOMAIN up[u] : up[u][i] \in Call
        BY <1>1
    <2>2. QED
        BY <2>1 DEF Call
<1>6. \A i \in DOMAIN up[u] : up[u][i].waited => up[u][i].call = awaited[u]
    BY <1>1, <1>2 DEF TabFits, AnswerIsDue, Unheeded, LastAwaited
<1>7. AnswerIsDue(down'[u], up'[u], awaited'[u])
    BY <1>4, <1>5 DEF AnswerIsDue, Unheeded
<1>8. CallsFit(u)'
    <2>1. \A i \in DOMAIN up'[u] : up'[u][i].call = "rejoin" => i = 1
        BY <1>5 DEF TabFits, CallsFit
    <2>2. \A i \in DOMAIN up[u] : /\ up[u][i].call \notin {"skip", "start_chat", "rejoin"}
                                  /\ up[u][i].call = "report" => shown'[u].report # "none"
        BY <1>2, <1>3, <1>6 DEF TabFits, CallsFit, CallFits
    <2>3. QED
        BY <1>5, <2>1, <2>2 DEF CallsFit, CallFits
<1>9. EventsFit(u)'
    <2> SUFFICES ASSUME NEW i \in DOMAIN down'[u]
                 PROVE  EventFits(u, down'[u][i], open', enjoy', revealed', awaited'[u])
        BY DEF EventsFit
    <2>1. EventFits(u, down'[u][i], open, enjoy, revealed, awaited[u])
        BY <1>4 DEF TabFits, EventsFit
    <2>2. QED
        BY <2>1 DEF EventFits, server
<1>10. WayFits(u)' /\ LeftFits(u)'
    BY <1>2 DEF WayFits, LeftFits
<1>11. SeatFits(u)'
    BY <1>2 DEF TabFits, SeatFits, server
<1>12. ShownFits(u)'
    BY <1>3 DEF TabFits, ShownFits, server
<1>13. StaysFits(u)'
    BY <1>3, <1>4 DEF TabFits, StaysFits, server
<1>14. QED
    BY <1>7, <1>8, <1>9, <1>10, <1>11, <1>12, <1>13 DEF TabFits

-----------------------------------------------------------------------------
(* Messages, counted.                                                      *)

\* How many times an event is in a queue.
Count(d, x) == Cardinality({i \in DOMAIN d : d[i] = x})
One(b) == IF b THEN 1 ELSE 0

LEMMA CountType ==
    ASSUME NEW d \in Seq(Event), NEW x
    PROVE  Count(d, x) \in Nat /\ IsFiniteSet({i \in DOMAIN d : d[i] = x})
<1>1. IsFiniteSet(DOMAIN d)
    BY FS_Interval
<1>2. {i \in DOMAIN d : d[i] = x} \in SUBSET DOMAIN d
    OBVIOUS
<1>3. IsFiniteSet({i \in DOMAIN d : d[i] = x})
    BY <1>1, <1>2, FS_Subset
<1>4. QED
    BY <1>3, FS_CardinalityType DEF Count

LEMMA CountFew ==
    ASSUME NEW y, NEW x
    PROVE  Count(<<>>, x) = 0 /\ Count(<<y>>, x) = One(y = x)
<1>1. {i \in DOMAIN <<>> : <<>>[i] = x} = {}
    OBVIOUS
<1>2. y = x => {i \in DOMAIN <<y>> : <<y>>[i] = x} = {1}
    OBVIOUS
<1>3. y # x => {i \in DOMAIN <<y>> : <<y>>[i] = x} = {}
    OBVIOUS
<1>4. QED
    BY <1>1, <1>2, <1>3, FS_EmptySet, FS_Singleton DEF Count, One

LEMMA CountAdded ==
    ASSUME NEW d \in Seq(Event), NEW y \in Event, NEW x
    PROVE  Count(d \o <<y>>, x) = Count(d, x) + One(y = x)
<1> DEFINE in == {i \in DOMAIN d : d[i] = x}
           all == {i \in DOMAIN (d \o <<y>>) : (d \o <<y>>)[i] = x}
           n == Len(d) + 1
<1>1. /\ DOMAIN (d \o <<y>>) = DOMAIN d \cup {n} /\ n \notin DOMAIN d
      /\ (d \o <<y>>)[n] = y /\ \A i \in DOMAIN d : (d \o <<y>>)[i] = d[i]
    OBVIOUS
<1>2. IsFiniteSet(in) /\ Cardinality(in) \in Nat
    BY CountType DEF Count
<1>3. n \notin in
    BY <1>1
<1>4. y = x => all = in \cup {n}
    BY <1>1
<1>5. y # x => all = in
    BY <1>1
<1>6. Count(d, x) = Cardinality(in) /\ Count(d \o <<y>>, x) = Cardinality(all)
    BY DEF Count
<1> HIDE DEF in, all, n
<1>7. Cardinality(in \cup {n}) = Cardinality(in) + 1
    BY <1>2, <1>3, FS_AddElement
<1>8. CASE y = x
    BY <1>2, <1>4, <1>6, <1>7, <1>8 DEF One
<1>9. CASE y # x
    BY <1>2, <1>5, <1>6, <1>9 DEF One
<1>10. QED
    BY <1>8, <1>9

LEMMA CountLeft ==
    ASSUME NEW d \in Seq(Event), d # <<>>, NEW x
    PROVE  Count(d, x) = One(Head(d) = x) + Count(Tail(d), x)
<1> DEFINE t == Tail(d)
           all == {i \in DOMAIN d : d[i] = x}
           in == {i \in DOMAIN t : t[i] = x}
           moved == {i \in DOMAIN d : i # 1 /\ d[i] = x}
<1>1. /\ t \in Seq(Event) /\ Head(d) = d[1] /\ 1 \in DOMAIN d
      /\ \A i \in DOMAIN t : i + 1 \in DOMAIN d /\ t[i] = d[i + 1] /\ i + 1 # 1 /\ i \in Nat
      /\ \A i \in DOMAIN d : i # 1 => i - 1 \in DOMAIN t /\ t[i - 1] = d[i] /\ (i - 1) + 1 = i
    OBVIOUS
<1>2. IsFiniteSet(in) /\ IsFiniteSet(all) /\ Cardinality(in) \in Nat /\ Cardinality(all) \in Nat
    <2>1. IsFiniteSet(all) /\ Count(d, x) \in Nat
        BY CountType
    <2>2. IsFiniteSet(in) /\ Count(t, x) \in Nat
        <3> HIDE DEF t
        <3>1. QED
            BY <1>1, CountType, ZenonT(40)
    <2>3. QED
        BY <2>1, <2>2 DEF Count
<1>3. IsFiniteSet(moved) /\ Cardinality(moved) = Cardinality(in)
    <2> DEFINE f == [i \in in |-> i + 1]
    <2>1. f \in [in -> moved]
        BY <1>1
    <2>2. \A i, j \in in : f[i] = f[j] => i = j
        BY <1>1
    <2>3. \A k \in moved : \E i \in in : f[i] = k
        <3>1. TAKE k \in moved
        <3>2. k - 1 \in in /\ (k - 1) + 1 = k
            BY <1>1
        <3>3. QED
            BY <3>2
    <2>4. f \in Bijection(in, moved)
        BY <2>1, <2>2, <2>3 DEF Bijection, Injection, Surjection, IsInjective
    <2>5. ExistsBijection(in, moved)
        BY <2>4 DEF ExistsBijection
    <2>6. QED
        BY <1>2, <2>5, FS_Bijection
<1>4. Head(d) = x => all = moved \cup {1}
    BY <1>1
<1>5. Head(d) # x => all = moved
    BY <1>1
<1>6. 1 \notin moved
    OBVIOUS
<1>7. Count(d, x) = Cardinality(all) /\ Count(Tail(d), x) = Cardinality(in)
    BY DEF Count
<1> HIDE DEF in, all, moved, t
<1>8. Cardinality(moved \cup {1}) = Cardinality(moved) + 1
    BY <1>3, <1>6, FS_AddElement
<1>9. CASE Head(d) = x
    <2>1. One(Head(d) = x) = 1
        BY <1>9 DEF One
    <2>2. Cardinality(all) = Cardinality(in) + 1
        BY <1>3, <1>4, <1>8, <1>9
    <2>3. QED
        BY <1>2, <1>7, <2>1, <2>2
<1>10. CASE Head(d) # x
    BY <1>2, <1>3, <1>5, <1>7, <1>10 DEF One
<1>11. QED
    BY <1>9, <1>10

\* An event that is nowhere.
LEMMA CountNone ==
    ASSUME NEW d \in Seq(Event), NEW x, ~Has(d, x.event)
    PROVE  Count(d, x) = 0
<1>1. {i \in DOMAIN d : d[i] = x} = {}
    BY DEF Has
<1>2. QED
    BY <1>1, FS_EmptySet DEF Count

\* The messages a tab has, or will get, and those its partner shows as sent.
Arrived(s, d) == s.heard + Count(d, Note("receive_message"))
Acked(s, call, d) == s.said + (IF call = "send_message" THEN Count(d, Ack("ok")) ELSE 0)

LEMMA TextsRead ==
    /\ TextsAgree <=>
          \A u, v \in inChat : u # v /\ v \notin missed =>
              /\ Acked(shown[u], awaited[u], down[u]) <= Arrived(shown[v], down[v])
              /\ u \notin missed => Acked(shown[u], awaited[u], down[u]) = Arrived(shown[v], down[v])
    /\ TextsAgree' <=>
          \A u, v \in inChat' : u # v /\ v \notin missed' =>
              /\ Acked(shown'[u], awaited'[u], down'[u]) <= Arrived(shown'[v], down'[v])
              /\ u \notin missed' => Acked(shown'[u], awaited'[u], down'[u]) = Arrived(shown'[v], down'[v])
BY DEF TextsAgree, Acked, Arrived, OnWay, Count, Note, Ack

LEMMA TextsType ==
    ASSUME ChatTypeOK, NEW u \in Users
    PROVE  Acked(shown[u], awaited[u], down[u]) \in Nat /\ Arrived(shown[u], down[u]) \in Nat
<1>1. shown[u] \in Shown /\ down[u] \in Seq(Event)
    BY DEF ChatTypeOK
<1>2. shown[u].said \in Nat /\ shown[u].heard \in Nat
    BY <1>1 DEF Shown
<1>3. \A x : Count(down[u], x) \in Nat
    BY <1>1, CountType
<1>4. QED
    BY <1>2, <1>3 DEF Acked, Arrived

\* Steps that add and deliver nothing, but may lose.
LEMMA TextsKept ==
    ASSUME TextsAgree, ChatTypeOK, inChat' \subseteq inChat, missed \subseteq missed',
           ChatTypeOK',
           \A w \in inChat' :
              /\ Acked(shown'[w], awaited'[w], down'[w]) <= Acked(shown[w], awaited[w], down[w])
              /\ w \notin missed' =>
                    /\ Acked(shown'[w], awaited'[w], down'[w]) = Acked(shown[w], awaited[w], down[w])
                    /\ Arrived(shown'[w], down'[w]) = Arrived(shown[w], down[w])
    PROVE  TextsAgree'
<1> SUFFICES ASSUME NEW u \in inChat', NEW v \in inChat', u # v, v \notin missed'
             PROVE  /\ Acked(shown'[u], awaited'[u], down'[u]) <= Arrived(shown'[v], down'[v])
                    /\ u \notin missed' => Acked(shown'[u], awaited'[u], down'[u]) = Arrived(shown'[v], down'[v])
    BY TextsRead
<1>1. u \in inChat /\ v \in inChat /\ v \notin missed /\ u \in Users /\ v \in Users
    BY DEF ChatTypeOK
<1>2. /\ Acked(shown[u], awaited[u], down[u]) <= Arrived(shown[v], down[v])
      /\ u \notin missed => Acked(shown[u], awaited[u], down[u]) = Arrived(shown[v], down[v])
    BY <1>1, TextsRead
<1>3. Acked(shown[u], awaited[u], down[u]) \in Nat /\ Arrived(shown[v], down[v]) \in Nat
    BY <1>1, TextsType
<1>4. Acked(shown'[u], awaited'[u], down'[u]) \in Nat
    <2>1. shown'[u] \in Shown /\ down'[u] \in Seq(Event)
        BY <1>1 DEF ChatTypeOK
    <2>2. shown'[u].said \in Nat /\ Count(down'[u], Ack("ok")) \in Nat
        BY <2>1, CountType DEF Shown
    <2>3. QED
        BY <2>2 DEF Acked
<1> DEFINE a == Acked(shown[u], awaited[u], down[u])
           b == Acked(shown'[u], awaited'[u], down'[u])
<1>5. /\ b <= a /\ (u \notin missed' => b = a)
      /\ Arrived(shown'[v], down'[v]) = Arrived(shown[v], down[v])
      /\ u \notin missed' => u \notin missed
    OBVIOUS
<1> HIDE DEF a, b
<1>6. a <= Arrived(shown[v], down[v]) /\ (u \notin missed => a = Arrived(shown[v], down[v]))
    BY <1>2 DEF a
<1>7. a \in Nat /\ b \in Nat
    BY <1>3, <1>4 DEF a, b
<1>8. /\ b <= Arrived(shown'[v], down'[v])
      /\ u \notin missed' => b = Arrived(shown'[v], down'[v])
    BY <1>3, <1>5, <1>6, <1>7
<1>9. QED
    BY <1>8 DEF b

-----------------------------------------------------------------------------
(* What the server does.                                                   *)

\* What a member gets of an event told to some.
Gets(w, who, e) == IF w \in who /\ Hears(w) THEN <<e>> ELSE <<>>
To(who, e) == [v \in Users |-> IF v \in who THEN <<e>> ELSE <<>>]
Missing(who) == {v \in inChat : v \in who /\ ~Hears(v)}
Waits(u) == u \in inChat /\ Head(up[u]).waited
Reached(u, who, e, r) ==
    /\ down' = [w \in Users |-> IF w = u /\ Waits(u) THEN (down[w] \o Gets(w, who, e)) \o <<Ack(r)>>
                                ELSE down[w] \o Gets(w, who, e)]
    /\ missed' = missed \cup Missing(who)

\* How a call is handled: who is told of what, and what the caller is answered.
Outcome(u, who, e, r) ==
    LET call == Head(up[u]).call
    IN  /\ who \subseteq Users /\ e \in Event /\ r \in Result
        /\ Reached(u, who, e, r)
        /\ open' \in BOOLEAN /\ seat' \in [Users -> {"live", "stale", "away"}]
        /\ enjoy' \subseteq Users /\ friendReq' \subseteq Users /\ extendReq' \subseteq Users
        /\ revealed' \in BOOLEAN /\ term' \in 0..(Terms - 1)
        /\ e.event # "ack"
        /\ e.event = "enjoy_mutual" /\ open' => enjoy' = Users
        /\ e.event = "revealed" /\ open' => revealed'
        /\ open' => open /\ enjoy \subseteq enjoy' /\ (revealed => revealed')
        /\ open /\ ~open' => /\ call \in {"skip", "start_chat"} \/ (call = "report" /\ r = "ok")
                             /\ Users \ {u} \subseteq who /\ e.event = "partner_left"
        /\ \A w \in Users : w # u => seat'[w] = seat[w]
        /\ call # "rejoin" => seat'[u] = seat[u]
        /\ call = "rejoin" => \/ open /\ open' /\ seat'[u] = "live"
                              \/ ~open /\ r = "error" /\ seat'[u] = seat[u]
        /\ call = "start_chat" /\ seat[u] = "live" /\ open' => u \in refused'
        /\ call = "enjoy" /\ open' => /\ r = "mutual" => enjoy' = Users
                                      /\ r # "error" => u \in enjoy'
        /\ IF call = "send_message" /\ r = "ok"
           THEN e = Note("receive_message") /\ who = Users \ {u}
           ELSE e.event # "receive_message" /\ (call = "send_message" => r = "error")

LEMMA AckType ==
    ASSUME NEW r \in Result
    PROVE  /\ Ack(r) \in Event /\ Ack(r).event = "ack" /\ Ack(r).result = r
           /\ \A s \in Result : Ack(r) = Ack(s) => r = s
<1>1. 0 \in 0..(Terms - 1)
    BY BoundAssumption
<1>2. QED
    BY <1>1 DEF Ack, Event, Events

LEMMA NoteType ==
    ASSUME NEW n \in Events
    PROVE  Note(n) \in Event /\ Note(n).event = n
<1>1. 0 \in 0..(Terms - 1)
    BY BoundAssumption
<1>2. QED
    BY <1>1 DEF Note, Event, Result

\* What a queue is after a step of the server.
LEMMA GetsFits ==
    ASSUME NEW w \in Users, NEW who, NEW e \in Event, e.event # "ack"
    PROVE  /\ Gets(w, who, e) \in Seq(Event) /\ ~Has(Gets(w, who, e), "ack")
           /\ Gets(w, who, e) = <<>> \/ (Hears(w) /\ w \in who /\ Gets(w, who, e) = <<e>>)
           /\ \A i \in DOMAIN Gets(w, who, e) : Gets(w, who, e)[i] = e
           /\ w \in who /\ Hears(w) => Has(Gets(w, who, e), e.event)
<1>1. CASE w \in who /\ Hears(w)
    <2>1. Gets(w, who, e) = <<e>>
        BY <1>1 DEF Gets
    <2>2. <<e>> \in Seq(Event) /\ \A i \in DOMAIN <<e>> : <<e>>[i] = e
        OBVIOUS
    <2>3. ~Has(<<e>>, "ack") /\ Has(<<e>>, e.event)
        BY HasFew
    <2>4. QED
        BY <1>1, <2>1, <2>2, <2>3
<1>2. CASE ~(w \in who /\ Hears(w))
    <2>1. Gets(w, who, e) = <<>>
        BY <1>2 DEF Gets
    <2>2. QED
        BY <1>2, <2>1 DEF Has
<1>3. QED
    BY <1>1, <1>2

\* How many copies of an event x a queue gains.
Notes(w, who, e, x) == IF w \in who /\ Hears(w) /\ e = x THEN 1 ELSE 0
Answers(w, u, r, x) == IF w = u /\ Waits(u) /\ Ack(r) = x THEN 1 ELSE 0

LEMMA CountReached ==
    ASSUME ChatTypeOK, NEW u \in Users, NEW who, NEW e \in Event, NEW r \in Result,
           e.event # "ack", Reached(u, who, e, r), NEW w \in Users, NEW x
    PROVE  /\ down'[w] \in Seq(Event) /\ Count(down[w], x) \in Nat
           /\ Count(down'[w], x) = Count(down[w], x) + Notes(w, who, e, x) + Answers(w, u, r, x)
<1> DEFINE told == down[w] \o Gets(w, who, e)
           ack == Ack(r)
<1>1. down[w] \in Seq(Event) /\ Count(down[w], x) \in Nat
    BY QueueTypes, CountType
<1>2. told \in Seq(Event) /\ Count(told, x) = Count(down[w], x) + Notes(w, who, e, x)
    <2>1. CASE w \in who /\ Hears(w)
        <3>1. told = down[w] \o <<e>>
            BY <2>1 DEF Gets
        <3>2. Notes(w, who, e, x) = One(e = x)
            BY <2>1 DEF Notes, One
        <3>3. down[w] \o <<e>> \in Seq(Event)
            BY <1>1
        <3>4. QED
            BY <1>1, <3>1, <3>2, <3>3, CountAdded
    <2>2. CASE ~(w \in who /\ Hears(w))
        <3>1. told = down[w]
            <4>1. Gets(w, who, e) = <<>>
                BY <2>2, Zenon DEF Gets
            <4>2. down[w] \o <<>> = down[w]
                BY <1>1
            <4>3. QED
                BY <4>1, <4>2
        <3>2. Notes(w, who, e, x) = 0
            BY <2>2 DEF Notes
        <3> HIDE DEF told
        <3>3. QED
            BY <1>1, <3>1, <3>2
    <2>3. QED
        BY <2>1, <2>2
<1>3. ack \in Event
    BY AckType
<1>4. down'[w] = IF w = u /\ Waits(u) THEN told \o <<ack>> ELSE told
    BY DEF Reached
<1> HIDE DEF told, ack
<1>5. Count(told, x) \in Nat
    BY <1>2, CountType
<1>6. CASE w = u /\ Waits(u)
    <2>1. Answers(w, u, r, x) = One(ack = x)
        BY <1>6 DEF Answers, One, ack
    <2>2. Count(told \o <<ack>>, x) = Count(told, x) + One(ack = x)
        BY <1>2, <1>3, CountAdded
    <2>3. told \o <<ack>> \in Seq(Event)
        BY <1>2, <1>3
    <2>4. down'[w] = told \o <<ack>>
        BY <1>4, <1>6
    <2>5. QED
        BY <1>1, <1>2, <2>1, <2>2, <2>3, <2>4 DEF ack
<1>7. CASE ~(w = u /\ Waits(u))
    <2>1. Answers(w, u, r, x) = 0
        BY <1>7 DEF Answers
    <2>2. down'[w] = told
        BY <1>4, <1>7
    <2>3. QED
        BY <1>1, <1>2, <1>5, <2>1, <2>2 DEF ack
<1>8. QED
    BY <1>6, <1>7

\* A handled call keeps every tab.
LEMMA OutcomeTabs ==
    ASSUME ChatInv, NEW u \in Users, up[u] # <<>>, up' = [up EXCEPT ![u] = Tail(@)],
           UNCHANGED <<linked, tab>>, refused \subseteq refused',
           NEW who, NEW e, NEW r, Outcome(u, who, e, r)
    PROVE  \A w \in Users : TabFits(w)'
<1> DEFINE call == Head(up[u]).call
<1>1. ChatTypeOK /\ \A w \in Users : TabFits(w)
    BY DEF ChatInv
<1>2. /\ who \subseteq Users /\ e \in Event /\ r \in Result /\ e.event # "ack"
      /\ Reached(u, who, e, r)
    BY DEF Outcome
<1>3. ASSUME NEW w \in Users
      PROVE  /\ w \in missed => w \in missed'
             /\ w \in refused => w \in refused'
             /\ awaited'[w] = awaited[w] /\ shown'[w] = shown[w]
             /\ w \in linked' <=> w \in linked
             /\ w \in inChat' <=> w \in inChat
             /\ down'[w] = IF w = u /\ Waits(u) THEN (down[w] \o Gets(w, who, e)) \o <<Ack(r)>>
                           ELSE down[w] \o Gets(w, who, e)
             /\ up'[w] = IF w = u THEN Tail(up[u]) ELSE up[w]
    BY <1>1, <1>2 DEF Reached, tab, ChatTypeOK
<1>4. open' => open /\ enjoy \subseteq enjoy' /\ enjoy' \subseteq Users /\ (revealed => revealed')
    BY DEF Outcome
<1>5. ASSUME NEW w \in Users
      PROVE  \A i \in DOMAIN Gets(w, who, e) :
                 EventFits(w, Gets(w, who, e)[i], open', enjoy', revealed', awaited'[w])
    <2>1. EventFits(w, e, open', enjoy', revealed', awaited'[w])
        BY DEF EventFits, Outcome
    <2>2. QED
        BY <1>2, <2>1, GetsFits
<1>6. ASSUME NEW w \in Users, w # u PROVE TabFits(w)'
    <2> DEFINE m == Gets(w, who, e)
    <2>1. m \in Seq(Event) /\ ~Has(m, "ack") /\ (m = <<>> \/ Hears(w))
        BY <1>2, GetsFits
    <2>2. seat'[w] = seat[w]
        BY <1>6 DEF Outcome
    <2>3. down'[w] = down[w] \o m
        BY <1>3, <1>6
    <2>4. open /\ ~open' => (Hears(w) => Has(m, "partner_left"))
        <3>1. open /\ ~open' => w \in who /\ e.event = "partner_left"
            BY <1>6 DEF Outcome
        <3>2. w \in who /\ Hears(w) => Has(m, e.event)
            BY <1>2, GetsFits
        <3>3. QED
            BY <3>1, <3>2
    <2>5. \A i \in DOMAIN m : EventFits(w, m[i], open', enjoy', revealed', awaited'[w])
        BY <1>5
    <2>6. up'[w] = up[w]
        BY <1>3, <1>6
    <2> HIDE DEF m
    <2>7. QED
        BY <1>1, <1>3, <1>4, <2>1, <2>2, <2>3, <2>4, <2>5, <2>6, TabElsewhere
<1>7. TabFits(u)'
    <2> DEFINE m == Gets(u, who, e)
    <2>1. m \in Seq(Event) /\ ~Has(m, "ack") /\ (m = <<>> \/ Hears(u))
        BY <1>2, GetsFits
    <2>2. down'[u] = IF u \in inChat /\ Head(up[u]).waited THEN (down[u] \o m) \o <<Ack(r)>>
                     ELSE down[u] \o m
        BY <1>3 DEF Waits
    <2>3. /\ open /\ ~open' => call \in {"skip", "start_chat"} \/ (call = "report" /\ r = "ok")
          /\ call # "rejoin" => seat'[u] = seat[u]
          /\ call = "rejoin" => \/ open /\ open' /\ seat'[u] = "live"
                                \/ ~open /\ r = "error" /\ seat'[u] = seat[u]
          /\ call = "start_chat" /\ seat[u] = "live" /\ open' => u \in refused'
          /\ call = "send_message" => r \in {"ok", "error"}
          /\ call = "enjoy" /\ open' => /\ r = "mutual" => enjoy' = Users
                                        /\ r # "error" => u \in enjoy'
        BY DEF Outcome
    <2>4. \A i \in DOMAIN m : EventFits(u, m[i], open', enjoy', revealed', awaited'[u])
        BY <1>5
    <2>5. up'[u] = Tail(up[u])
        BY <1>3
    <2> HIDE DEF m
    <2>6. QED
        BY <1>1, <1>2, <1>3, <1>4, <2>1, <2>2, <2>3, <2>4, <2>5, TabHandled
<1>8. QED
    BY <1>6, <1>7

\* A call the tab awaits is the one that is answered; another was given up.
LEMMA WaitsFits ==
    ASSUME ChatInv, NEW u \in Users, up[u] # <<>>
    PROVE  /\ Waits(u) => awaited[u] = Head(up[u]).call
           /\ u \in inChat /\ ~Waits(u) => u \in missed
<1>1. ChatTypeOK /\ TabFits(u) /\ up[u] \in Seq(Call) /\ down[u] \in Seq(Event)
    BY QueueTypes DEF ChatInv
<1>2. u \in inChat => AnswerIsDue(down[u], up[u], awaited[u]) /\ CallFits(u, Head(up[u]))
    BY <1>1 DEF TabFits, CallsFit
<1>3. Ack("ok") \in Event /\ Ack("ok").event = "ack"
    BY AckType DEF Result
<1>4. Waits(u) => awaited[u] = Head(up[u]).call
    <2> SUFFICES ASSUME u \in inChat, Head(up[u]).waited PROVE awaited[u] = Head(up[u]).call
        BY DEF Waits
    <2>1. AnswerIsDue(down[u], up[u], awaited[u])
        BY <1>2
    <2> DEFINE x == Ack("ok")
    <2>2. x \in Event /\ x.event = "ack"
        BY <1>3
    <2> HIDE DEF x
    <2>3. QED
        BY <1>1, <2>1, <2>2, DueHandled
<1>5. QED
    BY <1>2, <1>4 DEF Waits, CallFits

\* A handled call keeps the messages in agreement.
LEMMA OutcomeTexts ==
    ASSUME ChatInv, ChatTypeOK', NEW u \in Users, up[u] # <<>>,
           UNCHANGED tab, NEW who, NEW e, NEW r, Outcome(u, who, e, r)
    PROVE  TextsAgree'
<1> DEFINE call == Head(up[u]).call
           RM == Note("receive_message")
           OK == Ack("ok")
           Is(w) == Notes(w, who, e, RM)
           Acks(w) == IF awaited[w] = "send_message" THEN Answers(w, u, r, OK) ELSE 0
<1>1. /\ ChatTypeOK /\ TextsAgree /\ e \in Event /\ r \in Result /\ e.event # "ack"
      /\ Reached(u, who, e, r) /\ inChat \subseteq Users
    BY DEF ChatInv, Outcome, ChatTypeOK
<1>2. RM \in Event /\ RM.event = "receive_message"
    BY NoteType DEF Events
<1>3. "ok" \in Result /\ OK.event = "ack" /\ Ack(r).event = "ack" /\ (Ack(r) = OK => r = "ok")
    BY <1>1, AckType DEF Result
<1>4. ASSUME NEW w \in Users
      PROVE  /\ Arrived(shown'[w], down'[w]) = Arrived(shown[w], down[w]) + Is(w)
             /\ Acked(shown'[w], awaited'[w], down'[w]) = Acked(shown[w], awaited[w], down[w]) + Acks(w)
             /\ Arrived(shown[w], down[w]) \in Nat
             /\ Acked(shown[w], awaited[w], down[w]) \in Nat
             /\ Is(w) \in {0, 1} /\ Acks(w) \in {0, 1}
    <2>0. \A x : /\ Count(down'[w], x) = Count(down[w], x) + Notes(w, who, e, x) + Answers(w, u, r, x)
                 /\ Count(down[w], x) \in Nat
        BY <1>1, CountReached
    <2>1. /\ Count(down'[w], RM) = Count(down[w], RM) + Is(w) + Answers(w, u, r, RM)
          /\ Count(down[w], RM) \in Nat
        BY <2>0
    <2>2. /\ Count(down'[w], OK) = Count(down[w], OK) + Notes(w, who, e, OK) + Answers(w, u, r, OK)
          /\ Count(down[w], OK) \in Nat
        BY <2>0
    <2>3. Answers(w, u, r, RM) = 0
        BY <1>2, <1>3 DEF Notes, Answers
    <2>4. Notes(w, who, e, OK) = 0
        BY <1>1, <1>3 DEF Notes, Answers
    <2>5. shown'[w] = shown[w] /\ awaited'[w] = awaited[w]
        BY DEF tab
    <2>6. shown[w].said \in Nat /\ shown[w].heard \in Nat
        BY <1>1 DEF ChatTypeOK, Shown
    <2>7. Is(w) \in {0, 1} /\ Acks(w) \in {0, 1}
        BY DEF Notes, Answers
    <2>8. /\ Arrived(shown[w], down[w]) = shown[w].heard + Count(down[w], RM)
          /\ Arrived(shown'[w], down'[w]) = shown[w].heard + Count(down'[w], RM)
        BY <2>5 DEF Arrived
    <2>9. /\ Acked(shown[w], awaited[w], down[w]) =
                shown[w].said + (IF awaited[w] = "send_message" THEN Count(down[w], OK) ELSE 0)
          /\ Acked(shown'[w], awaited'[w], down'[w]) =
                shown[w].said + (IF awaited[w] = "send_message" THEN Count(down'[w], OK) ELSE 0)
        BY <2>5 DEF Acked
    <2> HIDE DEF RM, OK
    <2>10. Arrived(shown'[w], down'[w]) = Arrived(shown[w], down[w]) + Is(w)
        <3> HIDE DEF Is
        <3>1. QED
            BY <2>1, <2>3, <2>6, <2>7, <2>8
    <2>11. CASE awaited[w] = "send_message"
        <3> DEFINE n == Answers(w, u, r, OK)
        <3>1. n \in {0, 1} /\ Acks(w) = n
            BY <2>11 DEF Notes, Answers
        <3>2. /\ Acked(shown[w], awaited[w], down[w]) = shown[w].said + Count(down[w], OK)
              /\ Acked(shown'[w], awaited'[w], down'[w]) = shown[w].said + Count(down'[w], OK)
            BY <2>9, <2>11
        <3>3. Count(down'[w], OK) = Count(down[w], OK) + n
            <4>1. Count(down'[w], OK) = Count(down[w], OK) + 0 + n
                BY <2>2, <2>4
            <4> HIDE DEF n
            <4>2. QED
                BY <2>2, <3>1, <4>1
        <3> HIDE DEF n, Is, Acks
        <3>4. QED
            BY <2>1, <2>2, <2>6, <2>7, <2>8, <2>10, <3>1, <3>2, <3>3, SMTT(30)
    <2>12. CASE awaited[w] # "send_message"
        <3>1. /\ Acked(shown[w], awaited[w], down[w]) = shown[w].said
              /\ Acked(shown'[w], awaited'[w], down'[w]) = shown[w].said
              /\ Acks(w) = 0
            BY <2>6, <2>9, <2>12
        <3> HIDE DEF Is, Acks
        <3>2. QED
            BY <2>1, <2>6, <2>7, <2>8, <2>10, <3>1
    <2>13. QED
        BY <2>11, <2>12
<1>5. inChat' = inChat /\ missed' = missed \cup Missing(who)
    BY <1>1 DEF tab, Reached
<1>6. ASSUME call = "send_message", r = "ok" PROVE TextsAgree'
    <2>1. e = RM /\ who = Users \ {u}
        BY <1>6 DEF Outcome
    <2> SUFFICES ASSUME NEW x \in inChat', NEW y \in inChat', x # y, y \notin missed'
                 PROVE  /\ Acked(shown'[x], awaited'[x], down'[x]) <= Arrived(shown'[y], down'[y])
                        /\ x \notin missed' => Acked(shown'[x], awaited'[x], down'[x]) = Arrived(shown'[y], down'[y])
        BY TextsRead
    <2>2. x \in Users /\ y \in Users /\ x \in inChat /\ y \in inChat /\ y \notin missed /\ y \notin Missing(who)
          /\ (x \notin missed' => x \notin missed)
        BY <1>1, <1>5
    <2>3. /\ Acked(shown[x], awaited[x], down[x]) <= Arrived(shown[y], down[y])
          /\ x \notin missed => Acked(shown[x], awaited[x], down[x]) = Arrived(shown[y], down[y])
        BY <1>1, <2>2, TextsRead
    <2>4. CASE x = u
        <3>1. Is(y) = 1
            BY <2>1, <2>2, <2>4 DEF Notes, Missing
        <3>2. Waits(u) => awaited[u] = "send_message" /\ Acks(u) = 1
            BY <1>6, WaitsFits DEF Notes, Answers
        <3>3. x \notin missed => Acks(x) = 1
            BY <2>2, <2>4, <3>2, WaitsFits
        <3> DEFINE a == Acked(shown[x], awaited[x], down[x])
                   b == Arrived(shown[y], down[y])
                   k == Acks(x)
        <3>4. /\ a \in Nat /\ b \in Nat /\ k \in {0, 1}
              /\ Acked(shown'[x], awaited'[x], down'[x]) = a + k
              /\ Arrived(shown'[y], down'[y]) = b + 1
            <4>1. Arrived(shown'[y], down'[y]) = b + Is(y)
                BY <1>4, <2>2
            <4>2. QED
                BY <1>4, <2>2, <3>1, <4>1
        <3>5. a <= b /\ (x \notin missed' => a = b /\ k = 1)
            BY <2>2, <2>3, <3>3
        <3> HIDE DEF a, b, k
        <3>6. a + k <= b + 1 /\ (x \notin missed' => a + k = b + 1)
            BY <3>4, <3>5
        <3>7. QED
            BY <3>4, <3>6
    <2>5. CASE x # u
        <3>1. y = u
            BY <2>2, <2>5, Members
        <3>2. Is(y) = 0 /\ Acks(x) = 0
            BY <2>1, <2>5, <3>1 DEF Notes, Answers
        <3>3. /\ Acked(shown'[x], awaited'[x], down'[x]) = Acked(shown[x], awaited[x], down[x]) + Acks(x)
              /\ Arrived(shown'[y], down'[y]) = Arrived(shown[y], down[y]) + Is(y)
              /\ Acked(shown[x], awaited[x], down[x]) \in Nat /\ Arrived(shown[y], down[y]) \in Nat
            BY <1>4, <2>2
        <3> HIDE DEF Is, Acks
        <3>4. QED
            BY <2>2, <2>3, <3>2, <3>3
    <2>6. QED
        BY <2>4, <2>5
<1>7. ASSUME ~(call = "send_message" /\ r = "ok") PROVE TextsAgree'
    <2>1. e.event # "receive_message" /\ (call = "send_message" => r = "error")
        BY <1>7 DEF Outcome
    <2>2. ASSUME NEW w \in Users
          PROVE  /\ Acked(shown'[w], awaited'[w], down'[w]) = Acked(shown[w], awaited[w], down[w])
                 /\ Arrived(shown'[w], down'[w]) = Arrived(shown[w], down[w])
                 /\ Acked(shown[w], awaited[w], down[w]) \in Nat
        <3>1. Is(w) = 0
            BY <1>2, <2>1 DEF Notes, Answers
        <3>2. Acks(w) = 0
            BY <1>3, <2>1, WaitsFits DEF Notes, Answers
        <3> HIDE DEF Is, Acks
        <3>3. QED
            BY <1>4, <3>1, <3>2
    <2>3. \A w \in inChat' :
             /\ Acked(shown'[w], awaited'[w], down'[w]) <= Acked(shown[w], awaited[w], down[w])
             /\ w \notin missed' =>
                   /\ Acked(shown'[w], awaited'[w], down'[w]) = Acked(shown[w], awaited[w], down[w])
                   /\ Arrived(shown'[w], down'[w]) = Arrived(shown[w], down[w])
        BY <1>1, <1>5, <2>2
    <2>4. QED
        BY <1>1, <1>5, <2>3, TextsKept
<1>8. QED
    BY <1>6, <1>7

LEMMA OutcomeInv ==
    ASSUME ChatInv, NEW u \in Users, up[u] # <<>>, up' = [up EXCEPT ![u] = Tail(@)],
           UNCHANGED <<linked, tab, texts>>, breaks' \in 0..MaxBreaks,
           refused \subseteq refused', refused' \subseteq Users,
           NEW who, NEW e, NEW r, Outcome(u, who, e, r)
    PROVE  ChatInv'
<1>1. ChatTypeOK /\ e \in Event /\ r \in Result /\ e.event # "ack" /\ Reached(u, who, e, r)
    BY DEF ChatInv, Outcome
<1>2. \A w \in Users : down'[w] \in Seq(Event)
    BY <1>1, CountReached
<1>3. down' \in [Users -> Seq(Event)] /\ missed' \subseteq Users
    BY <1>1, <1>2 DEF Reached, Missing, ChatTypeOK
<1>4. up' \in [Users -> Seq(Call)]
    <2>1. up \in [Users -> Seq(Call)] /\ Tail(up[u]) \in Seq(Call)
        BY <1>1, ItemsLeft DEF ChatTypeOK
    <2>2. QED
        BY <2>1
<1>5. ChatTypeOK'
    BY <1>1, <1>3, <1>4 DEF ChatTypeOK, Outcome, tab
<1>6. TextsAgree'
    BY <1>5, OutcomeTexts
<1>7. \A w \in Users : TabFits(w)'
    BY OutcomeTabs
<1>8. QED
    BY <1>5, <1>6, <1>7 DEF ChatInv

\* rooms.send() and the acknowledgement do what they should.
LEMMA SentReaches ==
    ASSUME ChatTypeOK, NEW who, NEW e \in Event
    PROVE  /\ Sent(To(who, e)) = [w \in Users |-> down[w] \o Gets(w, who, e)]
           /\ Unheard(To(who, e)) = Missing(who)
<1>1. ASSUME NEW w \in Users
      PROVE  (IF Hears(w) THEN down[w] \o To(who, e)[w] ELSE down[w]) = down[w] \o Gets(w, who, e)
    <2>1. down[w] \o <<>> = down[w]
        BY QueueTypes
    <2>2. To(who, e)[w] = IF w \in who THEN <<e>> ELSE <<>>
        BY DEF To
    <2>3. QED
        BY <2>1, <2>2 DEF Gets
<1>2. ASSUME NEW w \in Users PROVE To(who, e)[w] # <<>> <=> w \in who
    BY DEF To
<1>3. inChat \subseteq Users
    BY DEF ChatTypeOK
<1>4. QED
    BY <1>1, <1>2, <1>3 DEF Sent, Unheard, Missing

LEMMA EmitReaches ==
    ASSUME ChatTypeOK, NEW u \in Users, NEW who, NEW e \in Event, NEW r, Emit(u, To(who, e), r)
    PROVE  Reached(u, who, e, r) /\ refused' = refused
<1> DEFINE s == Sent(To(who, e))
<1>1. s = [w \in Users |-> down[w] \o Gets(w, who, e)]
    BY SentReaches
<1>2. ASSUME NEW w \in Users PROVE s[w] \in Seq(Event)
    <2>1. Gets(w, who, e) \in Seq(Event) /\ down[w] \in Seq(Event)
        BY QueueTypes DEF Gets
    <2>2. QED
        BY <1>1, <2>1
<1>3. down' = IF Waits(u) THEN [s EXCEPT ![u] = Append(@, Ack(r))] ELSE s
    BY DEF Emit, Waits
<1>4. missed' = missed \cup Missing(who) /\ refused' = refused
    BY SentReaches DEF Emit
<1>5. Append(s[u], Ack(r)) = s[u] \o <<Ack(r)>>
    <2>1. s[u] \in Seq(Event)
        BY <1>2
    <2> DEFINE x == Ack(r)
    <2> HIDE DEF s, x
    <2>2. Append(s[u], x) = s[u] \o <<x>>
        BY <2>1
    <2>3. QED
        BY <2>2 DEF x
<1> HIDE DEF s
<1>6. down' = [w \in Users |-> IF w = u /\ Waits(u) THEN (down[w] \o Gets(w, who, e)) \o <<Ack(r)>>
                                ELSE down[w] \o Gets(w, who, e)]
    <2>1. CASE Waits(u)
        BY <1>1, <1>3, <1>5, <2>1
    <2>2. CASE ~Waits(u)
        BY <1>1, <1>3, <2>2
    <2>3. QED
        BY <2>1, <2>2
<1>7. QED
    BY <1>4, <1>6 DEF Reached

LEMMA ToAll ==
    ASSUME NEW u \in Users, NEW e
    PROVE  /\ ToBoth(e) = To(Users, e) /\ ToPartner(u, e) = To(Users \ {u}, e)
           /\ ToNobody = To({}, e)
BY DEF ToBoth, ToPartner, ToNobody, To

-----------------------------------------------------------------------------
(* The handlers.                                                           *)

\* Some outcome, with nobody's start_chat refused.
Handled(u) ==
    refused' = refused /\ \E who \in SUBSET Users, e \in Event, r \in Result : Outcome(u, who, e, r)

\* The call is answered, and nobody is told.
LEMMA OnlyAnswered ==
    ASSUME ChatInv, NEW u \in Users, NEW r \in Result, Emit(u, ToNobody, r),
           open' \in BOOLEAN /\ enjoy' \subseteq Users /\ friendReq' \subseteq Users
               /\ extendReq' \subseteq Users /\ revealed' \in BOOLEAN /\ term' \in 0..(Terms - 1),
           open' = open /\ seat' = seat /\ enjoy' = enjoy /\ (revealed => revealed'),
           Head(up[u]).call = "rejoin" => ~open /\ r = "error",
           Head(up[u]).call = "start_chat" => ~(open /\ seat[u] = "live"),
           Head(up[u]).call = "enjoy" => r = "error" \/ (r = "ok" /\ u \in enjoy),
           Head(up[u]).call = "send_message" => r = "error"
    PROVE  Handled(u)
<1> DEFINE e == Note("partner_back")
<1>1. ChatTypeOK
    BY DEF ChatInv
<1>2. e \in Event /\ e.event = "partner_back"
    BY NoteType DEF Events
<1> HIDE DEF e
<1>3. Reached(u, {}, e, r) /\ refused' = refused
    <2>1. Emit(u, To({}, e), r)
        BY ToAll
    <2>2. QED
        BY <1>1, <1>2, <2>1, EmitReaches
<1>4. seat' \in [Users -> {"live", "stale", "away"}]
    BY <1>1 DEF ChatTypeOK
<1>5. Outcome(u, {}, e, r)
    BY <1>2, <1>3, <1>4 DEF Outcome
<1>6. QED
    BY <1>2, <1>3, <1>5 DEF Handled

\* Some are told, in a room that stays.
LEMMA SomeTold ==
    ASSUME ChatInv, NEW u \in Users, NEW r \in Result, NEW who \in SUBSET Users, NEW e \in Event,
           Emit(u, To(who, e), r), open,
           enjoy' \subseteq Users /\ friendReq' \subseteq Users
               /\ extendReq' \subseteq Users /\ revealed' \in BOOLEAN /\ term' \in 0..(Terms - 1),
           open' = open /\ seat' = seat /\ enjoy \subseteq enjoy' /\ (revealed => revealed'),
           Head(up[u]).call \in Asks, e.event \notin {"ack", "receive_message"},
           e.event = "enjoy_mutual" => enjoy' = Users,
           e.event = "revealed" => revealed',
           Head(up[u]).call = "enjoy" => u \in enjoy' /\ (r = "mutual" => enjoy' = Users)
    PROVE  Handled(u)
<1>1. ChatTypeOK
    BY DEF ChatInv
<1>2. Reached(u, who, e, r) /\ refused' = refused
    BY <1>1, EmitReaches
<1>3. seat' \in [Users -> {"live", "stale", "away"}]
    BY <1>1 DEF ChatTypeOK
<1>4. Outcome(u, who, e, r)
    BY <1>1, <1>2, <1>3 DEF Outcome, Asks, ChatTypeOK
<1>5. QED
    BY <1>2, <1>4 DEF Handled

LEMMA EnjoyHandled ==
    ASSUME ChatInv, NEW u \in Users, open, Head(up[u]).call = "enjoy", Enjoy(u)
    PROVE  Handled(u)
<1>1. ChatTypeOK /\ enjoy' = enjoy \cup {u}
      /\ UNCHANGED <<open, seat, friendReq, extendReq, revealed, term>>
    BY DEF ChatInv, Enjoy
<1>2. /\ open' \in BOOLEAN /\ enjoy' \subseteq Users /\ friendReq' \subseteq Users
      /\ extendReq' \subseteq Users /\ revealed' \in BOOLEAN /\ term' \in 0..(Terms - 1)
    BY <1>1 DEF ChatTypeOK
<1>3. {"ok", "mutual"} \subseteq Result
    BY DEF Result
<1>4. CASE u \in enjoy
    <2>1. Emit(u, ToNobody, "ok") /\ enjoy' = enjoy
        BY <1>1, <1>4 DEF Enjoy
    <2>2. QED
        BY <1>1, <1>2, <1>3, <1>4, <2>1, OnlyAnswered
<1>5. CASE u \notin enjoy /\ Partner(u) \in enjoy
    <2> DEFINE e == Note("enjoy_mutual")
    <2>1. e \in Event /\ e.event = "enjoy_mutual"
        BY NoteType DEF Events
    <2>2. Emit(u, To(Users, e), "mutual")
        BY <1>5, ToAll DEF Enjoy
    <2>3. enjoy' = Users
        BY <1>1, <1>2, <1>5, Members
    <2> HIDE DEF e
    <2>4. QED
        BY <1>1, <1>2, <1>3, <2>1, <2>2, <2>3, SomeTold DEF Asks
<1>6. CASE u \notin enjoy /\ Partner(u) \notin enjoy
    <2> DEFINE e == Note("enjoy_request")
    <2>1. e \in Event /\ e.event = "enjoy_request"
        BY NoteType DEF Events
    <2>2. Emit(u, To(Users \ {u}, e), "ok")
        BY <1>6, ToAll DEF Enjoy
    <2> HIDE DEF e
    <2>3. QED
        BY <1>1, <1>2, <1>3, <2>1, <2>2, SomeTold DEF Asks
<1>7. QED
    BY <1>4, <1>5, <1>6

\* An ask that is refused, or answered with nothing else.
LEMMA AskAnswered ==
    ASSUME ChatInv, NEW u \in Users, Head(up[u]).call \in Asks \ {"enjoy"},
           NEW r \in {"ok", "error"}, Emit(u, ToNobody, r), UNCHANGED server
    PROVE  Handled(u)
<1>1. ChatTypeOK
    BY DEF ChatInv
<1>2. UNCHANGED <<open, seat, enjoy, friendReq, extendReq, revealed, term>>
    BY DEF server
<1>3. /\ open' \in BOOLEAN /\ enjoy' \subseteq Users /\ friendReq' \subseteq Users
      /\ extendReq' \subseteq Users /\ revealed' \in BOOLEAN /\ term' \in 0..(Terms - 1)
    BY <1>1, <1>2 DEF ChatTypeOK
<1>4. r \in Result
    BY DEF Result
<1>5. Head(up[u]).call \notin {"rejoin", "start_chat", "enjoy", "send_message"}
    BY DEF Asks
<1>6. QED
    BY <1>2, <1>3, <1>4, <1>5, OnlyAnswered

\* An ask that is passed on, or reveals or extends.
LEMMA AskTold ==
    ASSUME ChatInv, NEW u \in Users, open, Head(up[u]).call \in Asks \ {"enjoy"},
           NEW r \in Result, NEW who \in SUBSET Users, NEW e \in Event, Emit(u, To(who, e), r),
           e.event \notin {"ack", "receive_message", "enjoy_mutual"},
           UNCHANGED <<open, seat, enjoy>>,
           friendReq' \subseteq Users, extendReq' \subseteq Users,
           revealed' = revealed \/ revealed' = TRUE, term' \in 0..(Terms - 1),
           e.event = "revealed" => revealed'
    PROVE  Handled(u)
<1>1. ChatTypeOK
    BY DEF ChatInv
<1>2. enjoy' \subseteq Users /\ revealed' \in BOOLEAN
    BY <1>1 DEF ChatTypeOK
<1>3. QED
    BY <1>2, SomeTold

LEMMA FriendRequestHandled ==
    ASSUME ChatInv, NEW u \in Users, open, Head(up[u]).call = "friend_request", FriendRequest(u)
    PROVE  Handled(u)
<1>1. ChatTypeOK /\ UNCHANGED <<open, seat, enjoy, extendReq, term>>
    BY DEF ChatInv, FriendRequest
<1>2. Head(up[u]).call \in Asks \ {"enjoy"} /\ {"ok", "revealed"} \subseteq Result
    BY DEF Asks, Result
<1>3. extendReq' \subseteq Users /\ term' \in 0..(Terms - 1)
    BY <1>1 DEF ChatTypeOK
<1>4. CASE revealed \/ enjoy # Users
    <2>1. \E r \in {"ok", "error"} : Emit(u, ToNobody, r)
        BY <1>4 DEF FriendRequest
    <2>2. UNCHANGED server
        BY <1>1, <1>4 DEF FriendRequest, server
    <2>3. QED
        BY <1>2, <2>1, <2>2, AskAnswered
<1>5. CASE ~revealed /\ enjoy = Users /\ Partner(u) \in friendReq
    <2> DEFINE e == Note("revealed")
    <2>1. e \in Event /\ e.event = "revealed"
        BY NoteType DEF Events
    <2>2. Emit(u, To(Users, e), "revealed") /\ revealed' = TRUE
        BY <1>5, ToAll DEF FriendRequest, Reveal
    <2>3. friendReq' \subseteq Users
        BY <1>1, <1>5 DEF FriendRequest, ChatTypeOK
    <2> HIDE DEF e
    <2>4. QED
        BY <1>1, <1>2, <1>3, <2>1, <2>2, <2>3, AskTold
<1>6. CASE ~revealed /\ enjoy = Users /\ Partner(u) \notin friendReq
    <2> DEFINE e == Note("friend_request")
    <2>1. e \in Event /\ e.event = "friend_request"
        BY NoteType DEF Events
    <2>2. Emit(u, To(Users \ {u}, e), "ok") /\ revealed' = revealed
        BY <1>6, ToAll DEF FriendRequest
    <2>3. friendReq' \subseteq Users
        BY <1>1, <1>6 DEF FriendRequest, ChatTypeOK
    <2> HIDE DEF e
    <2>4. QED
        BY <1>1, <1>2, <1>3, <2>1, <2>2, <2>3, AskTold
<1>7. QED
    BY <1>4, <1>5, <1>6

LEMMA FriendRespondHandled ==
    ASSUME ChatInv, NEW u \in Users, open, Head(up[u]).call \in {"friend_accept", "friend_reject"},
           NEW accept \in BOOLEAN, FriendRespond(u, accept)
    PROVE  Handled(u)
<1>1. ChatTypeOK /\ UNCHANGED <<open, seat, enjoy, extendReq, term>>
    BY DEF ChatInv, FriendRespond
<1>2. Head(up[u]).call \in Asks \ {"enjoy"} /\ {"ok", "revealed"} \subseteq Result
    BY DEF Asks, Result
<1>3. extendReq' \subseteq Users /\ term' \in 0..(Terms - 1)
    BY <1>1 DEF ChatTypeOK
<1>4. CASE Partner(u) \notin friendReq
    <2>1. Emit(u, ToNobody, "error")
        BY <1>4 DEF FriendRespond
    <2>2. UNCHANGED server
        BY <1>1, <1>4 DEF FriendRespond, server
    <2>3. QED
        BY <1>2, <2>1, <2>2, AskAnswered
<1>5. CASE Partner(u) \in friendReq /\ accept
    <2> DEFINE e == Note("revealed")
    <2>1. e \in Event /\ e.event = "revealed"
        BY NoteType DEF Events
    <2>2. Emit(u, To(Users, e), "revealed") /\ revealed' = TRUE
        BY <1>5, ToAll DEF FriendRespond, Reveal
    <2>3. friendReq' \subseteq Users
        BY <1>1, <1>5 DEF FriendRespond, ChatTypeOK
    <2> HIDE DEF e
    <2>4. QED
        BY <1>1, <1>2, <1>3, <2>1, <2>2, <2>3, AskTold
<1>6. CASE Partner(u) \in friendReq /\ ~accept
    <2> DEFINE e == Note("friend_reject")
    <2>1. e \in Event /\ e.event = "friend_reject"
        BY NoteType DEF Events
    <2>2. Emit(u, To(Users \ {u}, e), "ok") /\ revealed' = revealed
        BY <1>6, ToAll DEF FriendRespond
    <2>3. friendReq' \subseteq Users
        BY <1>1, <1>6 DEF FriendRespond, ChatTypeOK
    <2> HIDE DEF e
    <2>4. QED
        BY <1>1, <1>2, <1>3, <2>1, <2>2, <2>3, AskTold
<1>7. QED
    BY <1>4, <1>5, <1>6

LEMMA NextTermType == ASSUME ChatTypeOK PROVE NextTerm \in 0..(Terms - 1)
<1>1. Terms \in Nat \ {0} /\ term \in Nat
    BY BoundAssumption DEF ChatTypeOK
<1>2. \A a \in Nat, b \in Nat \ {0} : a % b \in 0..(b - 1)
    OBVIOUS
<1>3. term + 1 \in Nat
    BY <1>1
<1>4. QED
    BY <1>1, <1>2, <1>3 DEF NextTerm

LEMMA ExtendRoomHandled ==
    ASSUME ChatInv, NEW u \in Users, open, Head(up[u]).call \in Asks \ {"enjoy"},
           UNCHANGED <<open, seat, enjoy, friendReq, revealed>>, ExtendRoom(u)
    PROVE  Handled(u)
<1> DEFINE e == [Note("extend_accept") EXCEPT !.term = NextTerm]
<1>1. ChatTypeOK /\ "ok" \in Result
    BY DEF ChatInv, Result
<1>2. e \in Event /\ e.event = "extend_accept"
    BY <1>1, NextTermType DEF Note, Event, Events, Result
<1>3. Emit(u, To(Users, e), "ok")
    BY ToAll DEF ExtendRoom
<1> HIDE DEF e
<1>4. extendReq' \subseteq Users /\ term' \in 0..(Terms - 1) /\ friendReq' \subseteq Users
    BY <1>1, NextTermType DEF ExtendRoom, ChatTypeOK
<1>5. QED
    BY <1>1, <1>2, <1>3, <1>4, AskTold

LEMMA ExtendRequestHandled ==
    ASSUME ChatInv, NEW u \in Users, open, Head(up[u]).call = "extend_request", ExtendRequest(u)
    PROVE  Handled(u)
<1>1. ChatTypeOK /\ UNCHANGED <<open, seat, enjoy, friendReq, revealed>>
    BY DEF ChatInv, ExtendRequest
<1>2. Head(up[u]).call \in Asks \ {"enjoy"} /\ "ok" \in Result
    BY DEF Asks, Result
<1>3. CASE Partner(u) \in extendReq
    BY <1>1, <1>2, <1>3, ExtendRoomHandled DEF ExtendRequest
<1>4. CASE Partner(u) \notin extendReq
    <2> DEFINE e == Note("extend_request")
    <2>1. e \in Event /\ e.event = "extend_request"
        BY NoteType DEF Events
    <2>2. Emit(u, To(Users \ {u}, e), "ok") /\ term' = term
        BY <1>4, ToAll DEF ExtendRequest
    <2>3. extendReq' \subseteq Users /\ friendReq' \subseteq Users /\ term' \in 0..(Terms - 1)
        BY <1>1, <1>4, <2>2 DEF ExtendRequest, ChatTypeOK
    <2> HIDE DEF e
    <2>4. QED
        BY <1>1, <1>2, <2>1, <2>2, <2>3, AskTold
<1>5. QED
    BY <1>3, <1>4

LEMMA ExtendRespondHandled ==
    ASSUME ChatInv, NEW u \in Users, open, Head(up[u]).call \in {"extend_accept", "extend_reject"},
           NEW accept \in BOOLEAN, ExtendRespond(u, accept)
    PROVE  Handled(u)
<1>1. ChatTypeOK /\ UNCHANGED <<open, seat, enjoy, friendReq, revealed>>
    BY DEF ChatInv, ExtendRespond
<1>2. Head(up[u]).call \in Asks \ {"enjoy"} /\ "ok" \in Result
    BY DEF Asks, Result
<1>3. CASE Partner(u) \notin extendReq
    <2>1. Emit(u, ToNobody, "error")
        BY <1>3 DEF ExtendRespond
    <2>2. UNCHANGED server
        BY <1>1, <1>3 DEF ExtendRespond, server
    <2>3. QED
        BY <1>2, <2>1, <2>2, AskAnswered
<1>4. CASE Partner(u) \in extendReq /\ accept
    BY <1>1, <1>2, <1>4, ExtendRoomHandled DEF ExtendRespond
<1>5. CASE Partner(u) \in extendReq /\ ~accept
    <2> DEFINE e == Note("extend_reject")
    <2>1. e \in Event /\ e.event = "extend_reject"
        BY NoteType DEF Events
    <2>2. Emit(u, To(Users \ {u}, e), "ok") /\ term' = term
        BY <1>5, ToAll DEF ExtendRespond
    <2>3. extendReq' \subseteq Users /\ friendReq' \subseteq Users /\ term' \in 0..(Terms - 1)
        BY <1>1, <1>5, <2>2 DEF ExtendRespond, ChatTypeOK
    <2> HIDE DEF e
    <2>4. QED
        BY <1>1, <1>2, <2>1, <2>2, <2>3, AskTold
<1>6. QED
    BY <1>3, <1>4, <1>5

LEMMA CloseHandled ==
    ASSUME ChatInv, NEW u \in Users, open, Head(up[u]).call \in {"skip", "start_chat", "report"}, Close(u)
    PROVE  Handled(u)
<1> DEFINE e == Note("partner_left")
<1>1. ChatTypeOK /\ "ok" \in Result /\ 0 \in 0..(Terms - 1)
    BY BoundAssumption DEF ChatInv, Result
<1>2. e \in Event /\ e.event = "partner_left"
    BY NoteType DEF Events
<1>3. Emit(u, To(Users \ {u}, e), "ok")
    BY ToAll DEF Close
<1> HIDE DEF e
<1>4. Reached(u, Users \ {u}, e, "ok") /\ refused' = refused
    BY <1>1, <1>2, <1>3, EmitReaches
<1>5. /\ open' = FALSE /\ enjoy' = {} /\ friendReq' = {} /\ extendReq' = {}
      /\ revealed' = FALSE /\ term' = 0 /\ seat' = seat
      /\ seat \in [Users -> {"live", "stale", "away"}]
    BY <1>1 DEF Close, Forget, ChatTypeOK
<1>6. Outcome(u, Users \ {u}, e, "ok")
    BY <1>1, <1>2, <1>4, <1>5 DEF Outcome
<1>7. QED
    BY <1>1, <1>2, <1>4, <1>6 DEF Handled

LEMMA RejoinHandled ==
    ASSUME ChatInv, NEW u \in Users, open, Head(up[u]).call = "rejoin", Rejoin(u)
    PROVE  Handled(u)
<1> DEFINE e == Note("partner_back")
<1>1. ChatTypeOK /\ "ok" \in Result
    BY DEF ChatInv, Result
<1>2. e \in Event /\ e.event = "partner_back"
    BY NoteType DEF Events
<1>3. Emit(u, To(Users \ {u}, e), "ok")
    BY ToAll DEF Rejoin
<1> HIDE DEF e
<1>4. Reached(u, Users \ {u}, e, "ok") /\ refused' = refused
    BY <1>1, <1>2, <1>3, EmitReaches
<1>5. /\ UNCHANGED <<open, enjoy, friendReq, extendReq, revealed, term>>
      /\ seat' \in [Users -> {"live", "stale", "away"}] /\ seat'[u] = "live"
      /\ \A w \in Users : w # u => seat'[w] = seat[w]
    BY <1>1 DEF Rejoin, ChatTypeOK
<1>6. Outcome(u, Users \ {u}, e, "ok")
    BY <1>1, <1>2, <1>4, <1>5 DEF Outcome, ChatTypeOK
<1>7. QED
    BY <1>1, <1>2, <1>4, <1>6 DEF Handled

LEMMA MessageHandled ==
    ASSUME ChatInv, NEW u \in Users, open, Head(up[u]).call = "send_message", Message(u)
    PROVE  Handled(u)
<1> DEFINE e == Note("receive_message")
<1>1. ChatTypeOK /\ "ok" \in Result
    BY DEF ChatInv, Result
<1>2. e \in Event /\ e.event = "receive_message"
    BY NoteType DEF Events
<1>3. Emit(u, To(Users \ {u}, e), "ok")
    BY ToAll DEF Message
<1>0. e = Note("receive_message")
    OBVIOUS
<1> HIDE DEF e
<1>4. Reached(u, Users \ {u}, e, "ok") /\ refused' = refused
    BY <1>1, <1>2, <1>3, EmitReaches
<1>5. UNCHANGED <<open, seat, enjoy, friendReq, extendReq, revealed, term>>
    BY DEF Message, server
<1>6. Outcome(u, Users \ {u}, e, "ok")
    BY <1>0, <1>1, <1>2, <1>4, <1>5 DEF Outcome, ChatTypeOK
<1>7. QED
    BY <1>1, <1>2, <1>4, <1>6 DEF Handled

\* A report of a room that is closed, and a call that is refused.
LEMMA OutsideHandled ==
    ASSUME ChatInv, NEW u \in Users, NEW r \in {"ok", "error"}, Emit(u, ToNobody, r), UNCHANGED server,
           Head(up[u]).call # "report" => r = "error" /\ ~Allowed(u, Head(up[u]).call)
    PROVE  Handled(u)
<1>1. ChatTypeOK
    BY DEF ChatInv
<1>2. UNCHANGED <<open, seat, enjoy, friendReq, extendReq, revealed, term>>
    BY DEF server
<1>3. /\ open' \in BOOLEAN /\ enjoy' \subseteq Users /\ friendReq' \subseteq Users
      /\ extendReq' \subseteq Users /\ revealed' \in BOOLEAN /\ term' \in 0..(Terms - 1)
    BY <1>1, <1>2 DEF ChatTypeOK
<1>4. r \in Result
    BY DEF Result
<1>5. /\ Head(up[u]).call = "rejoin" => ~open /\ r = "error"
      /\ Head(up[u]).call = "start_chat" => ~(open /\ seat[u] = "live")
    BY DEF Allowed, Access, EndsRoom
<1>6. QED
    BY <1>2, <1>3, <1>4, <1>5, OnlyAnswered

LEMMA HandlerHandled ==
    ASSUME ChatInv, NEW u \in Users, open, NEW call, call = Head(up[u]).call, Handler(u, call)
    PROVE  Handled(u)
<1>1. CASE call = "enjoy" /\ Enjoy(u)
    BY <1>1, EnjoyHandled
<1>2. CASE call = "friend_request" /\ FriendRequest(u)
    BY <1>2, FriendRequestHandled
<1>3. CASE call = "friend_accept" /\ FriendRespond(u, TRUE)
    BY <1>3, FriendRespondHandled
<1>4. CASE call = "friend_reject" /\ FriendRespond(u, FALSE)
    BY <1>4, FriendRespondHandled
<1>5. CASE call = "extend_request" /\ ExtendRequest(u)
    BY <1>5, ExtendRequestHandled
<1>6. CASE call = "extend_accept" /\ ExtendRespond(u, TRUE)
    BY <1>6, ExtendRespondHandled
<1>7. CASE call = "extend_reject" /\ ExtendRespond(u, FALSE)
    BY <1>7, ExtendRespondHandled
<1>8. QED
    BY <1>1, <1>2, <1>3, <1>4, <1>5, <1>6, <1>7 DEF Handler

LEMMA HandleInv == ASSUME ChatInv, NEW u \in Users, Handle(u) PROVE ChatInv'
<1> DEFINE call == Head(up[u]).call
<1>1. /\ up[u] # <<>> /\ up' = [up EXCEPT ![u] = Tail(@)]
      /\ UNCHANGED <<linked, tab, texts, breaks>>
    BY DEF Handle
<1>2. \/ call \in Asks /\ Access(u) /\ Handler(u, call)
      \/ EndsRoom(call) /\ Access(u) /\ Close(u)
      \/ call = "rejoin" /\ open /\ Rejoin(u)
      \/ call = "send_message" /\ Access(u) /\ Message(u)
      \/ call = "report" /\ Report(u)
      \/ /\ call # "report" /\ ~Allowed(u, call)
         /\ Emit(u, ToNobody, "error")
         /\ UNCHANGED server
    BY DEF Handle
<1>3. Handled(u)
    <2>0. Access(u) => open
        BY DEF Access
    <2>1. CASE call \in Asks /\ Access(u) /\ Handler(u, call)
        BY <2>0, <2>1, HandlerHandled
    <2>2. CASE EndsRoom(call) /\ Access(u) /\ Close(u)
        BY <2>0, <2>2, CloseHandled DEF EndsRoom
    <2>3. CASE call = "rejoin" /\ open /\ Rejoin(u)
        BY <2>3, RejoinHandled
    <2>4. CASE call = "send_message" /\ Access(u) /\ Message(u)
        BY <2>0, <2>4, MessageHandled
    <2>5. CASE call = "report" /\ Report(u)
        <3>1. CASE Access(u) /\ Close(u)
            BY <2>0, <2>5, <3>1, CloseHandled
        <3>2. CASE ~Access(u)
            <4>1. \E r \in {"ok", "error"} : Emit(u, ToNobody, r)
                BY <2>5, <3>2 DEF Report
            <4>2. UNCHANGED server
                BY <2>5, <3>2 DEF Report
            <4>3. QED
                BY <2>5, <4>1, <4>2, OutsideHandled
        <3>3. QED
            BY <2>5, <3>1, <3>2 DEF Report
    <2>6. CASE /\ call # "report" /\ ~Allowed(u, call)
               /\ Emit(u, ToNobody, "error")
               /\ UNCHANGED server
        BY <2>6, OutsideHandled
    <2>7. QED
        BY <1>2, <2>1, <2>2, <2>3, <2>4, <2>5, <2>6
<1>4. breaks' \in 0..MaxBreaks /\ refused' = refused /\ refused \subseteq Users
    BY <1>1, <1>3 DEF Handled, ChatInv, ChatTypeOK
<1>5. PICK who \in SUBSET Users, e \in Event, r \in Result : Outcome(u, who, e, r)
    BY <1>3 DEF Handled
<1>6. QED
    BY <1>1, <1>4, <1>5, OutcomeInv

\* The limits of the socket refuse a call: nobody is told.
LEMMA LimitReaches ==
    ASSUME ChatInv, NEW u \in Users, Limit(u), NEW e \in Event
    PROVE  Reached(u, {}, e, "error")
<1> DEFINE x == Ack("error")
<1>1. /\ down' = IF Waits(u) THEN [down EXCEPT ![u] = Append(@, x)] ELSE down
      /\ missed' = missed
    BY DEF Limit, Waits
<1>2. ChatTypeOK
    BY DEF ChatInv
<1>3. \A w \in Users : Gets(w, {}, e) = <<>> /\ down[w] \o <<>> = down[w]
    BY <1>2, QueueTypes DEF Gets
<1>4. missed' = missed \cup Missing({})
    BY <1>1 DEF Missing
<1> HIDE DEF x
<1>5. Append(down[u], x) = down[u] \o <<x>>
    <2>1. down[u] \in Seq(Event)
        BY <1>2, QueueTypes
    <2>2. QED
        BY <2>1
<1>6. down = [w \in Users |-> down[w]]
    BY <1>2 DEF ChatTypeOK
<1>7. down' = [w \in Users |-> IF w = u /\ Waits(u) THEN (down[w] \o Gets(w, {}, e)) \o <<x>>
                                ELSE down[w] \o Gets(w, {}, e)]
    <2>1. down' = [w \in Users |-> IF w = u /\ Waits(u) THEN down[w] \o <<x>> ELSE down[w]]
        BY <1>1, <1>5, <1>6
    <2>2. QED
        BY <1>3, <2>1
<1>8. QED
    BY <1>4, <1>7 DEF Reached, x

LEMMA LimitInv == ASSUME ChatInv, NEW u \in Users, Limit(u) PROVE ChatInv'
<1> DEFINE e == Note("partner_back")
           call == Head(up[u]).call
<1>1. /\ up[u] # <<>> /\ up' = [up EXCEPT ![u] = Tail(@)] /\ breaks < MaxBreaks /\ breaks' = breaks + 1
      /\ call \in {"send_message", "report", "skip", "start_chat"}
      /\ down' = IF Waits(u) THEN [down EXCEPT ![u] = Append(@, Ack("error"))] ELSE down
      /\ refused' = IF call = "start_chat" THEN refused \cup {u} ELSE refused
      /\ UNCHANGED <<server, linked, tab, missed, texts>>
    BY DEF Limit, Waits
<1>2. ChatTypeOK /\ "error" \in Result /\ MaxBreaks \in Nat
    BY BoundAssumption DEF ChatInv, Result
<1>3. e \in Event /\ e.event = "partner_back"
    BY NoteType DEF Events
<1>4. Reached(u, {}, e, "error")
    BY <1>3, LimitReaches
<1> HIDE DEF e
<1>5. UNCHANGED <<open, seat, enjoy, friendReq, extendReq, revealed, term>>
    BY <1>1 DEF server
<1>6. Outcome(u, {}, e, "error")
    BY <1>1, <1>2, <1>3, <1>4, <1>5 DEF Outcome, ChatTypeOK
<1>7. breaks' \in 0..MaxBreaks
    BY <1>1, <1>2 DEF ChatTypeOK
<1>8. refused \subseteq refused' /\ refused' \subseteq Users
    BY <1>1, <1>2 DEF ChatTypeOK
<1>9. QED
    BY <1>1, <1>6, <1>7, <1>8, OutcomeInv

\* A socket is found dead, or a timer ends the room: no tab does anything.
LEMMA AloneInv ==
    ASSUME ChatInv, NEW who \in SUBSET Users, NEW e \in Event, e.event \notin {"ack", "receive_message",
                                                                     "enjoy_mutual", "revealed"},
           UNCHANGED <<linked, up, tab, refused, texts, breaks>>,
           down' = Sent(To(who, e)), missed \subseteq missed', missed' \subseteq Users,
           open' \in BOOLEAN /\ enjoy' \subseteq Users /\ friendReq' \subseteq Users
               /\ extendReq' \subseteq Users /\ revealed' \in BOOLEAN /\ term' \in 0..(Terms - 1),
           seat' \in [Users -> {"live", "stale", "away"}],
           \A w \in Users : seat'[w] = seat[w] \/ (seat[w] # "live" /\ seat'[w] # "live"),
           open' => open /\ enjoy \subseteq enjoy' /\ (revealed => revealed'),
           open /\ ~open' => who = Users /\ e.event = "partner_left"
    PROVE  ChatInv'
<1>1. ChatTypeOK /\ inChat \subseteq Users /\ TextsAgree
    BY DEF ChatInv, ChatTypeOK
<1>2. ASSUME NEW w \in Users
      PROVE  /\ down'[w] = down[w] \o Gets(w, who, e) /\ down[w] \in Seq(Event)
             /\ Gets(w, who, e) \in Seq(Event) /\ down'[w] \in Seq(Event)
    <2>1. down'[w] = down[w] \o Gets(w, who, e)
        BY <1>1, SentReaches
    <2>2. Gets(w, who, e) \in Seq(Event) /\ down[w] \in Seq(Event)
        BY <1>1, QueueTypes, GetsFits
    <2>3. QED
        BY <2>1, <2>2
<1>3. down' \in [Users -> Seq(Event)]
    <2>1. down' = [w \in Users |-> down[w] \o Gets(w, who, e)]
        BY <1>1, SentReaches
    <2>2. QED
        BY <1>2, <2>1
<1>4. ChatTypeOK'
    BY <1>1, <1>3 DEF ChatTypeOK, tab
<1>5. ASSUME NEW w \in Users PROVE TabFits(w)'
    <2> DEFINE m == Gets(w, who, e)
    <2>1. TabFits(w)
        BY DEF ChatInv
    <2>2. m \in Seq(Event) /\ ~Has(m, "ack") /\ (m = <<>> \/ Hears(w))
        BY GetsFits
    <2>3. open /\ ~open' => (Hears(w) => Has(m, "partner_left"))
        BY GetsFits
    <2>4. \A i \in DOMAIN m : EventFits(w, m[i], open', enjoy', revealed', awaited'[w])
        <3>1. EventFits(w, e, open', enjoy', revealed', awaited'[w])
            BY DEF EventFits
        <3>2. QED
            BY <3>1, GetsFits
    <2>5. down'[w] = down[w] \o m
        BY <1>2
    <2>6. /\ up'[w] = up[w] /\ awaited'[w] = awaited[w] /\ shown'[w] = shown[w]
          /\ w \in linked' <=> w \in linked
          /\ w \in inChat' <=> w \in inChat
          /\ w \in missed => w \in missed'
          /\ w \in refused => w \in refused'
        BY DEF tab
    <2>7. seat'[w] = seat[w] \/ (seat[w] # "live" /\ seat'[w] # "live")
        OBVIOUS
    <2>8. open' => open /\ enjoy \subseteq enjoy' /\ enjoy' \subseteq Users /\ (revealed => revealed')
        OBVIOUS
    <2> HIDE DEF m
    <2>9. QED
        BY <1>1, <2>1, <2>2, <2>3, <2>4, <2>5, <2>6, <2>7, <2>8, TabElsewhere
<1>6. TextsAgree'
    <2>1. ASSUME NEW w \in Users, NEW x, x.event \in {"ack", "receive_message"}
          PROVE  Count(down'[w], x) = Count(down[w], x)
        <3>1. CASE Gets(w, who, e) = <<>>
            <4>1. down'[w] = down[w]
                <5>1. down[w] \o <<>> = down[w]
                    BY <1>2
                <5>2. down'[w] = down[w] \o <<>>
                    BY <1>2, <3>1
                <5>3. QED
                    BY <5>1, <5>2
            <4>2. QED
                BY <4>1
        <3>2. CASE Gets(w, who, e) = <<e>>
            <4>1. Count(down[w] \o <<e>>, x) = Count(down[w], x) + One(e = x)
                BY <1>2, CountAdded
            <4>2. One(e = x) = 0
                BY <2>1 DEF One
            <4>3. Count(down[w], x) \in Nat
                BY <1>2, CountType
            <4>4. down'[w] = down[w] \o <<e>>
                BY <1>2, <3>2
            <4>5. Count(down'[w], x) = Count(down[w], x) + One(e = x)
                BY <4>1, <4>4
            <4>6. QED
                BY <4>2, <4>3, <4>5
        <3>3. QED
            BY <3>1, <3>2, GetsFits
    <2>2. Note("receive_message").event = "receive_message" /\ Ack("ok").event = "ack"
        BY DEF Note, Ack
    <2>3. ASSUME NEW w \in Users
          PROVE  /\ Acked(shown'[w], awaited'[w], down'[w]) = Acked(shown[w], awaited[w], down[w])
                 /\ Arrived(shown'[w], down'[w]) = Arrived(shown[w], down[w])
                 /\ Acked(shown[w], awaited[w], down[w]) \in Nat
        <3>1. shown' = shown /\ awaited' = awaited
            BY DEF tab
        <3>2. /\ Count(down'[w], Note("receive_message")) = Count(down[w], Note("receive_message"))
              /\ Count(down'[w], Ack("ok")) = Count(down[w], Ack("ok"))
            BY <2>1, <2>2
        <3>3. QED
            BY <1>1, <3>1, <3>2, TextsType DEF Acked, Arrived
    <2>4. inChat' = inChat
        BY DEF tab
    <2>5. \A w \in inChat' :
             /\ Acked(shown'[w], awaited'[w], down'[w]) <= Acked(shown[w], awaited[w], down[w])
             /\ w \notin missed' =>
                   /\ Acked(shown'[w], awaited'[w], down'[w]) = Acked(shown[w], awaited[w], down[w])
                   /\ Arrived(shown'[w], down'[w]) = Arrived(shown[w], down[w])
        BY <1>1, <2>3, <2>4
    <2>6. QED
        BY <1>1, <1>4, <2>4, <2>5, TextsKept
<1>7. QED
    BY <1>4, <1>5, <1>6 DEF ChatInv

LEMMA DropSocketInv == ASSUME ChatInv, NEW u \in Users, DropSocket(u) PROVE ChatInv'
<1> DEFINE e == Note("partner_reconnecting")
           who == IF open THEN Users \ {u} ELSE {}
<1>1. ChatTypeOK
    BY DEF ChatInv
<1>2. e \in Event /\ e.event = "partner_reconnecting"
    BY NoteType DEF Events
<1>3. down' = Sent(To(who, e)) /\ missed' = missed \cup Unheard(To(who, e))
    BY ToAll DEF DropSocket
<1> HIDE DEF e
<1>4. /\ seat[u] = "stale" /\ seat' = [seat EXCEPT ![u] = "away"]
      /\ UNCHANGED <<open, enjoy, friendReq, extendReq, revealed, term, linked, up, tab,
                     refused, texts, breaks>>
    BY DEF DropSocket
<1>5. /\ open' \in BOOLEAN /\ enjoy' \subseteq Users /\ friendReq' \subseteq Users
      /\ extendReq' \subseteq Users /\ revealed' \in BOOLEAN /\ term' \in 0..(Terms - 1)
      /\ seat' \in [Users -> {"live", "stale", "away"}]
      /\ \A w \in Users : seat'[w] = seat[w] \/ (seat[w] # "live" /\ seat'[w] # "live")
    BY <1>1, <1>4 DEF ChatTypeOK
<1>6. missed \subseteq missed' /\ missed' \subseteq Users
    BY <1>1, <1>3 DEF ChatTypeOK, Unheard
<1>7. who \in SUBSET Users
    OBVIOUS
<1> HIDE DEF who
<1>8. QED
    BY <1>2, <1>3, <1>4, <1>5, <1>6, <1>7, AloneInv

LEMMA CloseAloneInv == ASSUME ChatInv, CloseAlone PROVE ChatInv'
<1> DEFINE e == Note("partner_left")
<1>1. ChatTypeOK /\ 0 \in 0..(Terms - 1)
    BY BoundAssumption DEF ChatInv
<1>2. e \in Event /\ e.event = "partner_left"
    BY NoteType DEF Events
<1>3. down' = Sent(To(Users, e))
    <2>1. PICK u : u \in Users
        BY PairAssumption
    <2>2. QED
        BY <2>1, ToAll DEF CloseAlone
<1> HIDE DEF e
<1>4. /\ open' = FALSE /\ enjoy' = {} /\ friendReq' = {} /\ extendReq' = {}
      /\ revealed' = FALSE /\ term' = 0 /\ seat' = seat
      /\ UNCHANGED <<linked, up, tab, missed, refused, texts, breaks>>
    BY DEF CloseAlone, Forget, history
<1>5. seat' \in [Users -> {"live", "stale", "away"}] /\ missed' \subseteq Users
    BY <1>1, <1>4 DEF ChatTypeOK
<1>6. QED
    BY <1>1, <1>2, <1>3, <1>4, <1>5, AloneInv

-----------------------------------------------------------------------------
(* The steps of a tab.                                                     *)

\* What a step of one tab leaves alone.
Elsewhere(u) ==
    /\ UNCHANGED <<open, enjoy, friendReq, extendReq, revealed, term, refused>>
    /\ \A w \in Users : w # u =>
          /\ up'[w] = up[w] /\ down'[w] = down[w] /\ awaited'[w] = awaited[w]
          /\ shown'[w] = shown[w] /\ seat'[w] = seat[w]
          /\ w \in linked' <=> w \in linked
          /\ w \in inChat' <=> w \in inChat
          /\ w \in missed => w \in missed'

LEMMA ElsewhereFits ==
    ASSUME ChatInv, NEW u \in Users, Elsewhere(u), TabFits(u)'
    PROVE  \A w \in Users : TabFits(w)'
<1> SUFFICES ASSUME NEW w \in Users, w # u PROVE TabFits(w)'
    OBVIOUS
<1> DEFINE m == <<>>
<1>1. ChatTypeOK /\ TabFits(w) /\ down[w] \in Seq(Event)
    BY QueueTypes DEF ChatInv
<1>2. m \in Seq(Event) /\ ~Has(m, "ack") /\ DOMAIN m = {}
    <2>1. m \in Seq(Event) /\ DOMAIN m = {}
        OBVIOUS
    <2>2. QED
        BY <2>1 DEF Has
<1>3. down'[w] = down[w] \o m
    <2>1. down[w] \o m = down[w]
        BY <1>1
    <2>2. QED
        BY <2>1 DEF Elsewhere
<1>4. /\ up'[w] = up[w] /\ awaited'[w] = awaited[w] /\ shown'[w] = shown[w] /\ seat'[w] = seat[w]
      /\ w \in linked' <=> w \in linked
      /\ w \in inChat' <=> w \in inChat
      /\ w \in missed => w \in missed'
      /\ w \in refused => w \in refused'
    BY DEF Elsewhere
<1>5. /\ open' => open /\ enjoy \subseteq enjoy' /\ enjoy' \subseteq Users /\ (revealed => revealed')
      /\ open' = open
    BY <1>1 DEF Elsewhere, ChatTypeOK
<1>6. m = <<>>
    OBVIOUS
<1> HIDE DEF m
<1>7. QED
    BY <1>1, <1>2, <1>3, <1>4, <1>5, <1>6, TabElsewhere

\* The messages agree after a step of a tab that leaves what it has sent and got.
LEMMA ElsewhereTexts ==
    ASSUME ChatInv, ChatTypeOK', NEW u \in Users, Elsewhere(u),
           inChat' \subseteq inChat, missed \subseteq missed',
           u \in inChat' =>
               /\ Acked(shown'[u], awaited'[u], down'[u]) <= Acked(shown[u], awaited[u], down[u])
               /\ u \notin missed' =>
                     /\ Acked(shown'[u], awaited'[u], down'[u]) = Acked(shown[u], awaited[u], down[u])
                     /\ Arrived(shown'[u], down'[u]) = Arrived(shown[u], down[u])
    PROVE  TextsAgree'
<1>1. ChatTypeOK /\ TextsAgree /\ inChat \subseteq Users
    BY DEF ChatInv, ChatTypeOK
<1>2. ASSUME NEW w \in inChat'
      PROVE  /\ Acked(shown'[w], awaited'[w], down'[w]) <= Acked(shown[w], awaited[w], down[w])
             /\ w \notin missed' =>
                   /\ Acked(shown'[w], awaited'[w], down'[w]) = Acked(shown[w], awaited[w], down[w])
                   /\ Arrived(shown'[w], down'[w]) = Arrived(shown[w], down[w])
    <2>1. CASE w = u
        BY <1>2, <2>1
    <2>2. CASE w # u
        <3>1. /\ Acked(shown'[w], awaited'[w], down'[w]) = Acked(shown[w], awaited[w], down[w])
              /\ Arrived(shown'[w], down'[w]) = Arrived(shown[w], down[w])
            BY <1>1, <1>2, <2>2 DEF Elsewhere
        <3>2. Acked(shown[w], awaited[w], down[w]) \in Nat
            BY <1>1, <1>2, TextsType
        <3>3. QED
            BY <3>1, <3>2
    <2>3. QED
        BY <2>1, <2>2
<1>3. QED
    BY <1>1, <1>2, TextsKept

LEMMA CalledInv ==
    ASSUME ChatInv, NEW u \in Users, NEW call \in Calls \ {"rejoin", "skip", "start_chat"},
           Free(u), Called(u, call), texts' \in 0..MaxTexts
    PROVE  ChatInv'
<1> DEFINE c == [call |-> call, waited |-> TRUE]
<1>1. ChatTypeOK /\ TabFits(u) /\ up[u] \in Seq(Call) /\ down[u] \in Seq(Event)
    BY QueueTypes DEF ChatInv
<1>2. /\ u \in inChat \cap linked /\ awaited[u] = "none"
      /\ awaited' = [awaited EXCEPT ![u] = call]
      /\ UNCHANGED <<server, linked, down, inChat, shown, history, breaks>>
      /\ Send(u, <<call>>)
    BY DEF Free, Called
<1>3. up' = [up EXCEPT ![u] = @ \o <<c>>] /\ c \in Call
    <2>1. [i \in DOMAIN <<call>> |-> [call |-> <<call>>[i], waited |-> TRUE]] = <<c>>
        BY OneCallMade
    <2>2. QED
        BY <1>2, <2>1 DEF Send, Call
<1>4. up' \in [Users -> Seq(Call)] /\ up'[u] = up[u] \o <<c>> /\ \A w \in Users : w # u => up'[w] = up[w]
    <2> HIDE DEF c
    <2>1. up[u] \o <<c>> \in Seq(Call)
        BY <1>1, <1>3
    <2>2. up \in [Users -> Seq(Call)]
        BY <1>1 DEF ChatTypeOK
    <2>3. QED
        BY <1>3, <2>1, <2>2
<1>5. awaited' \in [Users -> Calls \cup {"none"}] /\ awaited'[u] = call
      /\ \A w \in Users : w # u => awaited'[w] = awaited[w]
    BY <1>1, <1>2 DEF ChatTypeOK
<1>6. ChatTypeOK'
    BY <1>1, <1>2, <1>4, <1>5 DEF ChatTypeOK, server, history
<1>7. Elsewhere(u)
    BY <1>2, <1>4, <1>5 DEF Elsewhere, server, history
<1>8. TabFits(u)'
    BY <1>1, <1>2, <1>4, <1>5, TabCalled
<1>9. TextsAgree'
    <2>1. ~Has(down[u], "ack")
        BY <1>1, <1>2 DEF TabFits, AnswerIsDue
    <2>2. Ack("ok").event = "ack"
        BY DEF Ack
    <2>3. Count(down[u], Ack("ok")) = 0
        <3> DEFINE x == Ack("ok")
        <3>1. ~Has(down[u], x.event)
            BY <2>1, <2>2
        <3> HIDE DEF x
        <3>2. Count(down[u], x) = 0
            BY <1>1, <3>1, CountNone
        <3>3. QED
            BY <3>2 DEF x
    <2>4. shown[u].said \in Nat
        BY <1>1 DEF ChatTypeOK, Shown
    <2>5. /\ Acked(shown'[u], awaited'[u], down'[u]) = shown[u].said
          /\ Acked(shown[u], awaited[u], down[u]) = shown[u].said
          /\ Arrived(shown'[u], down'[u]) = Arrived(shown[u], down[u])
        BY <1>2, <1>5, <2>3, <2>4 DEF Acked
    <2>6. inChat' \subseteq inChat /\ missed \subseteq missed'
        BY <1>2 DEF history
    <2>7. QED
        BY <1>6, <1>7, <2>4, <2>5, <2>6, ElsewhereTexts
<1>10. QED
    BY <1>6, <1>7, <1>8, <1>9, ElsewhereFits DEF ChatInv

LEMMA AskInv == ASSUME ChatInv, NEW u \in Users, NEW call \in Asks, Free(u), Ask(u, call) PROVE ChatInv'
<1>1. Called(u, call) /\ texts' = texts /\ call \in Calls \ {"rejoin", "skip", "start_chat"}
    BY DEF Ask, Asks, Calls
<1>2. texts' \in 0..MaxTexts
    BY <1>1 DEF ChatInv, ChatTypeOK
<1>3. QED
    BY <1>1, <1>2, CalledInv

LEMMA WriteInv == ASSUME ChatInv, NEW u \in Users, Free(u), Write(u) PROVE ChatInv'
<1>1. /\ Called(u, "send_message") /\ texts < MaxTexts /\ texts' = texts + 1
      /\ "send_message" \in Calls \ {"rejoin", "skip", "start_chat"}
    BY DEF Write, Calls
<1>2. texts' \in 0..MaxTexts
    BY <1>1, BoundAssumption DEF ChatInv, ChatTypeOK
<1>3. QED
    BY <1>1, <1>2, CalledInv

LEMMA SendReportInv == ASSUME ChatInv, NEW u \in Users, Free(u), SendReport(u) PROVE ChatInv'
<1>1. /\ Called(u, "report") /\ texts' = texts
      /\ "report" \in Calls \ {"rejoin", "skip", "start_chat"}
    BY DEF SendReport, Calls
<1>2. texts' \in 0..MaxTexts
    BY <1>1 DEF ChatInv, ChatTypeOK
<1>3. QED
    BY <1>1, <1>2, CalledInv

\* Who leaves the chat.
LEMMA LeavingCalls ==
    ASSUME NEW calls, calls = <<>> \/ calls = <<"skip">>
    PROVE  LET made == [i \in DOMAIN (calls \o <<"start_chat">>) |->
                            [call |-> (calls \o <<"start_chat">>)[i], waited |-> TRUE]]
           IN  made \in Seq(Call) /\ HasCall(made, "start_chat") /\ ~HasCall(made, "rejoin")
<1> DEFINE t == <<"start_chat">>
           q == calls \o t
           made == [i \in DOMAIN q |-> [call |-> q[i], waited |-> TRUE]]
<1>1. t \in Seq(Calls) /\ 1 \in DOMAIN t /\ \A i \in DOMAIN t : t[i] = "start_chat"
    BY DEF Calls
<1>2. calls \in Seq(Calls) /\ Len(calls) \in Nat /\ \A i \in DOMAIN calls : calls[i] = "skip"
    <2>1. CASE calls = <<>>
        BY <2>1
    <2>2. CASE calls = <<"skip">>
        <3>1. "skip" \in Calls
            BY DEF Calls
        <3>2. QED
            BY <2>2, <3>1
    <2>3. QED
        BY <2>1, <2>2
<1> HIDE DEF t
<1>3. q \in Seq(Calls) /\ (\E i \in DOMAIN q : q[i] = "start_chat") /\ \A i \in DOMAIN q : q[i] # "rejoin"
    <2>1. /\ q \in Seq(Calls)
          /\ \A i \in DOMAIN t : Len(calls) + i \in DOMAIN q /\ q[Len(calls) + i] = t[i]
          /\ \A i \in DOMAIN q :
                \/ i \in DOMAIN calls /\ q[i] = calls[i]
                \/ i - Len(calls) \in DOMAIN t /\ q[i] = t[i - Len(calls)]
        BY <1>1, <1>2, ItemsJoined
    <2> HIDE DEF q
    <2>2. \E i \in DOMAIN q : q[i] = "start_chat"
        BY <1>1, <2>1
    <2>3. ASSUME NEW i \in DOMAIN q PROVE q[i] \in {"skip", "start_chat"}
        BY <1>1, <1>2, <2>1
    <2>4. QED
        BY <2>1, <2>2, <2>3
<1> HIDE DEF q
<1>4. /\ made \in Seq(Call) /\ DOMAIN made = DOMAIN q
      /\ \A i \in DOMAIN q : made[i] = [call |-> q[i], waited |-> TRUE]
    BY <1>3, CallsMade
<1> HIDE DEF made
<1>5. made \in Seq(Call) /\ HasCall(made, "start_chat") /\ ~HasCall(made, "rejoin")
    BY <1>3, <1>4 DEF HasCall
<1>6. QED
    BY <1>5 DEF made, q, t

LEMMA EndInv ==
    ASSUME ChatInv, NEW u \in Users, NEW calls, calls = <<>> \/ calls = <<"skip">>, End(u, calls),
           UNCHANGED <<open, enjoy, friendReq, extendReq, revealed, term, refused, texts>>,
           missed \subseteq missed', missed' \subseteq Users, breaks' \in 0..MaxBreaks,
           \/ linked' = linked /\ seat' = seat
           \/ linked' = linked \ {u} /\ seat' = [seat EXCEPT ![u] = IF @ = "live" THEN "stale" ELSE @]
    PROVE  ChatInv'
<1> DEFINE made == [i \in DOMAIN (calls \o <<"start_chat">>) |->
                            [call |-> (calls \o <<"start_chat">>)[i], waited |-> TRUE]]
<1>1. ChatTypeOK /\ TabFits(u) /\ up[u] \in Seq(Call) /\ down[u] \in Seq(Event)
    BY QueueTypes DEF ChatInv
<1>2. made \in Seq(Call) /\ HasCall(made, "start_chat") /\ ~HasCall(made, "rejoin")
    BY LeavingCalls
<1>3. /\ inChat' = inChat \ {u}
      /\ shown' = [shown EXCEPT ![u] = AtFirst]
      /\ awaited' = [awaited EXCEPT ![u] = "none"]
      /\ down' = [down EXCEPT ![u] = <<>>]
    BY DEF End
<1>4. up' = [up EXCEPT ![u] = IF u \in linked' THEN up[u] \o made ELSE <<>>]
    BY DEF End, Send
<1> HIDE DEF made
<1>5. /\ up' \in [Users -> Seq(Call)] /\ \A w \in Users : w # u => up'[w] = up[w]
      /\ up'[u] = IF u \in linked' THEN up[u] \o made ELSE <<>>
    <2>1. up[u] \o made \in Seq(Call) /\ <<>> \in Seq(Call)
        BY <1>1, <1>2
    <2>2. up \in [Users -> Seq(Call)]
        BY <1>1 DEF ChatTypeOK
    <2>3. QED
        BY <1>4, <2>1, <2>2
<1>6. AtFirst \in Shown
    BY BoundAssumption DEF AtFirst, Shown
<1>7. /\ down' \in [Users -> Seq(Event)] /\ down'[u] = <<>>
      /\ \A w \in Users : w # u => down'[w] = down[w]
    BY <1>1, <1>3 DEF ChatTypeOK
<1>8. /\ shown' \in [Users -> Shown] /\ awaited' \in [Users -> Calls \cup {"none"}] /\ awaited'[u] = "none"
      /\ \A w \in Users : w # u => shown'[w] = shown[w] /\ awaited'[w] = awaited[w]
    BY <1>1, <1>3, <1>6 DEF ChatTypeOK
<1>9. /\ seat' \in [Users -> {"live", "stale", "away"}] /\ linked' \subseteq Users
      /\ \A w \in Users : w # u => seat'[w] = seat[w] /\ (w \in linked' <=> w \in linked)
    BY <1>1 DEF ChatTypeOK
<1>10. ChatTypeOK'
    BY <1>1, <1>3, <1>5, <1>7, <1>8, <1>9 DEF ChatTypeOK
<1>11. Elsewhere(u)
    BY <1>3, <1>5, <1>7, <1>8, <1>9 DEF Elsewhere
<1>12. \/ /\ u \in linked /\ u \in linked' /\ seat'[u] = seat[u]
          /\ \E s \in Seq(Call) : /\ up'[u] = up[u] \o s
                                  /\ HasCall(s, "start_chat") /\ ~HasCall(s, "rejoin")
       \/ u \notin linked' /\ up'[u] = <<>> /\ seat'[u] # "live"
    <2>1. CASE u \in linked'
        BY <1>2, <1>5, <2>1
    <2>2. CASE u \notin linked'
        <3>1. u \notin linked => seat[u] # "live"
            BY <1>1 DEF TabFits, WayFits
        <3>2. seat'[u] # "live"
            BY <1>1, <2>2, <3>1 DEF ChatTypeOK
        <3>3. QED
            BY <1>5, <2>2, <3>2
    <2>3. QED
        BY <2>1, <2>2
<1>13. u \notin inChat'
    BY <1>3
<1>14. TabFits(u)'
    BY <1>1, <1>7, <1>8, <1>12, <1>13, TabLeft
<1>15. TextsAgree'
    BY <1>3, <1>10, <1>11, <1>13, ElsewhereTexts
<1>16. QED
    BY <1>10, <1>11, <1>14, <1>15, ElsewhereFits DEF ChatInv

LEMMA SkipInv == ASSUME ChatInv, NEW u \in Users, Skip(u) PROVE ChatInv'
<1>1. /\ End(u, <<"skip">>) /\ linked' = linked /\ seat' = seat
      /\ UNCHANGED <<open, enjoy, friendReq, extendReq, revealed, term, refused, texts, missed, breaks>>
    BY DEF Skip, server, history
<1>2. missed' \subseteq Users /\ breaks' \in 0..MaxBreaks
    BY <1>1 DEF ChatInv, ChatTypeOK
<1>3. QED
    BY <1>1, <1>2, EndInv

LEMMA DoneInv == ASSUME ChatInv, NEW u \in Users, Done(u) PROVE ChatInv'
<1>1. /\ End(u, <<>>) /\ linked' = linked /\ seat' = seat
      /\ UNCHANGED <<open, enjoy, friendReq, extendReq, revealed, term, refused, texts, missed, breaks>>
    BY DEF Done, server, history
<1>2. missed' \subseteq Users /\ breaks' \in 0..MaxBreaks
    BY <1>1 DEF ChatInv, ChatTypeOK
<1>3. QED
    BY <1>1, <1>2, EndInv

\* What a tab has or will get is the same once it has got one of it.
LEMMA HeardTexts ==
    ASSUME ChatTypeOK, NEW u \in Users, TabFits(u), u \in inChat, down[u] # <<>>,
           NEW m, m = Head(down[u]),
           down'[u] = Tail(down[u]),
           shown'[u] = IF m.event = "ack" THEN Answered(shown[u], awaited[u], m.result)
                       ELSE Told(shown[u], m),
           awaited'[u] = IF m.event = "ack" THEN "none" ELSE awaited[u]
    PROVE  /\ Acked(shown'[u], awaited'[u], down'[u]) = Acked(shown[u], awaited[u], down[u])
           /\ Arrived(shown'[u], down'[u]) = Arrived(shown[u], down[u])
<1> DEFINE d == down[u]
           t == Tail(d)
           ok == Ack("ok")
           text == Note("receive_message")
<1>1. /\ d \in Seq(Event) /\ m \in Event /\ m.result \in Result /\ shown[u] \in Shown
      /\ t \in Seq(Event) /\ m = d[1] /\ 1 \in DOMAIN d
    <2>1. d \in Seq(Event) /\ shown[u] \in Shown
        BY DEF ChatTypeOK
    <2>2. t \in Seq(Event) /\ m \in Event /\ m = d[1] /\ 1 \in DOMAIN d
        BY <2>1, ItemsLeft
    <2>3. QED
        BY <2>1, <2>2 DEF Event
<1>2. EventFits(u, m, open, enjoy, revealed, awaited[u])
    BY <1>1 DEF TabFits, EventsFit
<1>3. AnswerIsDue(d, up[u], awaited[u])
    BY DEF TabFits
<1>4. shown[u].said \in Nat /\ shown[u].heard \in Nat
    BY <1>1 DEF Shown
<1>5. ok.event = "ack" /\ text.event = "receive_message" /\ ok.result = "ok"
    BY DEF Ack, Note
<1> HIDE DEF ok, text
<1>6. /\ Count(d, ok) = One(m = ok) + Count(t, ok) /\ Count(t, ok) \in Nat
      /\ Count(d, text) = One(m = text) + Count(t, text) /\ Count(t, text) \in Nat
    <2>1. m = Head(d) /\ d # <<>>
        OBVIOUS
    <2> HIDE DEF d
    <2>2. \A x : Count(d, x) = One(Head(d) = x) + Count(t, x)
        BY <1>1, <2>1, CountLeft
    <2>3. \A x : Count(t, x) \in Nat
        BY <1>1, CountType
    <2>4. QED
        BY <2>1, <2>2, <2>3
<1>7. CASE m.event = "ack"
    <2>1. ~Has(t, "ack")
        BY <1>1, <1>3, <1>7, DueHeard
    <2>2. Count(t, ok) = 0
        BY <1>1, <1>5, <2>1, CountNone
    <2>3. m # text /\ One(m = text) = 0
        BY <1>5, <1>7 DEF One
    <2>4. /\ shown'[u].heard = shown[u].heard /\ awaited'[u] = "none"
          /\ shown'[u].said = IF awaited[u] = "send_message" /\ m.result # "error"
                              THEN shown[u].said + 1 ELSE shown[u].said
        BY <1>1, <1>7, AnsweredFits
    <2>5. Arrived(shown'[u], down'[u]) = Arrived(shown[u], down[u])
        BY <1>4, <1>6, <2>3, <2>4 DEF Arrived, text
    <2>6. awaited[u] = "send_message" => (m = ok <=> m.result # "error")
        BY <1>2, <1>5, <1>7 DEF EventFits, ok, Ack
    <2>7. /\ awaited[u] = "send_message" /\ m.result # "error" => One(m = ok) = 1
          /\ awaited[u] = "send_message" /\ m.result = "error" => One(m = ok) = 0
        BY <2>6 DEF One
    <2>8. awaited[u] = "send_message" => shown'[u].said = shown[u].said + Count(d, ok)
        BY <1>4, <1>6, <2>2, <2>4, <2>7
    <2>9. awaited[u] # "send_message" => shown'[u].said = shown[u].said
        BY <2>4
    <2>10. Acked(shown'[u], awaited'[u], down'[u]) = shown'[u].said
        BY <1>4, <2>4 DEF Acked
    <2>11. Acked(shown[u], awaited[u], down[u]) = IF awaited[u] = "send_message" THEN shown[u].said + Count(d, ok)
                                                  ELSE shown[u].said
        BY <1>4 DEF Acked, ok
    <2>12. QED
        BY <2>5, <2>8, <2>9, <2>10, <2>11
<1>8. CASE m.event # "ack"
    <2>1. One(m = ok) = 0
        BY <1>5, <1>8 DEF One
    <2>2. /\ shown'[u].said = shown[u].said /\ awaited'[u] = awaited[u]
          /\ shown'[u].heard = IF m.event = "receive_message" THEN shown[u].heard + 1 ELSE shown[u].heard
        BY <1>1, <1>8, ToldFits
    <2>3. Count(d, ok) = Count(t, ok)
        BY <1>6, <2>1
    <2>4. Acked(shown'[u], awaited'[u], down'[u]) = Acked(shown[u], awaited[u], down[u])
        BY <2>2, <2>3 DEF Acked, ok
    <2>5. m = text <=> m.event = "receive_message"
        BY <1>2, <1>5 DEF EventFits, text
    <2>6. /\ m.event = "receive_message" => One(m = text) = 1
          /\ m.event # "receive_message" => One(m = text) = 0
        BY <2>5 DEF One
    <2>7. shown'[u].heard + Count(t, text) = shown[u].heard + Count(d, text)
        BY <1>4, <1>6, <2>2, <2>6
    <2>8. QED
        BY <2>4, <2>7 DEF Arrived, text
<1>9. QED
    BY <1>7, <1>8

LEMMA DeliverInv == ASSUME ChatInv, NEW u \in Users, Deliver(u) PROVE ChatInv'
<1> DEFINE m == Head(down[u])
           leaves == \/ m.event = "partner_left"
                     \/ m.event = "ack" /\ awaited[u] = "rejoin" /\ m.result = "error"
<1>1. ChatTypeOK /\ TabFits(u) /\ down[u] \in Seq(Event) /\ down[u] # <<>>
    BY QueueTypes DEF ChatInv, Deliver
<1>2. UNCHANGED <<open, seat, enjoy, friendReq, extendReq, revealed, term, missed, refused, texts, breaks, linked>>
    BY DEF Deliver, server, history
<1>3. u \in inChat
    BY <1>1 DEF TabFits, WayFits
<1>4. ASSUME leaves PROVE ChatInv'
    <2>1. End(u, <<>>)
        BY <1>4 DEF Deliver
    <2>2. missed' \subseteq Users /\ breaks' \in 0..MaxBreaks
        BY <1>1, <1>2 DEF ChatTypeOK
    <2>3. QED
        BY <1>2, <2>1, <2>2, EndInv
<1>5. ASSUME ~leaves PROVE ChatInv'
    <2>1. /\ down' = [down EXCEPT ![u] = Tail(@)]
          /\ shown' = [shown EXCEPT ![u] =
                    IF m.event = "ack" THEN Answered(@, awaited[u], m.result) ELSE Told(@, m)]
          /\ awaited' = [awaited EXCEPT ![u] = IF m.event = "ack" THEN "none" ELSE @]
          /\ up' = up /\ inChat' = inChat
        BY <1>5 DEF Deliver
    <2>2. m \in Event /\ m.result \in Result /\ Tail(down[u]) \in Seq(Event) /\ shown[u] \in Shown
        <3>1. m \in Event /\ Tail(down[u]) \in Seq(Event)
            BY <1>1, ItemsLeft
        <3>2. QED
            BY <1>1, <3>1 DEF ChatTypeOK, Event
    <2>3. m.event # "partner_left" /\ ~(m.event = "ack" /\ awaited[u] = "rejoin" /\ m.result = "error")
        BY <1>5
    <2>4. Answered(shown[u], awaited[u], m.result) \in Shown /\ Told(shown[u], m) \in Shown
        BY <2>2, AnsweredFits, ToldFits
    <2> HIDE DEF m
    <2>5. /\ down' \in [Users -> Seq(Event)] /\ down'[u] = Tail(down[u])
          /\ \A w \in Users : w # u => down'[w] = down[w]
        BY <1>1, <2>1, <2>2 DEF ChatTypeOK
    <2>6. /\ shown' \in [Users -> Shown]
          /\ shown'[u] = IF m.event = "ack" THEN Answered(shown[u], awaited[u], m.result) ELSE Told(shown[u], m)
          /\ \A w \in Users : w # u => shown'[w] = shown[w]
        BY <1>1, <2>1, <2>4 DEF ChatTypeOK
    <2>7. /\ awaited' \in [Users -> Calls \cup {"none"}]
          /\ awaited'[u] = IF m.event = "ack" THEN "none" ELSE awaited[u]
          /\ \A w \in Users : w # u => awaited'[w] = awaited[w]
        BY <1>1, <2>1 DEF ChatTypeOK
    <2>8. ChatTypeOK'
        BY <1>1, <1>2, <2>1, <2>5, <2>6, <2>7 DEF ChatTypeOK
    <2>9. Elsewhere(u)
        BY <1>2, <2>1, <2>5, <2>6, <2>7 DEF Elsewhere
    <2>10. UNCHANGED <<server, linked, inChat, history>>
        BY <1>2, <2>1 DEF server, history
    <2>11. m = Head(down[u])
        BY DEF m
    <2>12. TabFits(u)'
        BY <1>1, <2>1, <2>3, <2>5, <2>6, <2>7, <2>10, <2>11, TabHeard
    <2>13. /\ Acked(shown'[u], awaited'[u], down'[u]) = Acked(shown[u], awaited[u], down[u])
           /\ Arrived(shown'[u], down'[u]) = Arrived(shown[u], down[u])
        BY <1>1, <1>3, <2>5, <2>6, <2>7, <2>11, HeardTexts
    <2>14. Acked(shown[u], awaited[u], down[u]) \in Nat
        BY <1>1, TextsType
    <2>15. inChat' \subseteq inChat /\ missed \subseteq missed'
        BY <1>2, <2>1
    <2>16. TextsAgree'
        BY <2>8, <2>9, <2>13, <2>14, <2>15, ElsewhereTexts
    <2>17. QED
        BY <2>8, <2>9, <2>12, <2>16, ElsewhereFits DEF ChatInv
<1>6. QED
    BY <1>4, <1>5

\* The connection of a tab.
LEMMA BreakType == ASSUME ChatInv, NEW u \in Users, Break(u) PROVE breaks' \in 0..MaxBreaks
BY BoundAssumption DEF Break, ChatInv, ChatTypeOK

LEMMA DisconnectInv == ASSUME ChatInv, NEW u \in Users, Disconnect(u) PROVE ChatInv'
<1>1. ChatTypeOK /\ TabFits(u) /\ up[u] \in Seq(Call) /\ down[u] \in Seq(Event)
    BY QueueTypes DEF ChatInv
<1>2. /\ u \in linked /\ linked' = linked \ {u}
      /\ seat' = [seat EXCEPT ![u] = IF @ = "live" THEN "stale" ELSE @]
      /\ missed' = IF u \in inChat /\ (down[u] # <<>> \/ awaited[u] # "none")
                   THEN missed \cup {u} ELSE missed
      /\ UNCHANGED <<open, enjoy, friendReq, extendReq, revealed, term, refused, texts>>
    BY DEF Disconnect
<1>3. missed \subseteq missed' /\ missed' \subseteq Users /\ breaks' \in 0..MaxBreaks
    <2>1. breaks' \in 0..MaxBreaks
        BY BreakType DEF Disconnect
    <2>2. QED
        BY <1>1, <1>2, <2>1 DEF ChatTypeOK
<1>4. CASE u \in inChat /\ awaited[u] = "rejoin"
    <2>1. End(u, <<>>)
        BY <1>4 DEF Disconnect
    <2>2. QED
        BY <1>2, <1>3, <2>1, EndInv
<1>5. CASE ~(u \in inChat /\ awaited[u] = "rejoin")
    <2>1. /\ up' = [up EXCEPT ![u] = <<>>]
          /\ down' = [down EXCEPT ![u] = <<>>]
          /\ shown' = [shown EXCEPT ![u] = Answered(@, awaited[u], "error")]
          /\ awaited' = [awaited EXCEPT ![u] = "none"]
          /\ inChat' = inChat
        BY <1>5 DEF Disconnect
    <2>2. shown[u] \in Shown /\ "error" \in Result
        BY <1>1 DEF ChatTypeOK, Result
    <2>3. /\ Answered(shown[u], awaited[u], "error") \in Shown
          /\ Answered(shown[u], awaited[u], "error").said = shown[u].said
          /\ Answered(shown[u], awaited[u], "error").heard = shown[u].heard
        BY <2>2, AnsweredFits
    <2>4. /\ up' \in [Users -> Seq(Call)] /\ up'[u] = <<>> /\ \A w \in Users : w # u => up'[w] = up[w]
          /\ down' \in [Users -> Seq(Event)] /\ down'[u] = <<>>
          /\ \A w \in Users : w # u => down'[w] = down[w]
        BY <1>1, <2>1 DEF ChatTypeOK
    <2>5. /\ shown' \in [Users -> Shown] /\ shown'[u] = Answered(shown[u], awaited[u], "error")
          /\ \A w \in Users : w # u => shown'[w] = shown[w]
        BY <1>1, <2>1, <2>3 DEF ChatTypeOK
    <2>6. /\ awaited' \in [Users -> Calls \cup {"none"}] /\ awaited'[u] = "none"
          /\ \A w \in Users : w # u => awaited'[w] = awaited[w]
        BY <1>1, <2>1 DEF ChatTypeOK
    <2>7. /\ seat' \in [Users -> {"live", "stale", "away"}] /\ linked' \subseteq Users
          /\ seat'[u] = (IF seat[u] = "live" THEN "stale" ELSE seat[u])
          /\ \A w \in Users : w # u => seat'[w] = seat[w] /\ (w \in linked' <=> w \in linked)
        BY <1>1, <1>2 DEF ChatTypeOK
    <2>8. ChatTypeOK'
        BY <1>1, <1>2, <1>3, <2>1, <2>4, <2>5, <2>6, <2>7 DEF ChatTypeOK
    <2>9. Elsewhere(u)
        BY <1>2, <1>3, <2>1, <2>4, <2>5, <2>6, <2>7 DEF Elsewhere
    <2>10. TabFits(u)'
        BY <1>1, <1>2, <2>1, <2>4, <2>5, <2>6, <2>7, TabUnplugged
    <2>11. TextsAgree'
        <3>1. shown[u].said \in Nat /\ shown[u].heard \in Nat
            BY <2>2 DEF Shown
        <3>2. \A x : Count(down[u], x) \in Nat
            BY <1>1, CountType
        <3>3. Acked(shown'[u], awaited'[u], down'[u]) = shown[u].said
            BY <2>3, <2>5, <2>6, <3>1 DEF Acked
        <3>4. /\ shown[u].said <= Acked(shown[u], awaited[u], down[u])
              /\ awaited[u] = "none" => Acked(shown[u], awaited[u], down[u]) = shown[u].said
            BY <3>1, <3>2 DEF Acked
        <3>5. ASSUME u \in inChat', u \notin missed' PROVE down[u] = <<>> /\ awaited[u] = "none"
            BY <1>2, <2>1, <3>5
        <3>6. ASSUME u \in inChat', u \notin missed'
              PROVE  Arrived(shown'[u], down'[u]) = Arrived(shown[u], down[u])
            BY <2>3, <2>4, <2>5, <3>5, <3>6 DEF Arrived
        <3>7. u \in inChat' =>
                 /\ Acked(shown'[u], awaited'[u], down'[u]) <= Acked(shown[u], awaited[u], down[u])
                 /\ u \notin missed' =>
                       /\ Acked(shown'[u], awaited'[u], down'[u]) = Acked(shown[u], awaited[u], down[u])
                       /\ Arrived(shown'[u], down'[u]) = Arrived(shown[u], down[u])
            BY <3>3, <3>4, <3>5, <3>6
        <3>8. inChat' \subseteq inChat
            BY <2>1
        <3>9. QED
            BY <1>3, <2>8, <2>9, <3>7, <3>8, ElsewhereTexts
    <2>12. QED
        BY <2>8, <2>9, <2>10, <2>11, ElsewhereFits DEF ChatInv
<1>6. QED
    BY <1>4, <1>5

LEMMA ReconnectInv == ASSUME ChatInv, NEW u \in Users, Reconnect(u) PROVE ChatInv'
<1> DEFINE c == [call |-> "rejoin", waited |-> TRUE]
<1>1. ChatTypeOK /\ TabFits(u) /\ up[u] \in Seq(Call) /\ down[u] \in Seq(Event)
    BY QueueTypes DEF ChatInv
<1>2. /\ u \notin linked /\ u \in inChat /\ linked' = linked \cup {u}
      /\ awaited' = [awaited EXCEPT ![u] = "rejoin"]
      /\ UNCHANGED <<server, down, inChat, shown, history, texts, breaks>>
      /\ Send(u, <<"rejoin">>)
    BY DEF Reconnect
<1>3. up[u] = <<>> /\ awaited[u] = "none" /\ down[u] = <<>>
    BY <1>1, <1>2 DEF TabFits, WayFits
<1>4. "rejoin" \in Calls /\ c \in Call
    BY DEF Calls, Call
<1>5. up' = [up EXCEPT ![u] = up[u] \o <<c>>]
    <2>1. [i \in DOMAIN <<"rejoin">> |-> [call |-> <<"rejoin">>[i], waited |-> TRUE]] = <<c>>
        BY <1>4, OneCallMade
    <2>2. QED
        BY <1>2, <2>1 DEF Send
<1>6. /\ up' \in [Users -> Seq(Call)] /\ up'[u] = <<c>>
      /\ \A w \in Users : w # u => up'[w] = up[w]
    <2> HIDE DEF c
    <2>1. up[u] \o <<c>> = <<c>> /\ <<c>> \in Seq(Call)
        BY <1>3, <1>4
    <2>2. up' = [up EXCEPT ![u] = <<c>>]
        BY <1>5, <2>1
    <2>3. QED
        BY <1>1, <2>1, <2>2 DEF ChatTypeOK
<1>7. /\ awaited' \in [Users -> Calls \cup {"none"}] /\ awaited'[u] = "rejoin"
      /\ \A w \in Users : w # u => awaited'[w] = awaited[w]
    BY <1>1, <1>2, <1>4 DEF ChatTypeOK
<1>8. ChatTypeOK'
    BY <1>1, <1>2, <1>6, <1>7 DEF ChatTypeOK, server, history
<1>9. Elsewhere(u)
    BY <1>2, <1>6, <1>7 DEF Elsewhere, server, history
<1>10. TabFits(u)'
    BY <1>1, <1>2, <1>6, <1>7, TabReplugged
<1>11. TextsAgree'
    <2>1. shown[u].said \in Nat
        BY <1>1 DEF ChatTypeOK, Shown
    <2>2. /\ Acked(shown'[u], awaited'[u], down'[u]) = Acked(shown[u], awaited[u], down[u])
          /\ Arrived(shown'[u], down'[u]) = Arrived(shown[u], down[u])
        BY <1>2, <1>3, <1>7, <2>1 DEF Acked
    <2>3. Acked(shown[u], awaited[u], down[u]) \in Nat
        BY <1>1, TextsType
    <2>4. inChat' \subseteq inChat /\ missed \subseteq missed'
        BY <1>2 DEF history
    <2>5. QED
        BY <1>8, <1>9, <2>2, <2>3, <2>4, ElsewhereTexts
<1>12. QED
    BY <1>8, <1>9, <1>10, <1>11, ElsewhereFits DEF ChatInv

LEMMA GivenUpCalls ==
    ASSUME NEW q \in Seq(Call)
    PROVE  [i \in DOMAIN q |-> [q[i] EXCEPT !.waited = FALSE]] \in Seq(Call)
<1> DEFINE given == [i \in DOMAIN q |-> [q[i] EXCEPT !.waited = FALSE]]
<1>1. \A i \in 1..Len(q) : q[i] \in Call
    OBVIOUS
<1>2. \A c \in Call : [c EXCEPT !.waited = FALSE] \in Call
    BY DEF Call
<1>3. DOMAIN q = 1..Len(q) /\ Len(q) \in Nat
    OBVIOUS
<1>4. given \in [1..Len(q) -> Call]
    BY <1>1, <1>2, <1>3
<1> HIDE DEF given
<1>5. given \in Seq(Call)
    BY <1>3, <1>4
<1>6. QED
    BY <1>5 DEF given

LEMMA TimeOutInv == ASSUME ChatInv, NEW u \in Users, TimeOut(u) PROVE ChatInv'
<1>1. ChatTypeOK /\ TabFits(u) /\ up[u] \in Seq(Call) /\ down[u] \in Seq(Event)
    BY QueueTypes DEF ChatInv
<1>2. /\ awaited[u] # "none" /\ missed' = missed \cup {u}
      /\ UNCHANGED <<open, seat, enjoy, friendReq, extendReq, revealed, term, refused, texts>>
    BY DEF TimeOut, server
<1>3. missed \subseteq missed' /\ missed' \subseteq Users /\ breaks' \in 0..MaxBreaks
    <2>1. breaks' \in 0..MaxBreaks
        BY BreakType DEF TimeOut
    <2>2. QED
        BY <1>1, <1>2, <2>1 DEF ChatTypeOK
<1>4. CASE awaited[u] = "rejoin"
    <2>1. End(u, <<>>) /\ linked' = linked /\ seat' = seat
        BY <1>2, <1>4 DEF TimeOut
    <2>2. QED
        BY <1>2, <1>3, <2>1, EndInv
<1>5. CASE awaited[u] # "rejoin"
    <2> DEFINE given == [i \in DOMAIN up[u] |-> [up[u][i] EXCEPT !.waited = FALSE]]
               s == GivenUp(Answered(shown[u], awaited[u], "error"), awaited[u])
    <2>1. /\ up' = [up EXCEPT ![u] = [i \in DOMAIN @ |-> [@[i] EXCEPT !.waited = FALSE]]]
          /\ down' = [down EXCEPT ![u] = Unanswered(@)]
          /\ shown' = [shown EXCEPT ![u] = GivenUp(Answered(@, awaited[u], "error"), awaited[u])]
          /\ awaited' = [awaited EXCEPT ![u] = "none"]
          /\ linked' = linked /\ inChat' = inChat
        BY <1>5 DEF TimeOut
    <2>2. u \in inChat /\ AnswerIsDue(down[u], up[u], awaited[u])
        BY <1>1, <1>2 DEF TabFits, WayFits
    <2>3. Unanswered(down[u]) \in Seq(Event)
        BY <1>1, <2>2, DueGivenUp
    <2>4. given \in Seq(Call)
        BY <1>1, GivenUpCalls
    <2>5. s \in Shown /\ s.said = shown[u].said
        <3>1. shown[u] \in Shown /\ "error" \in Result
            BY <1>1 DEF ChatTypeOK, Result
        <3>2. /\ Answered(shown[u], awaited[u], "error") \in Shown
              /\ Answered(shown[u], awaited[u], "error").said = shown[u].said
            BY <3>1, AnsweredFits
        <3>3. QED
            BY <3>2 DEF GivenUp, Shown
    <2>6. up' = [up EXCEPT ![u] = given] /\ shown' = [shown EXCEPT ![u] = s]
        BY <1>1, <2>1 DEF ChatTypeOK
    <2>7. up'[u] = given /\ shown'[u] = s
        BY <1>1, <2>6 DEF ChatTypeOK
    <2>8. TabFits(u)'
        <3>1. down'[u] = Unanswered(down[u]) /\ awaited'[u] = "none"
            BY <1>1, <2>1 DEF ChatTypeOK
        <3>2. UNCHANGED <<server, linked, inChat, refused>> /\ u \in missed'
            BY <1>2, <2>1 DEF server
        <3>3. QED
            BY <1>1, <1>2, <1>5, <2>7, <3>1, <3>2, TabGaveUp
    <2> HIDE DEF given, s
    <2>9. /\ up' \in [Users -> Seq(Call)] /\ \A w \in Users : w # u => up'[w] = up[w]
          /\ down' \in [Users -> Seq(Event)] /\ \A w \in Users : w # u => down'[w] = down[w]
        <3>1. up' \in [Users -> Seq(Call)] /\ \A w \in Users : w # u => up'[w] = up[w]
            <4>1. up \in [Users -> Seq(Call)]
                BY <1>1 DEF ChatTypeOK
            <4>2. QED
                BY <2>4, <2>6, <4>1
        <3>2. down' \in [Users -> Seq(Event)] /\ \A w \in Users : w # u => down'[w] = down[w]
            <4>1. down \in [Users -> Seq(Event)]
                BY <1>1 DEF ChatTypeOK
            <4>2. QED
                BY <2>1, <2>3, <4>1
        <3>3. QED
            BY <3>1, <3>2
    <2>10. shown' \in [Users -> Shown] /\ \A w \in Users : w # u => shown'[w] = shown[w]
        BY <1>1, <2>5, <2>6 DEF ChatTypeOK
    <2>11. /\ awaited' \in [Users -> Calls \cup {"none"}] /\ awaited'[u] = "none"
           /\ \A w \in Users : w # u => awaited'[w] = awaited[w]
        BY <1>1, <2>1 DEF ChatTypeOK
    <2>12. ChatTypeOK'
        BY <1>1, <1>2, <1>3, <2>1, <2>9, <2>10, <2>11 DEF ChatTypeOK
    <2>13. Elsewhere(u)
        BY <1>2, <1>3, <2>1, <2>9, <2>10, <2>11 DEF Elsewhere
    <2>14. TextsAgree'
        <3>1. shown[u].said \in Nat
            BY <1>1 DEF ChatTypeOK, Shown
        <3>2. \A x : Count(down[u], x) \in Nat
            BY <1>1, CountType
        <3>3. Acked(shown'[u], awaited'[u], down'[u]) = shown[u].said
            BY <2>5, <2>7, <2>11, <3>1 DEF Acked
        <3>4. shown[u].said <= Acked(shown[u], awaited[u], down[u])
            BY <3>1, <3>2 DEF Acked
        <3>5. inChat' \subseteq inChat /\ u \in missed'
            BY <1>2, <2>1
        <3>6. QED
            BY <1>3, <2>12, <2>13, <3>3, <3>4, <3>5, ElsewhereTexts
    <2>15. QED
        BY <2>8, <2>12, <2>13, <2>14, ElsewhereFits DEF ChatInv
<1>6. QED
    BY <1>4, <1>5

-----------------------------------------------------------------------------
(* The theorems of ChatClient.                                             *)

LEMMA ChatInvInitially == ASSUME ChatInit PROVE ChatInv
<1>1. ChatTypeOK
    <2>1. <<>> \in Seq(Call) /\ <<>> \in Seq(Event)
        OBVIOUS
    <2>2. AtFirst \in Shown /\ 0 \in 0..(Terms - 1) /\ 0 \in 0..MaxTexts /\ 0 \in 0..MaxBreaks
        BY BoundAssumption DEF AtFirst, Shown
    <2>3. QED
        BY <2>1, <2>2 DEF ChatInit, ChatTypeOK
<1>2. ASSUME NEW u \in Users PROVE TabFits(u)
    <2>1. /\ up[u] = <<>> /\ down[u] = <<>> /\ seat[u] = "live" /\ awaited[u] = "none"
          /\ u \in linked /\ u \in inChat /\ open = TRUE /\ shown[u] = AtFirst
        BY DEF ChatInit
    <2>2. DOMAIN up[u] = {} /\ DOMAIN down[u] = {}
        BY <2>1
    <2>3. WayFits(u) /\ CallsFit(u) /\ EventsFit(u) /\ SeatFits(u) /\ LeftFits(u) /\ StaysFits(u)
        BY <2>1, <2>2 DEF WayFits, CallsFit, EventsFit, SeatFits, LeftFits, StaysFits
    <2>4. AnswerIsDue(down[u], up[u], awaited[u])
        BY <2>1, <2>2 DEF AnswerIsDue, Has, Unheeded
    <2>5. ShownFits(u)
        BY <2>1 DEF ShownFits, AtFirst
    <2>6. QED
        BY <2>3, <2>4, <2>5 DEF TabFits
<1>3. TextsAgree
    <2> SUFFICES ASSUME NEW u \in inChat, NEW v \in inChat
                 PROVE  Acked(shown[u], awaited[u], down[u]) = 0 /\ Arrived(shown[v], down[v]) = 0
        BY TextsRead
    <2>1. /\ u \in Users /\ v \in Users /\ shown[u] = AtFirst /\ shown[v] = AtFirst
          /\ awaited[u] = "none" /\ down[v] = <<>>
        BY DEF ChatInit
    <2>2. Count(down[v], Note("receive_message")) = 0
        BY <2>1, CountFew
    <2>3. QED
        BY <2>1, <2>2 DEF Acked, Arrived, AtFirst
<1>4. QED
    BY <1>1, <1>2, <1>3 DEF ChatInv

LEMMA ChatInvUnchanged == ASSUME ChatInv, UNCHANGED chatVars PROVE ChatInv'
<1>1. UNCHANGED <<open, seat, enjoy, friendReq, extendReq, revealed, term, linked, up, down,
                  inChat, shown, awaited, missed, refused, texts, breaks>>
    BY DEF chatVars, server, tab, history
<1>2. ChatTypeOK'
    BY <1>1 DEF ChatInv, ChatTypeOK
<1>3. ASSUME NEW u \in Users PROVE TabFits(u)'
    <2>1. TabFits(u)
        BY DEF ChatInv
    <2>2. QED
        BY <1>1, <2>1 DEF TabFits, WayFits, CallsFit, CallFits, EventsFit, EventFits, SeatFits, LeftFits, StaysFits, ShownFits
<1>4. TextsAgree'
    BY <1>1 DEF ChatInv, TextsAgree, OnWay
<1>5. QED
    BY <1>2, <1>3, <1>4 DEF ChatInv

\* What is on its way between a tab and the server, and what each side knows
\* of the other, through every click, handler, limit, delivery, loss of the
\* connection, time-out and end (socket.js call(), index.js, useChat.js): the
\* invariant the theorems about the chat follow from.
THEOREM ChatInvAlways == ChatSpec => []ChatInv
<1>1. ChatInit => ChatInv
    BY ChatInvInitially
<1>2. ASSUME ChatInv, [ChatNext]_chatVars PROVE ChatInv'
    <2>1. ASSUME NEW u \in Users, NEW call \in Asks, Free(u), Ask(u, call) PROVE ChatInv'
        BY <1>2, <2>1, AskInv
    <2>2. ASSUME NEW u \in Users, Free(u), Write(u) PROVE ChatInv'
        BY <1>2, <2>2, WriteInv
    <2>3. ASSUME NEW u \in Users, Free(u), SendReport(u) PROVE ChatInv'
        BY <1>2, <2>3, SendReportInv
    <2>4. ASSUME NEW u \in Users, Skip(u) PROVE ChatInv'
        BY <1>2, <2>4, SkipInv
    <2>5. ASSUME NEW u \in Users, Done(u) PROVE ChatInv'
        BY <1>2, <2>5, DoneInv
    <2>6. ASSUME NEW u \in Users, Handle(u) PROVE ChatInv'
        BY <1>2, <2>6, HandleInv
    <2>7. ASSUME NEW u \in Users, Limit(u) PROVE ChatInv'
        BY <1>2, <2>7, LimitInv
    <2>8. ASSUME NEW u \in Users, Deliver(u) PROVE ChatInv'
        BY <1>2, <2>8, DeliverInv
    <2>9. ASSUME NEW u \in Users, Disconnect(u) PROVE ChatInv'
        BY <1>2, <2>9, DisconnectInv
    <2>10. ASSUME NEW u \in Users, Reconnect(u) PROVE ChatInv'
        BY <1>2, <2>10, ReconnectInv
    <2>11. ASSUME NEW u \in Users, TimeOut(u) PROVE ChatInv'
        BY <1>2, <2>11, TimeOutInv
    <2>12. ASSUME NEW u \in Users, DropSocket(u) PROVE ChatInv'
        BY <1>2, <2>12, DropSocketInv
    <2>13. ASSUME NEW u \in Users, GraceEnds(u) PROVE ChatInv'
        BY <1>2, <2>13, CloseAloneInv DEF GraceEnds
    <2>14. CASE Expire
        BY <1>2, <2>14, CloseAloneInv DEF Expire
    <2>15. CASE UNCHANGED chatVars
        BY <1>2, <2>15, ChatInvUnchanged
    <2>16. QED
        BY <1>2, <2>1, <2>2, <2>3, <2>4, <2>5, <2>6, <2>7, <2>8, <2>9, <2>10, <2>11, <2>12, <2>13,
           <2>14, <2>15 DEF ChatNext
<1>3. QED
    BY <1>1, <1>2, PTL DEF ChatSpec

\* Every message a tab shows as sent is, or will be, shown by a partner that
\* missed nothing, and, when neither missed anything, no other; and the types
\* hold (send() of useChat.js, send_message of index.js).
THEOREM TextsAlwaysSound == ChatSpec => []TextsAreSound
<1>1. ChatInv => TextsAreSound
    BY DEF ChatInv, TextsAreSound
<1>2. QED
    BY <1>1, ChatInvAlways, PTL

\* A tab shows a mutual enjoy, an enjoy of its own or the friendship only while
\* the server holds it, whatever is lost, refused or given up (the handlers of
\* useChat.js).
THEOREM NothingEverShownEarly == ChatSpec => []NothingIsShownEarly
<1>1. ASSUME ChatInv PROVE NothingIsShownEarly
    <2>1. inChat \subseteq Users
        BY <1>1 DEF ChatInv, ChatTypeOK
    <2>2. \A u \in Users : ShownFits(u)
        BY <1>1 DEF ChatInv, TabFits
    <2>3. QED
        BY <2>1, <2>2 DEF ShownFits, NothingIsShownEarly
<1>2. QED
    BY <1>1, ChatInvAlways, PTL

\* A member who leaves the chat has the room ended on the way out, and one who
\* stays in a room that ended is told, unless the limits of the socket or the
\* tab's own time-out stand between (Matching's start_chat, close()).
THEOREM NobodyEverLeftBehind == ChatSpec => []NobodyIsLeftBehind
<1>1. ASSUME ChatInv, NEW u \in Users
      PROVE  /\ open /\ u \notin inChat /\ seat[u] = "live" =>
                    u \in refused \/ \E i \in DOMAIN up[u] : up[u][i].call = "start_chat"
             /\ ~open /\ u \in inChat \cap linked =>
                    \/ awaited[u] = "rejoin" \/ shown[u].report # "none"
                    \/ \E i \in DOMAIN down[u] :
                          \/ down[u][i].event = "partner_left"
                          \/ awaited[u] = "report" /\ down[u][i] = Ack("ok")
    <2>1. LeftFits(u) /\ StaysFits(u)
        BY <1>1 DEF ChatInv, TabFits
    <2>2. QED
        BY <2>1 DEF LeftFits, StaysFits, HasCall, Has, HasAnswer
<1>2. ChatInv => NobodyIsLeftBehind
    BY <1>1 DEF NobodyIsLeftBehind
<1>3. QED
    BY <1>2, ChatInvAlways, PTL

-----------------------------------------------------------------------------
(* What a tab will show.                                                   *)

\* The tab once it has heard an event, or the answer to the call it waits for.
Heard(s, m, call) == IF m.event = "ack" THEN Answered(s, call, m.result) ELSE Told(s, m)

\* From s, by all that is on its way, to t.
LeadsTo(s, d, call, t) ==
    \E f \in [0..Len(d) -> Shown] :
        /\ f[0] = s /\ f[Len(d)] = t
        /\ \A i \in 1..Len(d) : f[i] = Heard(f[i - 1], d[i], call)

LEMMA HeardType ==
    ASSUME NEW s \in Shown, NEW m \in Event, NEW call
    PROVE  Heard(s, m, call) \in Shown
<1>1. m.result \in Result
    BY DEF Event
<1>2. QED
    BY <1>1, AnsweredFits, ToldFits DEF Heard

\* Nothing on its way; one event more; one less; no answer among them.
LEMMA LeadsNowhere ==
    ASSUME NEW s \in Shown, NEW call, NEW t
    PROVE  LeadsTo(s, <<>>, call, t) <=> t = s
<1>1. ASSUME LeadsTo(s, <<>>, call, t) PROVE t = s
    BY <1>1 DEF LeadsTo
<1>2. LeadsTo(s, <<>>, call, s)
    <2> DEFINE f == [i \in 0..0 |-> s]
    <2>1. f \in [0..0 -> Shown] /\ f[0] = s /\ Len(<<>>) = 0 /\ 1..0 = {}
        OBVIOUS
    <2> HIDE DEF f
    <2>2. QED
        BY <2>1 DEF LeadsTo
<1>3. QED
    BY <1>1, <1>2

LEMMA LeadsOn ==
    ASSUME NEW s \in Shown, NEW d \in Seq(Event), NEW call, NEW t, LeadsTo(s, d, call, t),
           NEW m \in Event
    PROVE  t \in Shown /\ LeadsTo(s, d \o <<m>>, call, Heard(t, m, call))
<1> DEFINE n == Len(d)
           e == d \o <<m>>
<1>1. PICK f \in [0..n -> Shown] :
          /\ f[0] = s /\ f[n] = t
          /\ \A i \in 1..n : f[i] = Heard(f[i - 1], d[i], call)
    BY DEF LeadsTo
<1>2. n \in Nat /\ Len(e) = n + 1 /\ e[n + 1] = m /\ \A i \in 1..n : e[i] = d[i]
    OBVIOUS
<1> HIDE DEF n, e
<1>3. t \in Shown
    BY <1>1, <1>2
<1> DEFINE x == Heard(t, m, call)
           g == [i \in 0..(n + 1) |-> IF i = n + 1 THEN x ELSE f[i]]
<1>4. x \in Shown
    BY <1>3, HeardType
<1>5. x = Heard(t, m, call)
    OBVIOUS
<1> HIDE DEF x
<1>6. \A i \in 0..(n + 1) : i # n + 1 => i \in 0..n
    BY <1>2
<1>7. g \in [0..(n + 1) -> Shown]
    BY <1>1, <1>4, <1>6
<1>8. 0 \in 0..(n + 1) /\ n + 1 \in 0..(n + 1) /\ 0 # n + 1
    BY <1>2
<1>9. g[0] = s /\ g[n + 1] = x /\ \A i \in 0..n : g[i] = f[i]
    <2>1. \A i \in 0..n : i \in 0..(n + 1) /\ i # n + 1
        BY <1>2
    <2>2. QED
        BY <1>1, <1>8, <2>1
<1> HIDE DEF g
<1>10. ASSUME NEW i \in 1..(n + 1) PROVE g[i] = Heard(g[i - 1], e[i], call)
    <2>1. CASE i = n + 1
        <3>1. i - 1 = n /\ n \in 0..n
            BY <1>2, <2>1
        <3>2. g[i - 1] = t /\ e[i] = m /\ g[i] = x
            BY <1>1, <1>2, <1>9, <2>1, <3>1
        <3>3. QED
            BY <1>5, <3>2
    <2>2. CASE i # n + 1
        <3>1. i \in 1..n /\ i \in 0..n /\ i - 1 \in 0..n
            BY <1>2, <2>2
        <3>2. g[i] = f[i] /\ g[i - 1] = f[i - 1] /\ e[i] = d[i]
            BY <1>2, <1>9, <3>1
        <3>3. QED
            BY <1>1, <3>1, <3>2
    <2>3. QED
        BY <2>1, <2>2
<1>11. LeadsTo(s, e, call, x)
    BY <1>2, <1>7, <1>9, <1>10 DEF LeadsTo
<1>12. QED
    BY <1>3, <1>5, <1>11 DEF e

LEMMA LeadsFrom ==
    ASSUME NEW s \in Shown, NEW d \in Seq(Event), d # <<>>, NEW call, NEW t, LeadsTo(s, d, call, t)
    PROVE  LeadsTo(Heard(s, Head(d), call), Tail(d), call, t)
<1> DEFINE n == Len(d)
           e == Tail(d)
<1>1. PICK f \in [0..n -> Shown] :
          /\ f[0] = s /\ f[n] = t
          /\ \A i \in 1..n : f[i] = Heard(f[i - 1], d[i], call)
    BY DEF LeadsTo
<1>2. n \in Nat \ {0} /\ Len(e) = n - 1 /\ Head(d) = d[1] /\ \A i \in 1..(n - 1) : e[i] = d[i + 1]
    OBVIOUS
<1> HIDE DEF n, e
<1> DEFINE g == [i \in 0..(n - 1) |-> f[i + 1]]
<1>3. \A i \in 0..(n - 1) : i + 1 \in 0..n
    BY <1>2
<1>4. g \in [0..(n - 1) -> Shown]
    BY <1>1, <1>3
<1>5. \A i \in 0..(n - 1) : g[i] = f[i + 1]
    OBVIOUS
<1> HIDE DEF g
<1>6. g[0] = Heard(s, Head(d), call) /\ g[n - 1] = t
    <2>1. 0 \in 0..(n - 1) /\ n - 1 \in 0..(n - 1) /\ (n - 1) + 1 = n /\ 1 \in 1..n /\ 0 + 1 = 1 /\ 1 - 1 = 0
        BY <1>2
    <2>2. g[0] = f[1] /\ g[n - 1] = f[n]
        BY <1>5, <2>1
    <2>3. f[1] = Heard(f[0], d[1], call)
        BY <1>1, <2>1
    <2>4. QED
        BY <1>1, <1>2, <2>2, <2>3
<1>7. ASSUME NEW i \in 1..(n - 1) PROVE g[i] = Heard(g[i - 1], e[i], call)
    <2>1. i \in 0..(n - 1) /\ i - 1 \in 0..(n - 1) /\ (i - 1) + 1 = i /\ i + 1 \in 1..n /\ (i + 1) - 1 = i
        BY <1>2
    <2>2. g[i] = f[i + 1] /\ g[i - 1] = f[i] /\ e[i] = d[i + 1]
        <3>1. g[i - 1] = f[(i - 1) + 1]
            BY <1>5, <2>1
        <3>2. QED
            BY <1>2, <1>5, <2>1, <3>1
    <2>3. f[i + 1] = Heard(f[(i + 1) - 1], d[i + 1], call)
        BY <1>1, <2>1
    <2>4. QED
        BY <2>1, <2>2, <2>3
<1>8. LeadsTo(Heard(s, Head(d), call), e, call, t)
    BY <1>2, <1>4, <1>6, <1>7 DEF LeadsTo
<1>9. QED
    BY <1>8 DEF e

LEMMA LeadsWithout ==
    ASSUME NEW s, NEW d \in Seq(Event), ~Has(d, "ack"), NEW call, NEW t, LeadsTo(s, d, call, t), NEW other
    PROVE  LeadsTo(s, d, other, t)
<1>1. PICK f \in [0..Len(d) -> Shown] :
          /\ f[0] = s /\ f[Len(d)] = t
          /\ \A i \in 1..Len(d) : f[i] = Heard(f[i - 1], d[i], call)
    BY DEF LeadsTo
<1>2. ASSUME NEW i \in 1..Len(d) PROVE f[i] = Heard(f[i - 1], d[i], other)
    <2>1. d[i].event # "ack"
        BY DEF Has
    <2>2. QED
        BY <1>1, <2>1 DEF Heard
<1>3. QED
    BY <1>1, <1>2 DEF LeadsTo

-----------------------------------------------------------------------------
(* What a chat shows is what the server holds.                             *)

Right(u, s) ==
    /\ s.enjoy = Move(enjoy, u, "mutual")
    /\ ~revealed \/ friendReq = Users => s.friend = Move(friendReq, u, "friends")
    /\ s.extend = "received" <=> extendReq = {Partner(u)}
    /\ s.term = term
    /\ s.away <=> seat[Partner(u)] = "away"

\* What is on its way makes a tab that missed nothing show what the server
\* holds; both have asked to be friends only once they are.
WillBeRight(u) == \E t \in Shown : LeadsTo(shown[u], down[u], awaited[u], t) /\ Right(u, t)
RequestsFit == (friendReq = Users => revealed) /\ extendReq # Users
RailInv == open => RequestsFit /\ \A u \in inChat \ missed : WillBeRight(u)

\* What a member's tab, which will show t, makes of a step of the server.
Then(w, u, call, who, e, r, t) ==
    LET told == IF w \in who THEN Told(t, e) ELSE t
    IN  IF w = u THEN Answered(told, call, r) ELSE told

\* What is told reaches a tab that hears it.
LEMMA ToldLeads ==
    ASSUME ChatInv, NEW who, NEW e \in Event, e.event # "ack", NEW w \in inChat, w \in who => Hears(w),
           NEW t, LeadsTo(shown[w], down[w], awaited[w], t)
    PROVE  LET told == IF w \in who THEN Told(t, e) ELSE t
           IN  /\ t \in Shown /\ told \in Shown /\ down[w] \o Gets(w, who, e) \in Seq(Event)
               /\ LeadsTo(shown[w], down[w] \o Gets(w, who, e), awaited[w], told)
<1>1. ChatTypeOK /\ w \in Users /\ down[w] \in Seq(Event) /\ shown[w] \in Shown
    <2>1. ChatTypeOK /\ w \in Users
        BY DEF ChatInv, ChatTypeOK
    <2>2. QED
        BY <2>1, QueueTypes DEF ChatTypeOK
<1> DEFINE d == down[w] \o Gets(w, who, e)
           told == IF w \in who THEN Told(t, e) ELSE t
<1>2. t \in Shown
    BY <1>1 DEF LeadsTo
<1>3. d \in Seq(Event) /\ told \in Shown /\ LeadsTo(shown[w], d, awaited[w], told)
    <2>1. CASE w \in who
        <3>1. Gets(w, who, e) = <<e>>
            BY <1>1, <2>1 DEF Gets
        <3>2. LeadsTo(shown[w], down[w] \o <<e>>, awaited[w], Heard(t, e, awaited[w]))
            BY <1>1, LeadsOn
        <3>3. Heard(t, e, awaited[w]) = Told(t, e) /\ Told(t, e) \in Shown
            BY <1>2, ToldFits DEF Heard
        <3>4. down[w] \o <<e>> \in Seq(Event)
            BY <1>1
        <3>5. QED
            BY <2>1, <3>1, <3>2, <3>3, <3>4
    <2>2. CASE w \notin who
        <3>1. Gets(w, who, e) = <<>> /\ down[w] \o <<>> = down[w]
            BY <1>1, <2>2 DEF Gets
        <3>2. d = down[w]
            BY <3>1
        <3>3. QED
            BY <1>1, <1>2, <2>2, <3>2
    <2>3. QED
        BY <2>1, <2>2
<1>4. QED
    BY <1>2, <1>3

LEMMA ReachedLeads ==
    ASSUME ChatInv, NEW u \in Users, up[u] # <<>>, NEW who, NEW e \in Event, e.event # "ack",
           NEW r \in Result, Reached(u, who, e, r), shown' = shown, awaited' = awaited,
           NEW w \in inChat, w \notin missed', NEW t, LeadsTo(shown[w], down[w], awaited[w], t),
           NEW x, x = Then(w, u, Head(up[u]).call, who, e, r, t)
    PROVE  t \in Shown /\ x \in Shown /\ LeadsTo(shown'[w], down'[w], awaited'[w], x)
<1>1. /\ ChatTypeOK /\ w \in Users /\ down[w] \in Seq(Event) /\ shown[w] \in Shown
      /\ w \notin missed /\ ~(w \in who /\ ~Hears(w))
    <2>1. ChatTypeOK /\ w \in Users
        BY DEF ChatInv, ChatTypeOK
    <2>2. QED
        BY <2>1, QueueTypes DEF ChatTypeOK, Reached, Missing
<1> DEFINE d == down[w] \o Gets(w, who, e)
           told == IF w \in who THEN Told(t, e) ELSE t
<1>2. t \in Shown
    BY <1>1 DEF LeadsTo
<1>3. d \in Seq(Event) /\ told \in Shown /\ LeadsTo(shown[w], d, awaited[w], told)
    BY <1>1, ToldLeads
<1>4. d = down[w] \o Gets(w, who, e) /\ told = (IF w \in who THEN Told(t, e) ELSE t)
    OBVIOUS
<1> HIDE DEF d, told
<1>5. CASE w = u
    <2> DEFINE c == Head(up[u]).call
               a == Ack(r)
    <2>1. Waits(u) /\ awaited[u] = c
        BY <1>1, <1>5, WaitsFits
    <2>2. a \in Event /\ a.event = "ack" /\ a.result = r
        BY AckType
    <2>3. down'[u] = d \o <<a>>
        BY <1>1, <1>4, <1>5, <2>1 DEF Reached
    <2>4. x = Answered(told, c, r)
        BY <1>4, <1>5 DEF Then
    <2> HIDE DEF a, c
    <2>5. LeadsTo(shown[w], d \o <<a>>, awaited[w], Heard(told, a, awaited[w]))
        BY <1>1, <1>3, <2>2, LeadsOn
    <2>6. Heard(told, a, awaited[w]) = x
        BY <1>5, <2>1, <2>2, <2>4 DEF Heard
    <2>7. x \in Shown
        BY <1>3, <2>2, <2>6, HeardType
    <2>8. QED
        BY <1>2, <1>5, <2>3, <2>5, <2>6, <2>7
<1>6. CASE w # u
    <2>1. down'[w] = d /\ x = told
        BY <1>1, <1>4, <1>6 DEF Reached, Then
    <2>2. QED
        BY <1>2, <1>3, <2>1
<1>7. QED
    BY <1>5, <1>6

\* The rail is right after a step of the server, if what each tab makes of it
\* is what the server then holds.
RightAfter(u, who, e, r) ==
    /\ who \subseteq Users /\ e \in Event /\ e.event # "ack" /\ r \in Result
    /\ Reached(u, who, e, r)
    /\ open' => RequestsFit'
    /\ open' => \A w \in inChat : w \notin missed' =>
                   \A t, x \in Shown : Right(w, t) /\ x = Then(w, u, Head(up[u]).call, who, e, r, t)
                                          => Right(w, x)'

LEMMA ReachedRail ==
    ASSUME ChatInv, RailInv, NEW u \in Users, up[u] # <<>>, NEW who, NEW e, NEW r,
           RightAfter(u, who, e, r), open' => open, UNCHANGED tab
    PROVE  RailInv'
<1> SUFFICES ASSUME open' PROVE RequestsFit' /\ \A w \in (inChat \ missed)' : WillBeRight(w)'
    BY DEF RailInv
<1>1. open /\ shown' = shown /\ awaited' = awaited /\ inChat' = inChat
    BY DEF tab
<1>2. RequestsFit' /\ missed \subseteq missed'
    BY DEF RightAfter, Reached
<1>3. ASSUME NEW w \in inChat, w \notin missed' PROVE WillBeRight(w)'
    <2>1. WillBeRight(w)
        BY <1>1, <1>2, <1>3 DEF RailInv
    <2>2. PICK t \in Shown : LeadsTo(shown[w], down[w], awaited[w], t) /\ Right(w, t)
        BY <2>1 DEF WillBeRight
    <2> DEFINE x == Then(w, u, Head(up[u]).call, who, e, r, t)
    <2>3. x = Then(w, u, Head(up[u]).call, who, e, r, t)
        OBVIOUS
    <2> HIDE DEF x
    <2>4. e \in Event /\ e.event # "ack" /\ r \in Result /\ Reached(u, who, e, r)
        BY DEF RightAfter
    <2>5. x \in Shown /\ LeadsTo(shown'[w], down'[w], awaited'[w], x)
        BY <1>1, <1>3, <2>2, <2>3, <2>4, ReachedLeads
    <2>6. PICK y \in Shown : y = x
        BY <2>5
    <2>7. Right(w, y)'
        BY <1>3, <2>2, <2>3, <2>6 DEF RightAfter
    <2>8. LeadsTo(shown'[w], down'[w], awaited'[w], y)
        BY <2>5, <2>6
    <2>9. QED
        BY <2>7, <2>8 DEF WillBeRight
<1>4. QED
    BY <1>1, <1>2, <1>3

\* The same, from who is in the sets of requests.
Turn(asked, u, both) ==
    IF u \in asked THEN IF Partner(u) \in asked THEN both ELSE "sent"
    ELSE IF Partner(u) \in asked THEN "received" ELSE "none"
RightOf(u, s, votes, asks, known, more, now, seats) ==
    /\ s.enjoy = Turn(votes, u, "mutual")
    /\ ~known \/ {u, Partner(u)} \subseteq asks => s.friend = Turn(asks, u, "friends")
    /\ s.extend = "received" <=> u \notin more /\ Partner(u) \in more
    /\ s.term = now
    /\ s.away <=> seats[Partner(u)] = "away"
AsksFit(u, asks, known, more) ==
    ({u, Partner(u)} \subseteq asks => known) /\ ~({u, Partner(u)} \subseteq more)

LEMMA AskedIs ==
    ASSUME NEW u \in Users, NEW asked \in SUBSET Users
    PROVE  /\ asked = Users <=> {u, Partner(u)} \subseteq asked
           /\ asked = {Partner(u)} <=> u \notin asked /\ Partner(u) \in asked
           /\ asked = {u} <=> u \in asked /\ Partner(u) \notin asked
BY Members

LEMMA MoveIs ==
    ASSUME NEW u \in Users, NEW asked \in SUBSET Users, NEW both
    PROVE  Move(asked, u, both) = Turn(asked, u, both)
BY AskedIs DEF Move, Turn

LEMMA RightIs ==
    ASSUME NEW u \in Users, NEW s, enjoy \subseteq Users, friendReq \subseteq Users, extendReq \subseteq Users
    PROVE  /\ Right(u, s) <=> RightOf(u, s, enjoy, friendReq, revealed, extendReq, term, seat)
           /\ RequestsFit <=> AsksFit(u, friendReq, revealed, extendReq)
<1>1. Move(enjoy, u, "mutual") = Turn(enjoy, u, "mutual")
    BY MoveIs
<1>2. Move(friendReq, u, "friends") = Turn(friendReq, u, "friends")
    BY MoveIs
<1>3. /\ friendReq = Users <=> {u, Partner(u)} \subseteq friendReq
      /\ extendReq = Users <=> {u, Partner(u)} \subseteq extendReq
      /\ extendReq = {Partner(u)} <=> u \notin extendReq /\ Partner(u) \in extendReq
    BY AskedIs
<1>4. QED
    BY <1>1, <1>2, <1>3 DEF Right, RightOf, RequestsFit, AsksFit

LEMMA RightIsNext ==
    ASSUME NEW u \in Users, NEW s, enjoy' \subseteq Users, friendReq' \subseteq Users, extendReq' \subseteq Users
    PROVE  /\ Right(u, s)' <=> RightOf(u, s, enjoy', friendReq', revealed', extendReq', term', seat')
           /\ RequestsFit' <=> AsksFit(u, friendReq', revealed', extendReq')
<1>1. Move(enjoy, u, "mutual")' = Turn(enjoy', u, "mutual")
    <2>1. Move(enjoy', u, "mutual") = Turn(enjoy', u, "mutual")
        BY MoveIs
    <2>2. QED
        BY <2>1 DEF Move, Partner
<1>2. Move(friendReq, u, "friends")' = Turn(friendReq', u, "friends")
    <2>1. Move(friendReq', u, "friends") = Turn(friendReq', u, "friends")
        BY MoveIs
    <2>2. QED
        BY <2>1 DEF Move, Partner
<1>3. /\ friendReq' = Users <=> {u, Partner(u)} \subseteq friendReq'
      /\ extendReq' = Users <=> {u, Partner(u)} \subseteq extendReq'
      /\ extendReq' = {Partner(u)} <=> u \notin extendReq' /\ Partner(u) \in extendReq'
    BY AskedIs
<1>4. QED
    BY <1>1, <1>2, <1>3 DEF Right, RightOf, RequestsFit, AsksFit

\* A handler that tells some and answers the caller, for the two tabs.
LEMMA EmitRight ==
    ASSUME ChatInv, NEW u \in Users, NEW who \in SUBSET Users, NEW e \in Event, e.event # "ack",
           NEW r \in Result, Emit(u, To(who, e), r),
           enjoy' \subseteq Users, friendReq' \subseteq Users, extendReq' \subseteq Users,
           AsksFit(u, friendReq', revealed', extendReq'),
           \A t, x \in Shown :
               /\ RightOf(u, t, enjoy, friendReq, revealed, extendReq, term, seat)
               /\ x = Answered(IF u \in who THEN Told(t, e) ELSE t, Head(up[u]).call, r)
               => RightOf(u, x, enjoy', friendReq', revealed', extendReq', term', seat'),
           \A t, x \in Shown :
               /\ RightOf(Partner(u), t, enjoy, friendReq, revealed, extendReq, term, seat)
               /\ x = IF Partner(u) \in who THEN Told(t, e) ELSE t
               => RightOf(Partner(u), x, enjoy', friendReq', revealed', extendReq', term', seat')
    PROVE  RightAfter(u, who, e, r)
<1>1. ChatTypeOK /\ inChat \subseteq Users
      /\ enjoy \subseteq Users /\ friendReq \subseteq Users /\ extendReq \subseteq Users
    BY DEF ChatInv, ChatTypeOK
<1>2. Reached(u, who, e, r)
    BY <1>1, EmitReaches
<1>3. RequestsFit'
    BY RightIsNext
<1>4. ASSUME NEW w \in inChat, NEW t \in Shown, NEW x \in Shown,
             Right(w, t), x = Then(w, u, Head(up[u]).call, who, e, r, t)
      PROVE  Right(w, x)'
    <2>1. w \in Users /\ (w = u \/ w = Partner(u)) /\ Partner(u) # u
        BY <1>1, <1>4, Members
    <2>2. RightOf(w, t, enjoy, friendReq, revealed, extendReq, term, seat)
        BY <1>1, <1>4, <2>1, RightIs
    <2>3. RightOf(w, x, enjoy', friendReq', revealed', extendReq', term', seat')
        <3>1. CASE w = u
            <4>1. x = Answered(IF u \in who THEN Told(t, e) ELSE t, Head(up[u]).call, r)
                BY <1>4, <3>1 DEF Then
            <4>2. QED
                BY <2>2, <3>1, <4>1
        <3>2. CASE w = Partner(u)
            <4>1. x = IF Partner(u) \in who THEN Told(t, e) ELSE t
                BY <1>4, <2>1, <3>2 DEF Then
            <4>2. QED
                BY <2>2, <3>2, <4>1
        <3>3. QED
            BY <2>1, <3>1, <3>2
    <2>4. QED
        BY <2>1, <2>3, RightIsNext
<1>5. QED
    BY <1>2, <1>3, <1>4 DEF RightAfter

\* What every handler starts from.
LEMMA RailFacts ==
    ASSUME ChatInv, RailInv, open, NEW u \in Users
    PROVE  /\ AsksFit(u, friendReq, revealed, extendReq)
           /\ enjoy \subseteq Users /\ friendReq \subseteq Users /\ extendReq \subseteq Users
           /\ Partner(u) \in Users /\ Partner(u) # u /\ Users = {u, Partner(u)} /\ Partner(Partner(u)) = u
           /\ Users \ {u} \in SUBSET Users /\ u \notin Users \ {u} /\ Partner(u) \in Users \ {u}
           /\ ChatTypeOK /\ {"ok", "mutual", "revealed", "error"} \subseteq Result
<1>1. enjoy \subseteq Users /\ friendReq \subseteq Users /\ extendReq \subseteq Users /\ ChatTypeOK
    BY DEF ChatInv, ChatTypeOK
<1>2. AsksFit(u, friendReq, revealed, extendReq)
    BY <1>1, RightIs DEF RailInv
<1>3. /\ Partner(u) \in Users /\ Partner(u) # u /\ Users = {u, Partner(u)} /\ Partner(Partner(u)) = u
      /\ Users \ {u} \in SUBSET Users /\ u \notin Users \ {u} /\ Partner(u) \in Users \ {u}
    BY Members
<1>4. QED
    BY <1>1, <1>2, <1>3 DEF Result

\* A handler that only answers, and one call of which the answer says nothing.
LEMMA AnswerRight ==
    ASSUME ChatInv, RailInv, open, NEW u \in Users, NEW r \in Result, Emit(u, ToNobody, r),
           UNCHANGED <<seat, enjoy, friendReq, extendReq, revealed, term>>,
           \A t \in Shown :
               RightOf(u, t, enjoy, friendReq, revealed, extendReq, term, seat)
               => RightOf(u, Answered(t, Head(up[u]).call, r), enjoy, friendReq, revealed, extendReq, term, seat)
    PROVE  \E who, e : RightAfter(u, who, e, r)
<1> DEFINE e == Note("partner_back")
<1>1. e \in Event /\ e.event = "partner_back"
    BY NoteType DEF Events
<1> HIDE DEF e
<1>2. Emit(u, To({}, e), r)
    BY ToAll
<1>3. enjoy \subseteq Users /\ friendReq \subseteq Users /\ extendReq \subseteq Users
    BY RailFacts
<1>4. AsksFit(u, friendReq, revealed, extendReq)
    BY RailFacts
<1>5. {} \in SUBSET Users /\ u \notin {} /\ Partner(u) \notin {}
    OBVIOUS
<1>6. ASSUME NEW t \in Shown, NEW x \in Shown,
             RightOf(u, t, enjoy, friendReq, revealed, extendReq, term, seat),
             x = Answered(IF u \in {} THEN Told(t, e) ELSE t, Head(up[u]).call, r)
      PROVE  RightOf(u, x, enjoy, friendReq, revealed, extendReq, term, seat)
    <2>1. x = Answered(t, Head(up[u]).call, r)
        BY <1>6
    <2>2. QED
        BY <1>6, <2>1
<1>7. ASSUME NEW t \in Shown, NEW x \in Shown,
             RightOf(Partner(u), t, enjoy, friendReq, revealed, extendReq, term, seat),
             x = IF Partner(u) \in {} THEN Told(t, e) ELSE t
      PROVE  RightOf(Partner(u), x, enjoy, friendReq, revealed, extendReq, term, seat)
    BY <1>7
<1>8. RightAfter(u, {}, e, r)
    BY <1>1, <1>2, <1>3, <1>4, <1>5, <1>6, <1>7, EmitRight
<1>9. QED
    BY <1>8

LEMMA EnjoyRight ==
    ASSUME ChatInv, RailInv, NEW u \in Users, open, Head(up[u]).call = "enjoy", Enjoy(u)
    PROVE  \E who, e, r : RightAfter(u, who, e, r)
<1> DEFINE p == Partner(u)
<1>1. /\ enjoy' = enjoy \cup {u} /\ enjoy \subseteq Users /\ friendReq \subseteq Users
      /\ extendReq \subseteq Users
      /\ UNCHANGED <<open, seat, friendReq, extendReq, revealed, term>>
    BY RailFacts DEF Enjoy
<1>2. AsksFit(u, friendReq, revealed, extendReq)
    BY RailFacts
<1>3. p \in Users /\ p # u /\ Users = {u, p} /\ Partner(p) = u
    BY RailFacts
<1>4. {"ok", "mutual"} \subseteq Result
    BY RailFacts
<1>5. enjoy' \subseteq Users
    BY <1>1
<1>6. CASE u \in enjoy
    <2>1. Emit(u, ToNobody, "ok") /\ enjoy' = enjoy
        BY <1>1, <1>6 DEF Enjoy
    <2>2. ASSUME NEW t \in Shown, RightOf(u, t, enjoy, friendReq, revealed, extendReq, term, seat)
          PROVE  RightOf(u, Answered(t, "enjoy", "ok"), enjoy, friendReq, revealed, extendReq, term, seat)
        <3>1. t.enjoy \in {"sent", "mutual"}
            BY <1>6, <2>2 DEF RightOf, Turn
        <3>2. Answered(t, "enjoy", "ok") = [t EXCEPT !.enjoy = EnjoyAck(t, "ok")]
            BY DEF Answered, Refused
        <3>3. EnjoyAck(t, "ok") = t.enjoy
            BY <3>1 DEF EnjoyAck
        <3>4. Answered(t, "enjoy", "ok") = t
            BY <3>2, <3>3 DEF Shown
        <3>5. QED
            BY <2>2, <3>4
    <2>3. QED
        BY <1>1, <1>4, <2>1, <2>2, AnswerRight
<1>7. CASE u \notin enjoy /\ p \in enjoy
    <2> DEFINE e == Note("enjoy_mutual")
    <2>1. e \in Event /\ e.event = "enjoy_mutual"
        BY NoteType DEF Events
    <2>2. Emit(u, To(Users, e), "mutual")
        BY <1>7, ToAll DEF Enjoy
    <2> HIDE DEF e, p
    <2>3. ASSUME NEW t \in Shown PROVE Told(t, e) = [t EXCEPT !.enjoy = "mutual"]
        BY <2>1 DEF Told
    <2>4. ASSUME NEW t \in Shown, NEW x \in Shown,
                 RightOf(u, t, enjoy, friendReq, revealed, extendReq, term, seat),
                 x = Answered(IF u \in Users THEN Told(t, e) ELSE t, Head(up[u]).call, "mutual")
          PROVE  RightOf(u, x, enjoy', friendReq', revealed', extendReq', term', seat')
        <3>1. x = Answered([t EXCEPT !.enjoy = "mutual"], "enjoy", "mutual")
            BY <2>3, <2>4
        <3>2. x = [t EXCEPT !.enjoy = "mutual"]
            BY <3>1, ZenonT(60) DEF Answered, Refused, EnjoyAck, Shown
        <3>3. QED
            BY <1>1, <1>3, <1>7, <2>4, <3>2 DEF RightOf, Turn, Shown, p
    <2>5. ASSUME NEW t \in Shown, NEW x \in Shown,
                 RightOf(p, t, enjoy, friendReq, revealed, extendReq, term, seat),
                 x = IF p \in Users THEN Told(t, e) ELSE t
          PROVE  RightOf(p, x, enjoy', friendReq', revealed', extendReq', term', seat')
        <3>1. x = [t EXCEPT !.enjoy = "mutual"]
            BY <1>3, <2>3, <2>5
        <3>2. QED
            BY <1>1, <1>3, <1>7, <2>5, <3>1 DEF RightOf, Turn, Shown
    <2>6. RightAfter(u, Users, e, "mutual")
        BY <1>1, <1>2, <1>4, <1>5, <2>1, <2>2, <2>4, <2>5, EmitRight DEF p
    <2>7. QED
        BY <2>6
<1>8. CASE u \notin enjoy /\ p \notin enjoy
    <2> DEFINE e == Note("enjoy_request")
               who == Users \ {u}
    <2>1. e \in Event /\ e.event = "enjoy_request"
        BY NoteType DEF Events
    <2>2. Emit(u, To(who, e), "ok")
        BY <1>8, ToAll DEF Enjoy
    <2>3. u \notin who /\ p \in who /\ who \in SUBSET Users
        BY <1>3
    <2> HIDE DEF e, p, who
    <2>4. ASSUME NEW t \in Shown, NEW x \in Shown,
                 RightOf(u, t, enjoy, friendReq, revealed, extendReq, term, seat),
                 x = Answered(IF u \in who THEN Told(t, e) ELSE t, Head(up[u]).call, "ok")
          PROVE  RightOf(u, x, enjoy', friendReq', revealed', extendReq', term', seat')
        <3>1. x = Answered(t, "enjoy", "ok") /\ t.enjoy = "none"
            BY <1>8, <2>3, <2>4 DEF RightOf, Turn, p
        <3>2. x = [t EXCEPT !.enjoy = "sent"]
            BY <3>1 DEF Answered, Refused, EnjoyAck, Shown
        <3>3. QED
            BY <1>1, <1>3, <1>8, <2>4, <3>2 DEF RightOf, Turn, Shown, p
    <2>5. ASSUME NEW t \in Shown, NEW x \in Shown,
                 RightOf(p, t, enjoy, friendReq, revealed, extendReq, term, seat),
                 x = IF p \in who THEN Told(t, e) ELSE t
          PROVE  RightOf(p, x, enjoy', friendReq', revealed', extendReq', term', seat')
        <3>1. x = Told(t, e) /\ t.enjoy = "none"
            BY <1>3, <1>8, <2>3, <2>5 DEF RightOf, Turn
        <3>2. x = [t EXCEPT !.enjoy = "received"]
            BY <2>1, <3>1 DEF Told, Shown
        <3>3. QED
            BY <1>1, <1>3, <1>8, <2>5, <3>2 DEF RightOf, Turn, Shown
    <2>6. RightAfter(u, who, e, "ok")
        BY <1>1, <1>2, <1>4, <1>5, <2>1, <2>2, <2>3, <2>4, <2>5, EmitRight DEF p
    <2>7. QED
        BY <2>6
<1>9. QED
    BY <1>6, <1>7, <1>8

\* Both are revealed, by a request or an acceptance.
LEMMA RevealRight ==
    ASSUME ChatInv, RailInv, NEW u \in Users, open, Partner(u) \in friendReq,
           Head(up[u]).call \in {"friend_request", "friend_accept"},
           friendReq' = friendReq \cup {u}, Reveal(u), UNCHANGED <<open, seat, enjoy, extendReq, term>>
    PROVE  \E who, e, r : RightAfter(u, who, e, r)
<1> DEFINE e == Note("revealed")
           p == Partner(u)
<1>1. /\ AsksFit(u, friendReq, revealed, extendReq) /\ enjoy \subseteq Users /\ friendReq \subseteq Users
      /\ extendReq \subseteq Users /\ p \in Users /\ p # u /\ Users = {u, p} /\ Partner(p) = u
      /\ ChatTypeOK /\ "revealed" \in Result
    BY RailFacts
<1>2. e \in Event /\ e.event = "revealed"
    BY NoteType DEF Events
<1>3. Emit(u, To(Users, e), "revealed") /\ revealed' = TRUE
    BY ToAll DEF Reveal
<1>4. p \in friendReq
    OBVIOUS
<1> HIDE DEF e, p
<1>5. friendReq' \subseteq Users /\ {u, p} \subseteq friendReq'
    BY <1>1, <1>4
<1>6. ASSUME NEW t \in Shown PROVE Told(t, e) = [t EXCEPT !.friend = "friends"]
    BY <1>2 DEF Told
<1>7. ASSUME NEW t \in Shown, NEW x \in Shown,
             RightOf(u, t, enjoy, friendReq, revealed, extendReq, term, seat),
             x = Answered(IF u \in Users THEN Told(t, e) ELSE t, Head(up[u]).call, "revealed")
      PROVE  RightOf(u, x, enjoy', friendReq', revealed', extendReq', term', seat')
    <2>1. x = Answered([t EXCEPT !.friend = "friends"], Head(up[u]).call, "revealed")
        BY <1>6, <1>7
    <2>2. x = [t EXCEPT !.friend = "friends"]
        BY <2>1 DEF Answered, Refused
    <2>3. QED
        BY <1>1, <1>5, <1>7, <2>2 DEF RightOf, Turn, Shown, p
<1>8. ASSUME NEW t \in Shown, NEW x \in Shown,
             RightOf(p, t, enjoy, friendReq, revealed, extendReq, term, seat),
             x = IF p \in Users THEN Told(t, e) ELSE t
      PROVE  RightOf(p, x, enjoy', friendReq', revealed', extendReq', term', seat')
    <2>1. x = [t EXCEPT !.friend = "friends"]
        BY <1>1, <1>6, <1>8
    <2>2. QED
        BY <1>1, <1>5, <1>8, <2>1 DEF RightOf, Turn, Shown
<1>9. AsksFit(u, friendReq', revealed', extendReq')
    BY <1>1, <1>3 DEF AsksFit
<1>10. RightAfter(u, Users, e, "revealed")
    BY <1>1, <1>2, <1>3, <1>5, <1>7, <1>8, <1>9, EmitRight DEF p
<1>11. QED
    BY <1>10

LEMMA FriendRequestRight ==
    ASSUME ChatInv, RailInv, NEW u \in Users, open, Head(up[u]).call = "friend_request", FriendRequest(u)
    PROVE  \E who, e, r : RightAfter(u, who, e, r)
<1> DEFINE p == Partner(u)
           who == Users \ {u}
<1>1. /\ AsksFit(u, friendReq, revealed, extendReq) /\ enjoy \subseteq Users /\ friendReq \subseteq Users
      /\ extendReq \subseteq Users /\ p \in Users /\ p # u /\ Users = {u, p} /\ Partner(p) = u
      /\ who \in SUBSET Users /\ u \notin who /\ p \in who
      /\ ChatTypeOK /\ {"ok", "error"} \subseteq Result
    BY RailFacts
<1>2. UNCHANGED <<open, seat, enjoy, extendReq, term>>
    BY DEF FriendRequest
<1>3. CASE revealed
    <2>1. Emit(u, ToNobody, "ok") /\ UNCHANGED <<friendReq, revealed>>
        BY <1>3 DEF FriendRequest
    <2>2. ASSUME NEW t \in Shown, RightOf(u, t, enjoy, friendReq, revealed, extendReq, term, seat)
          PROVE  RightOf(u, Answered(t, "friend_request", "ok"), enjoy, friendReq, revealed, extendReq, term, seat)
        <3>1. Answered(t, "friend_request", "ok") = IF t.friend = "none" THEN [t EXCEPT !.friend = "sent"] ELSE t
            BY DEF Answered, Refused
        <3>2. {u, p} \subseteq friendReq => t.friend = "friends"
            BY <2>2 DEF RightOf, Turn
        <3>3. QED
            BY <1>3, <2>2, <3>1, <3>2 DEF RightOf, Shown
    <2>3. QED
        BY <1>1, <1>2, <2>1, <2>2, AnswerRight
<1>4. CASE ~revealed /\ enjoy # Users
    <2>1. Emit(u, ToNobody, "error") /\ UNCHANGED <<friendReq, revealed>>
        BY <1>4 DEF FriendRequest
    <2>2. \A t : Answered(t, "friend_request", "error") = t
        BY DEF Answered, Refused
    <2>3. QED
        BY <1>1, <1>2, <2>1, <2>2, AnswerRight
<1>5. CASE ~revealed /\ enjoy = Users /\ p \in friendReq
    <2>1. friendReq' = friendReq \cup {u} /\ Reveal(u)
        BY <1>5 DEF FriendRequest
    <2>2. QED
        BY <1>2, <1>5, <2>1, RevealRight
<1>6. CASE ~revealed /\ enjoy = Users /\ p \notin friendReq
    <2> DEFINE e == Note("friend_request")
    <2>1. e \in Event /\ e.event = "friend_request"
        BY NoteType DEF Events
    <2>2. Emit(u, To(who, e), "ok") /\ friendReq' = friendReq \cup {u} /\ revealed' = revealed
        BY <1>6, ToAll DEF FriendRequest
    <2> HIDE DEF e, p, who
    <2>3. friendReq' \subseteq Users /\ u \in friendReq' /\ p \notin friendReq'
        BY <1>1, <1>6, <2>2
    <2>4. ASSUME NEW t \in Shown, NEW x \in Shown,
                 RightOf(u, t, enjoy, friendReq, revealed, extendReq, term, seat),
                 x = Answered(IF u \in who THEN Told(t, e) ELSE t, Head(up[u]).call, "ok")
          PROVE  RightOf(u, x, enjoy', friendReq', revealed', extendReq', term', seat')
        <3>1. x = Answered(t, "friend_request", "ok") /\ t.friend \in {"none", "sent"}
            BY <1>1, <1>6, <2>4 DEF RightOf, Turn, p
        <3>2. x = [t EXCEPT !.friend = "sent"]
            BY <3>1 DEF Answered, Refused, Shown
        <3>3. QED
            BY <1>1, <1>2, <2>3, <2>4, <3>2 DEF RightOf, Turn, Shown, p
    <2>5. ASSUME NEW t \in Shown, NEW x \in Shown,
                 RightOf(p, t, enjoy, friendReq, revealed, extendReq, term, seat),
                 x = IF p \in who THEN Told(t, e) ELSE t
          PROVE  RightOf(p, x, enjoy', friendReq', revealed', extendReq', term', seat')
        <3>1. x = [t EXCEPT !.friend = "received"]
            BY <1>1, <2>1, <2>5 DEF Told
        <3>2. QED
            BY <1>1, <1>2, <2>3, <2>5, <3>1 DEF RightOf, Turn, Shown
    <2>6. AsksFit(u, friendReq', revealed', extendReq')
        BY <1>1, <1>2, <2>3 DEF AsksFit, p
    <2>7. enjoy' \subseteq Users /\ extendReq' \subseteq Users /\ "ok" \in Result
        BY <1>1, <1>2
    <2>8. RightAfter(u, who, e, "ok")
        BY <1>1, <2>1, <2>2, <2>3, <2>4, <2>5, <2>6, <2>7, EmitRight DEF p
    <2>9. QED
        BY <2>8
<1>7. QED
    BY <1>3, <1>4, <1>5, <1>6

LEMMA FriendRespondRight ==
    ASSUME ChatInv, RailInv, NEW u \in Users, open, NEW accept \in BOOLEAN,
           Head(up[u]).call = IF accept THEN "friend_accept" ELSE "friend_reject",
           FriendRespond(u, accept)
    PROVE  \E who, e, r : RightAfter(u, who, e, r)
<1> DEFINE p == Partner(u)
           who == Users \ {u}
<1>1. /\ AsksFit(u, friendReq, revealed, extendReq) /\ enjoy \subseteq Users /\ friendReq \subseteq Users
      /\ extendReq \subseteq Users /\ p \in Users /\ p # u /\ Users = {u, p} /\ Partner(p) = u
      /\ who \in SUBSET Users /\ u \notin who /\ p \in who
      /\ ChatTypeOK /\ {"ok", "error"} \subseteq Result
    BY RailFacts
<1>2. UNCHANGED <<open, seat, enjoy, extendReq, term>>
    BY DEF FriendRespond
<1>3. CASE p \notin friendReq
    <2>1. Emit(u, ToNobody, "error") /\ UNCHANGED <<friendReq, revealed>>
        BY <1>3 DEF FriendRespond
    <2>2. \A t : Answered(t, Head(up[u]).call, "error") = t
        BY DEF Answered, Refused
    <2>3. QED
        BY <1>1, <1>2, <2>1, <2>2, AnswerRight
<1>4. CASE p \in friendReq /\ accept
    <2>1. friendReq' = friendReq \cup {u} /\ Reveal(u)
        BY <1>4 DEF FriendRespond
    <2>2. QED
        BY <1>2, <1>4, <2>1, RevealRight
<1>5. CASE p \in friendReq /\ ~accept
    <2> DEFINE e == Note("friend_reject")
    <2>1. e \in Event /\ e.event = "friend_reject"
        BY NoteType DEF Events
    <2>2. Emit(u, To(who, e), "ok") /\ friendReq' = friendReq \ {p} /\ revealed' = revealed
        BY <1>5, ToAll DEF FriendRespond
    <2> HIDE DEF e, p, who
    <2>3. friendReq' \subseteq Users /\ p \notin friendReq' /\ (~revealed => u \notin friendReq')
        BY <1>1, <1>5, <2>2 DEF AsksFit, p
    <2>4. ASSUME NEW t \in Shown, NEW x \in Shown,
                 RightOf(u, t, enjoy, friendReq, revealed, extendReq, term, seat),
                 x = Answered(IF u \in who THEN Told(t, e) ELSE t, Head(up[u]).call, "ok")
          PROVE  RightOf(u, x, enjoy', friendReq', revealed', extendReq', term', seat')
        <3>1. x = Answered(t, "friend_reject", "ok")
            BY <1>1, <1>5, <2>4
        <3>2. x = [t EXCEPT !.friend = "none"]
            BY <3>1 DEF Answered, Refused
        <3>3. QED
            BY <1>1, <1>2, <2>2, <2>3, <2>4, <3>2 DEF RightOf, Turn, Shown, p
    <2>5. ASSUME NEW t \in Shown, NEW x \in Shown,
                 RightOf(p, t, enjoy, friendReq, revealed, extendReq, term, seat),
                 x = IF p \in who THEN Told(t, e) ELSE t
          PROVE  RightOf(p, x, enjoy', friendReq', revealed', extendReq', term', seat')
        <3>1. x = [t EXCEPT !.friend = "none"]
            BY <1>1, <2>1, <2>5 DEF Told
        <3>2. QED
            BY <1>1, <1>2, <2>2, <2>3, <2>5, <3>1 DEF RightOf, Turn, Shown
    <2>6. AsksFit(u, friendReq', revealed', extendReq')
        BY <1>1, <1>2, <2>3 DEF AsksFit, p
    <2>7. enjoy' \subseteq Users /\ extendReq' \subseteq Users /\ "ok" \in Result
        BY <1>1, <1>2
    <2>8. RightAfter(u, who, e, "ok")
        BY <1>1, <2>1, <2>2, <2>3, <2>4, <2>5, <2>6, <2>7, EmitRight DEF p
    <2>9. QED
        BY <2>8
<1>6. QED
    BY <1>3, <1>4, <1>5

\* The new end is told to both.
LEMMA ExtendRoomRight ==
    ASSUME ChatInv, RailInv, NEW u \in Users, open,
           Head(up[u]).call \in {"extend_request", "extend_accept"},
           UNCHANGED <<open, seat, enjoy, friendReq, revealed>>, ExtendRoom(u)
    PROVE  \E who, e, r : RightAfter(u, who, e, r)
<1> DEFINE e == [Note("extend_accept") EXCEPT !.term = NextTerm]
           p == Partner(u)
<1>1. /\ AsksFit(u, friendReq, revealed, extendReq) /\ enjoy \subseteq Users /\ friendReq \subseteq Users
      /\ extendReq \subseteq Users /\ p \in Users /\ p # u /\ Users = {u, p} /\ Partner(p) = u
      /\ ChatTypeOK /\ "ok" \in Result
    BY RailFacts
<1>2. e \in Event /\ e.event = "extend_accept" /\ e.term = NextTerm
    BY <1>1, NextTermType DEF Note, Event, Events, Result
<1>3. Emit(u, To(Users, e), "ok") /\ extendReq' = {} /\ term' = NextTerm
    BY ToAll DEF ExtendRoom
<1> HIDE DEF e, p
<1>4. ASSUME NEW t \in Shown PROVE Told(t, e) = [t EXCEPT !.extend = "none", !.term = term']
    BY <1>2, <1>3 DEF Told
<1>5. ASSUME NEW t \in Shown, NEW x \in Shown,
             RightOf(u, t, enjoy, friendReq, revealed, extendReq, term, seat),
             x = Answered(IF u \in Users THEN Told(t, e) ELSE t, Head(up[u]).call, "ok")
      PROVE  RightOf(u, x, enjoy', friendReq', revealed', extendReq', term', seat')
    <2>1. x = Answered([t EXCEPT !.extend = "none", !.term = term'], Head(up[u]).call, "ok")
        BY <1>4, <1>5
    <2>2. \/ x = [[t EXCEPT !.extend = "none", !.term = term'] EXCEPT !.extend = "sent"]
          \/ x = [[t EXCEPT !.extend = "none", !.term = term'] EXCEPT !.extend = "none"]
        BY <2>1 DEF Answered, Refused
    <2>3. /\ x.enjoy = t.enjoy /\ x.friend = t.friend /\ x.away = t.away
          /\ x.extend # "received" /\ x.term = term'
        BY <2>2, ZenonT(60) DEF Shown
    <2>4. QED
        BY <1>3, <1>5, <2>3 DEF RightOf
<1>6. ASSUME NEW t \in Shown, NEW x \in Shown,
             RightOf(p, t, enjoy, friendReq, revealed, extendReq, term, seat),
             x = IF p \in Users THEN Told(t, e) ELSE t
      PROVE  RightOf(p, x, enjoy', friendReq', revealed', extendReq', term', seat')
    <2>1. x = [t EXCEPT !.extend = "none", !.term = term']
        BY <1>1, <1>4, <1>6
    <2>2. QED
        BY <1>3, <1>6, <2>1 DEF RightOf, Turn, Shown
<1>7. AsksFit(u, friendReq', revealed', extendReq') /\ extendReq' \subseteq Users
    BY <1>1, <1>3 DEF AsksFit
<1>8. Users \in SUBSET Users /\ enjoy' \subseteq Users /\ friendReq' \subseteq Users
    BY <1>1
<1>9. RightAfter(u, Users, e, "ok")
    BY <1>1, <1>2, <1>3, <1>5, <1>6, <1>7, <1>8, EmitRight DEF p
<1>10. QED
    BY <1>9

LEMMA ExtendRequestRight ==
    ASSUME ChatInv, RailInv, NEW u \in Users, open, Head(up[u]).call = "extend_request", ExtendRequest(u)
    PROVE  \E who, e, r : RightAfter(u, who, e, r)
<1> DEFINE p == Partner(u)
           who == Users \ {u}
           e == Note("extend_request")
<1>1. /\ AsksFit(u, friendReq, revealed, extendReq) /\ enjoy \subseteq Users /\ friendReq \subseteq Users
      /\ extendReq \subseteq Users /\ p \in Users /\ p # u /\ Users = {u, p} /\ Partner(p) = u
      /\ who \in SUBSET Users /\ u \notin who /\ p \in who
      /\ ChatTypeOK /\ "ok" \in Result
    BY RailFacts
<1>2. UNCHANGED <<open, seat, enjoy, friendReq, revealed>>
    BY DEF ExtendRequest
<1>3. CASE p \in extendReq
    BY <1>2, <1>3, ExtendRoomRight DEF ExtendRequest
<1>4. CASE p \notin extendReq
    <2>1. e \in Event /\ e.event = "extend_request"
        BY NoteType DEF Events
    <2>2. Emit(u, To(who, e), "ok") /\ extendReq' = extendReq \cup {u} /\ term' = term
        BY <1>4, ToAll DEF ExtendRequest
    <2> HIDE DEF e, p, who
    <2>3. extendReq' \subseteq Users /\ u \in extendReq' /\ p \notin extendReq'
        BY <1>1, <1>4, <2>2
    <2>4. ASSUME NEW t \in Shown, NEW x \in Shown,
                 RightOf(u, t, enjoy, friendReq, revealed, extendReq, term, seat),
                 x = Answered(IF u \in who THEN Told(t, e) ELSE t, Head(up[u]).call, "ok")
          PROVE  RightOf(u, x, enjoy', friendReq', revealed', extendReq', term', seat')
        <3>1. x = Answered(t, "extend_request", "ok")
            BY <1>1, <2>4
        <3>2. x = [t EXCEPT !.extend = "sent"]
            BY <3>1 DEF Answered, Refused
        <3>3. QED
            BY <1>1, <1>2, <2>2, <2>3, <2>4, <3>2 DEF RightOf, Turn, Shown, p
    <2>5. ASSUME NEW t \in Shown, NEW x \in Shown,
                 RightOf(p, t, enjoy, friendReq, revealed, extendReq, term, seat),
                 x = IF p \in who THEN Told(t, e) ELSE t
          PROVE  RightOf(p, x, enjoy', friendReq', revealed', extendReq', term', seat')
        <3>1. x = [t EXCEPT !.extend = "received"]
            BY <1>1, <2>1, <2>5 DEF Told
        <3>2. QED
            BY <1>1, <1>2, <2>2, <2>3, <2>5, <3>1 DEF RightOf, Turn, Shown
    <2>6. AsksFit(u, friendReq', revealed', extendReq')
        BY <1>1, <1>2, <2>3 DEF AsksFit, p
    <2>7. enjoy' \subseteq Users /\ friendReq' \subseteq Users
        BY <1>1, <1>2
    <2>8. RightAfter(u, who, e, "ok")
        BY <1>1, <2>1, <2>2, <2>3, <2>4, <2>5, <2>6, <2>7, EmitRight DEF p
    <2>9. QED
        BY <2>8
<1>5. QED
    BY <1>3, <1>4

LEMMA ExtendRespondRight ==
    ASSUME ChatInv, RailInv, NEW u \in Users, open, NEW accept \in BOOLEAN,
           Head(up[u]).call = IF accept THEN "extend_accept" ELSE "extend_reject",
           ExtendRespond(u, accept)
    PROVE  \E who, e, r : RightAfter(u, who, e, r)
<1> DEFINE p == Partner(u)
           who == Users \ {u}
<1>1. /\ AsksFit(u, friendReq, revealed, extendReq) /\ enjoy \subseteq Users /\ friendReq \subseteq Users
      /\ extendReq \subseteq Users /\ p \in Users /\ p # u /\ Users = {u, p} /\ Partner(p) = u
      /\ who \in SUBSET Users /\ u \notin who /\ p \in who
      /\ ChatTypeOK /\ {"ok", "error"} \subseteq Result
    BY RailFacts
<1>2. UNCHANGED <<open, seat, enjoy, friendReq, revealed>>
    BY DEF ExtendRespond
<1>3. CASE p \notin extendReq
    <2>1. Emit(u, ToNobody, "error") /\ UNCHANGED <<extendReq, term>>
        BY <1>3 DEF ExtendRespond
    <2>2. ASSUME NEW t \in Shown, RightOf(u, t, enjoy, friendReq, revealed, extendReq, term, seat)
          PROVE  RightOf(u, Answered(t, Head(up[u]).call, "error"), enjoy, friendReq, revealed, extendReq, term, seat)
        <3>1. Answered(t, Head(up[u]).call, "error") = [t EXCEPT !.extend = "none"]
            BY DEF Answered, Refused
        <3>2. QED
            BY <1>3, <2>2, <3>1 DEF RightOf, Shown
    <2>3. QED
        BY <1>1, <1>2, <2>1, <2>2, AnswerRight
<1>4. CASE p \in extendReq /\ accept
    <2>1. ExtendRoom(u) /\ Head(up[u]).call = "extend_accept"
        BY <1>4 DEF ExtendRespond
    <2>2. QED
        BY <1>2, <2>1, ExtendRoomRight
<1>5. CASE p \in extendReq /\ ~accept
    <2> DEFINE e == Note("extend_reject")
    <2>1. e \in Event /\ e.event = "extend_reject"
        BY NoteType DEF Events
    <2>2. Emit(u, To(who, e), "ok") /\ extendReq' = extendReq \ {p} /\ term' = term
        BY <1>5, ToAll DEF ExtendRespond
    <2> HIDE DEF e, p, who
    <2>3. extendReq' \subseteq Users /\ p \notin extendReq' /\ u \notin extendReq'
        BY <1>1, <1>5, <2>2 DEF AsksFit, p
    <2>4. ASSUME NEW t \in Shown, NEW x \in Shown,
                 RightOf(u, t, enjoy, friendReq, revealed, extendReq, term, seat),
                 x = Answered(IF u \in who THEN Told(t, e) ELSE t, Head(up[u]).call, "ok")
          PROVE  RightOf(u, x, enjoy', friendReq', revealed', extendReq', term', seat')
        <3>1. x = Answered(t, "extend_reject", "ok")
            BY <1>1, <1>5, <2>4
        <3>2. x = [t EXCEPT !.extend = "none"]
            BY <3>1 DEF Answered, Refused
        <3>3. QED
            BY <1>1, <1>2, <2>2, <2>3, <2>4, <3>2 DEF RightOf, Turn, Shown, p
    <2>5. ASSUME NEW t \in Shown, NEW x \in Shown,
                 RightOf(p, t, enjoy, friendReq, revealed, extendReq, term, seat),
                 x = IF p \in who THEN Told(t, e) ELSE t
          PROVE  RightOf(p, x, enjoy', friendReq', revealed', extendReq', term', seat')
        <3>1. x = [t EXCEPT !.extend = "none"]
            BY <1>1, <2>1, <2>5 DEF Told
        <3>2. QED
            BY <1>1, <1>2, <2>2, <2>3, <2>5, <3>1 DEF RightOf, Turn, Shown
    <2>6. AsksFit(u, friendReq', revealed', extendReq')
        BY <1>1, <1>2, <2>3 DEF AsksFit, p
    <2>7. enjoy' \subseteq Users /\ friendReq' \subseteq Users /\ "ok" \in Result
        BY <1>1, <1>2
    <2>8. RightAfter(u, who, e, "ok")
        BY <1>1, <2>1, <2>2, <2>3, <2>4, <2>5, <2>6, <2>7, EmitRight DEF p
    <2>9. QED
        BY <2>8
<1>6. QED
    BY <1>3, <1>4, <1>5

LEMMA RejoinRight ==
    ASSUME ChatInv, RailInv, NEW u \in Users, open, Head(up[u]).call = "rejoin", Rejoin(u)
    PROVE  \E who, e, r : RightAfter(u, who, e, r)
<1> DEFINE p == Partner(u)
           who == Users \ {u}
           e == Note("partner_back")
<1>1. /\ AsksFit(u, friendReq, revealed, extendReq) /\ enjoy \subseteq Users /\ friendReq \subseteq Users
      /\ extendReq \subseteq Users /\ p \in Users /\ p # u /\ Users = {u, p} /\ Partner(p) = u
      /\ who \in SUBSET Users /\ u \notin who /\ p \in who
      /\ ChatTypeOK /\ "ok" \in Result
    BY RailFacts
<1>2. /\ UNCHANGED <<enjoy, friendReq, extendReq, revealed, term>>
      /\ seat'[u] = "live" /\ seat'[p] = seat[p]
    BY <1>1 DEF Rejoin, ChatTypeOK
<1>3. e \in Event /\ e.event = "partner_back"
    BY NoteType DEF Events
<1>4. Emit(u, To(who, e), "ok")
    BY ToAll DEF Rejoin
<1> HIDE DEF e, p, who
<1>5. ASSUME NEW t \in Shown, NEW x \in Shown,
             RightOf(u, t, enjoy, friendReq, revealed, extendReq, term, seat),
             x = Answered(IF u \in who THEN Told(t, e) ELSE t, Head(up[u]).call, "ok")
      PROVE  RightOf(u, x, enjoy', friendReq', revealed', extendReq', term', seat')
    <2>1. x = Answered(t, "rejoin", "ok")
        BY <1>1, <1>5
    <2>2. x = t
        BY <2>1 DEF Answered, Refused
    <2>3. QED
        BY <1>2, <1>5, <2>2 DEF RightOf, Turn, p
<1>6. ASSUME NEW t \in Shown, NEW x \in Shown,
             RightOf(p, t, enjoy, friendReq, revealed, extendReq, term, seat),
             x = IF p \in who THEN Told(t, e) ELSE t
      PROVE  RightOf(p, x, enjoy', friendReq', revealed', extendReq', term', seat')
    <2>1. x = [t EXCEPT !.away = FALSE]
        BY <1>1, <1>3, <1>6 DEF Told
    <2>2. QED
        BY <1>1, <1>2, <1>6, <2>1 DEF RightOf, Turn, Shown
<1>7. /\ AsksFit(u, friendReq', revealed', extendReq')
      /\ enjoy' \subseteq Users /\ friendReq' \subseteq Users /\ extendReq' \subseteq Users
    BY <1>1, <1>2
<1>8. RightAfter(u, who, e, "ok")
    BY <1>1, <1>3, <1>4, <1>5, <1>6, <1>7, EmitRight DEF p
<1>9. QED
    BY <1>8

LEMMA MessageRight ==
    ASSUME ChatInv, RailInv, NEW u \in Users, open, Head(up[u]).call = "send_message", Message(u)
    PROVE  \E who, e, r : RightAfter(u, who, e, r)
<1> DEFINE p == Partner(u)
           who == Users \ {u}
           e == Note("receive_message")
<1>1. /\ AsksFit(u, friendReq, revealed, extendReq) /\ enjoy \subseteq Users /\ friendReq \subseteq Users
      /\ extendReq \subseteq Users /\ p \in Users /\ p # u /\ Users = {u, p} /\ Partner(p) = u
      /\ who \in SUBSET Users /\ u \notin who /\ p \in who
      /\ ChatTypeOK /\ "ok" \in Result
    BY RailFacts
<1>2. UNCHANGED <<enjoy, friendReq, extendReq, revealed, term, seat>>
    BY DEF Message, server
<1>3. e \in Event /\ e.event = "receive_message"
    BY NoteType DEF Events
<1>4. Emit(u, To(who, e), "ok")
    BY ToAll DEF Message
<1> HIDE DEF e, p, who
<1>5. ASSUME NEW t \in Shown, NEW x \in Shown,
             RightOf(u, t, enjoy, friendReq, revealed, extendReq, term, seat),
             x = Answered(IF u \in who THEN Told(t, e) ELSE t, Head(up[u]).call, "ok")
      PROVE  RightOf(u, x, enjoy', friendReq', revealed', extendReq', term', seat')
    <2>1. x = Answered(t, "send_message", "ok")
        BY <1>1, <1>5
    <2>2. x = [t EXCEPT !.said = @ + 1]
        BY <2>1 DEF Answered, Refused, Appears
    <2>3. QED
        BY <1>2, <1>5, <2>2 DEF RightOf, Shown
<1>6. ASSUME NEW t \in Shown, NEW x \in Shown,
             RightOf(p, t, enjoy, friendReq, revealed, extendReq, term, seat),
             x = IF p \in who THEN Told(t, e) ELSE t
      PROVE  RightOf(p, x, enjoy', friendReq', revealed', extendReq', term', seat')
    <2>1. x = [t EXCEPT !.heard = @ + 1]
        BY <1>1, <1>3, <1>6 DEF Told
    <2>2. QED
        BY <1>2, <1>6, <2>1 DEF RightOf, Shown
<1>7. /\ AsksFit(u, friendReq', revealed', extendReq')
      /\ enjoy' \subseteq Users /\ friendReq' \subseteq Users /\ extendReq' \subseteq Users
    BY <1>1, <1>2
<1>8. RightAfter(u, who, e, "ok")
    BY <1>1, <1>3, <1>4, <1>5, <1>6, <1>7, EmitRight DEF p
<1>9. QED
    BY <1>8

\* A refusal, which only a tab that missed something takes for an answer to
\* extend.
LEMMA RefusedRight ==
    ASSUME ChatInv, RailInv, open, NEW u \in Users, up[u] # <<>>, NEW e \in Event, e.event # "ack",
           Reached(u, {}, e, "error"), UNCHANGED server,
           u \in inChat \ missed => Head(up[u]).call \notin {"extend_accept", "extend_reject"}
    PROVE  RightAfter(u, {}, e, "error")
<1>1. UNCHANGED <<open, seat, enjoy, friendReq, extendReq, revealed, term>>
    BY DEF server
<1>2. RequestsFit' /\ "error" \in Result /\ missed \subseteq missed'
    BY <1>1 DEF RailInv, RequestsFit, Result, Reached
<1>3. ASSUME NEW w \in inChat, w \notin missed', NEW t \in Shown, NEW x \in Shown,
             Right(w, t), x = Then(w, u, Head(up[u]).call, {}, e, "error", t)
      PROVE  Right(w, x)'
    <2>1. x = IF w = u THEN Answered(t, Head(up[u]).call, "error") ELSE t
        BY <1>3 DEF Then
    <2>2. w = u => x = t
        BY <1>2, <1>3, <2>1 DEF Answered, Refused
    <2>3. x = t
        BY <2>1, <2>2
    <2>4. Right(w, x)
        BY <1>3, <2>3
    <2>5. QED
        BY <1>1, <2>4 DEF Right, Move, Partner
<1>4. QED
    BY <1>2, <1>3 DEF RightAfter

LEMMA OutsideRight ==
    ASSUME ChatInv, RailInv, open, NEW u \in Users, up[u] # <<>>, Emit(u, ToNobody, "error"),
           UNCHANGED server, ~Access(u), Head(up[u]).call # "rejoin"
    PROVE  \E who, e, r : RightAfter(u, who, e, r)
<1> DEFINE e == Note("partner_back")
<1>1. e \in Event /\ e.event = "partner_back"
    BY NoteType DEF Events
<1> HIDE DEF e
<1>2. Emit(u, To({}, e), "error")
    BY ToAll
<1>3. ChatTypeOK /\ TabFits(u)
    BY DEF ChatInv
<1>4. Reached(u, {}, e, "error")
    BY <1>1, <1>2, <1>3, EmitReaches
<1>5. u \in inChat => u \in missed
    <2>1. u \in linked /\ seat[u] # "live"
        BY <1>3 DEF TabFits, WayFits, Access
    <2>2. u \in inChat => awaited[u] = "rejoin"
        BY <1>3, <2>1 DEF TabFits, SeatFits
    <2>3. QED
        BY <2>2, WaitsFits
<1>6. RightAfter(u, {}, e, "error")
    BY <1>1, <1>4, <1>5, RefusedRight
<1>7. QED
    BY <1>6

LEMMA HandlerRight ==
    ASSUME ChatInv, RailInv, NEW u \in Users, open, NEW call, call = Head(up[u]).call, Handler(u, call)
    PROVE  \E who, e, r : RightAfter(u, who, e, r)
<1>1. CASE call = "enjoy" /\ Enjoy(u)
    BY <1>1, EnjoyRight
<1>2. CASE call = "friend_request" /\ FriendRequest(u)
    BY <1>2, FriendRequestRight
<1>3. CASE call = "friend_accept" /\ FriendRespond(u, TRUE)
    BY <1>3, FriendRespondRight
<1>4. CASE call = "friend_reject" /\ FriendRespond(u, FALSE)
    BY <1>4, FriendRespondRight
<1>5. CASE call = "extend_request" /\ ExtendRequest(u)
    BY <1>5, ExtendRequestRight
<1>6. CASE call = "extend_accept" /\ ExtendRespond(u, TRUE)
    BY <1>6, ExtendRespondRight
<1>7. CASE call = "extend_reject" /\ ExtendRespond(u, FALSE)
    BY <1>7, ExtendRespondRight
<1>8. QED
    BY <1>1, <1>2, <1>3, <1>4, <1>5, <1>6, <1>7 DEF Handler

LEMMA HandleRail == ASSUME ChatInv, RailInv, NEW u \in Users, Handle(u) PROVE RailInv'
<1> DEFINE call == Head(up[u]).call
<1>1. up[u] # <<>> /\ UNCHANGED tab
    BY DEF Handle
<1>2. \/ call \in Asks /\ Access(u) /\ Handler(u, call)
      \/ EndsRoom(call) /\ Access(u) /\ Close(u)
      \/ call = "rejoin" /\ open /\ Rejoin(u)
      \/ call = "send_message" /\ Access(u) /\ Message(u)
      \/ call = "report" /\ Report(u)
      \/ /\ call # "report" /\ ~Allowed(u, call)
         /\ Emit(u, ToNobody, "error")
         /\ UNCHANGED server
    BY DEF Handle
<1> SUFFICES ASSUME open' PROVE RailInv'
    BY DEF RailInv
<1>3. open' = open
    <2>1. CASE call \in Asks /\ Access(u) /\ Handler(u, call)
        BY <2>1 DEF Handler, Enjoy, FriendRequest, FriendRespond, ExtendRequest, ExtendRespond
    <2>2. CASE EndsRoom(call) /\ Access(u) /\ Close(u)
        BY <2>2 DEF Close, Forget
    <2>3. CASE call = "rejoin" /\ open /\ Rejoin(u)
        BY <2>3 DEF Rejoin
    <2>4. CASE call = "send_message" /\ Access(u) /\ Message(u)
        BY <2>4 DEF Message, server
    <2>5. CASE call = "report" /\ Report(u)
        BY <2>5 DEF Report, Close, Forget, server
    <2>6. CASE /\ call # "report" /\ ~Allowed(u, call)
               /\ Emit(u, ToNobody, "error")
               /\ UNCHANGED server
        BY <2>6 DEF server
    <2>7. QED
        BY <1>2, <2>1, <2>2, <2>3, <2>4, <2>5, <2>6
<1>4. open
    BY <1>3
<1>5. \E who, e, r : RightAfter(u, who, e, r)
    <2>1. CASE call \in Asks /\ Access(u) /\ Handler(u, call)
        BY <1>4, <2>1, HandlerRight
    <2>2. CASE EndsRoom(call) /\ Access(u) /\ Close(u)
        BY <2>2 DEF Close, Forget
    <2>3. CASE call = "rejoin" /\ open /\ Rejoin(u)
        BY <2>3, RejoinRight
    <2>4. CASE call = "send_message" /\ Access(u) /\ Message(u)
        BY <1>4, <2>4, MessageRight
    <2>5. CASE call = "report" /\ Report(u)
        <3>1. ~Access(u) /\ Emit(u, ToNobody, "error") /\ UNCHANGED server
            BY <1>4, <2>5 DEF Report, ReportTarget, Close, Forget
        <3>2. QED
            BY <1>1, <1>4, <2>5, <3>1, OutsideRight
    <2>6. CASE /\ call # "report" /\ ~Allowed(u, call)
               /\ Emit(u, ToNobody, "error")
               /\ UNCHANGED server
        <3>1. call \in Calls
            <4>1. up[u] \in Seq(Call)
                BY QueueTypes DEF ChatInv
            <4>2. Head(up[u]) \in Call
                BY <1>1, <4>1, ItemsLeft
            <4>3. QED
                BY <4>2 DEF Call
        <3>2. call # "rejoin" /\ ~Access(u)
            BY <1>4, <2>6, <3>1 DEF Allowed, Calls, EndsRoom
        <3>3. QED
            BY <1>1, <1>4, <2>6, <3>2, OutsideRight
    <2>7. QED
        BY <1>2, <2>1, <2>2, <2>3, <2>4, <2>5, <2>6
<1>6. QED
    BY <1>1, <1>3, <1>5, ReachedRail

LEMMA LimitRail == ASSUME ChatInv, RailInv, NEW u \in Users, Limit(u) PROVE RailInv'
<1> DEFINE e == Note("partner_back")
<1>1. /\ up[u] # <<>> /\ Head(up[u]).call \in {"send_message", "report", "skip", "start_chat"}
      /\ UNCHANGED <<server, tab>>
    BY DEF Limit, tab
<1>2. e \in Event /\ e.event = "partner_back"
    BY NoteType DEF Events
<1> HIDE DEF e
<1>3. Reached(u, {}, e, "error")
    BY <1>2, LimitReaches
<1>4. open' = open
    BY <1>1 DEF server
<1>5. CASE open
    <2>1. RightAfter(u, {}, e, "error")
        BY <1>1, <1>2, <1>3, <1>5, RefusedRight
    <2>2. QED
        BY <1>1, <1>4, <2>1, ReachedRail
<1>6. CASE ~open
    BY <1>4, <1>6 DEF RailInv
<1>7. QED
    BY <1>5, <1>6

LEMMA DropSocketRail == ASSUME ChatInv, RailInv, NEW u \in Users, DropSocket(u) PROVE RailInv'
<1> DEFINE e == Note("partner_reconnecting")
           who == Users \ {u}
           p == Partner(u)
<1> SUFFICES ASSUME open' PROVE RailInv'
    BY DEF RailInv
<1>0. open
    BY DEF DropSocket
<1>1. /\ AsksFit(u, friendReq, revealed, extendReq) /\ enjoy \subseteq Users /\ friendReq \subseteq Users
      /\ extendReq \subseteq Users /\ p \in Users /\ p # u /\ Users = {u, p} /\ Partner(p) = u
      /\ who \in SUBSET Users /\ u \notin who /\ p \in who /\ ChatTypeOK
    BY <1>0, RailFacts
<1>2. e \in Event /\ e.event = "partner_reconnecting"
    BY NoteType DEF Events
<1>3. down' = Sent(To(who, e)) /\ missed' = missed \cup Unheard(To(who, e))
    BY <1>0, ToAll DEF DropSocket
<1>4. /\ seat'[u] = "away" /\ seat'[p] = seat[p]
      /\ UNCHANGED <<open, enjoy, friendReq, extendReq, revealed, term, inChat, shown, awaited>>
    BY <1>1 DEF DropSocket, tab, ChatTypeOK
<1> HIDE DEF e, who, p
<1>5. missed' = missed \cup Missing(who) /\ \A w \in Users : down'[w] = down[w] \o Gets(w, who, e)
    BY <1>1, <1>2, <1>3, SentReaches
<1>6. ASSUME NEW w \in inChat, w \notin missed' PROVE WillBeRight(w)'
    <2>1. w \in Users /\ w \notin missed /\ (w \in who => Hears(w))
        BY <1>1, <1>5, <1>6 DEF ChatTypeOK, Missing
    <2>2. PICK t \in Shown : LeadsTo(shown[w], down[w], awaited[w], t) /\ Right(w, t)
        BY <1>0, <2>1 DEF RailInv, WillBeRight
    <2> DEFINE x == IF w \in who THEN Told(t, e) ELSE t
    <2>3. x \in Shown /\ LeadsTo(shown[w], down[w] \o Gets(w, who, e), awaited[w], x)
        BY <1>2, <2>1, <2>2, ToldLeads
    <2>4. RightOf(w, t, enjoy, friendReq, revealed, extendReq, term, seat)
        BY <1>1, <2>1, <2>2, RightIs
    <2>5. RightOf(w, x, enjoy', friendReq', revealed', extendReq', term', seat')
        <3>1. CASE w = u
            <4>1. x = t
                BY <1>1, <3>1
            <4>2. QED
                BY <1>4, <2>4, <3>1, <4>1 DEF RightOf, Turn, p
        <3>2. CASE w = p
            <4>1. x = [t EXCEPT !.away = TRUE]
                BY <1>1, <1>2, <3>2 DEF Told
            <4>2. QED
                BY <1>1, <1>4, <2>4, <3>2, <4>1 DEF RightOf, Turn, Shown
        <3>3. QED
            BY <1>1, <2>1, <3>1, <3>2
    <2> HIDE DEF x
    <2>6. PICK y \in Shown : y = x
        BY <2>3
    <2>7. enjoy' \subseteq Users /\ friendReq' \subseteq Users /\ extendReq' \subseteq Users
        BY <1>1, <1>4
    <2>8. Right(w, y)'
        BY <2>1, <2>5, <2>6, <2>7, RightIsNext
    <2>9. LeadsTo(shown'[w], down'[w], awaited'[w], y)
        BY <1>4, <1>5, <2>1, <2>3, <2>6
    <2>10. QED
        BY <2>8, <2>9 DEF WillBeRight
<1>7. RequestsFit'
    BY <1>0, <1>4 DEF RailInv, RequestsFit
<1>8. QED
    BY <1>4, <1>6, <1>7 DEF RailInv

\* A step of one tab.
Others(u) ==
    \A w \in Users : w # u =>
        /\ down'[w] = down[w] /\ awaited'[w] = awaited[w] /\ shown'[w] = shown[w]
        /\ w \in inChat' => w \in inChat
        /\ w \in missed => w \in missed'

LEMMA TabRail ==
    ASSUME ChatInv, RailInv, NEW u \in Users, Others(u), inChat' \subseteq Users,
           UNCHANGED <<open, enjoy, friendReq, extendReq, revealed, term>>,
           \A w \in Users : seat'[w] = "away" <=> seat[w] = "away",
           ASSUME open, u \in inChat', u \notin missed'
           PROVE  \E t \in Shown : LeadsTo(shown'[u], down'[u], awaited'[u], t) /\ Right(u, t)
    PROVE  RailInv'
<1> SUFFICES ASSUME open PROVE RailInv'
    BY DEF RailInv
<1>1. RequestsFit'
    BY DEF RailInv, RequestsFit
<1>2. ASSUME NEW w \in Users, NEW t \in Shown, Right(w, t) PROVE Right(w, t)'
    <2>1. Partner(w) \in Users
        BY Members
    <2>2. QED
        BY <1>2, <2>1 DEF Right, Move, Partner
<1>3. ASSUME NEW w \in inChat', w \notin missed' PROVE WillBeRight(w)'
    <2>1. \E t \in Shown : LeadsTo(shown'[w], down'[w], awaited'[w], t) /\ Right(w, t)
        <3>1. CASE w = u
            BY <1>3, <3>1
        <3>2. CASE w # u
            <4>1. w \in inChat \ missed /\ down'[w] = down[w] /\ awaited'[w] = awaited[w] /\ shown'[w] = shown[w]
                BY <1>3, <3>2 DEF Others
            <4>2. WillBeRight(w)
                BY <4>1 DEF RailInv
            <4>3. QED
                BY <4>1, <4>2 DEF WillBeRight
        <3>3. QED
            BY <3>1, <3>2
    <2>2. PICK t \in Shown : LeadsTo(shown'[w], down'[w], awaited'[w], t) /\ Right(w, t)
        BY <2>1
    <2>3. Right(w, t)'
        BY <1>2, <1>3, <2>2
    <2>4. QED
        BY <2>2, <2>3 DEF WillBeRight
<1>4. QED
    BY <1>1, <1>3 DEF RailInv

LEMMA EndRail ==
    ASSUME ChatInv, RailInv, NEW u \in Users, NEW calls, End(u, calls), missed \subseteq missed',
           UNCHANGED <<open, enjoy, friendReq, extendReq, revealed, term>>,
           \A w \in Users : seat'[w] = "away" <=> seat[w] = "away"
    PROVE  RailInv'
<1>1. Others(u) /\ inChat' \subseteq Users /\ u \notin inChat'
    BY DEF End, Others, ChatInv, ChatTypeOK
<1>2. QED
    BY <1>1, TabRail

\* A call is made, while no answer is on its way.
LEMMA CalledRail ==
    ASSUME ChatInv, RailInv, NEW u \in Users, NEW call, awaited[u] = "none",
           awaited' = [awaited EXCEPT ![u] = call],
           UNCHANGED <<server, down, inChat, shown, history>>
    PROVE  RailInv'
<1>1. ChatTypeOK /\ TabFits(u) /\ down[u] \in Seq(Event)
    BY QueueTypes DEF ChatInv
<1>2. UNCHANGED <<open, seat, enjoy, friendReq, extendReq, revealed, term, missed>>
    BY DEF server, history
<1>3. Others(u) /\ inChat' \subseteq Users /\ awaited'[u] = call
    BY <1>1, <1>2 DEF Others, ChatTypeOK
<1>4. ASSUME open, u \in inChat', u \notin missed'
      PROVE  \E t \in Shown : LeadsTo(shown'[u], down'[u], awaited'[u], t) /\ Right(u, t)
    <2>1. u \in inChat \ missed
        BY <1>2, <1>4
    <2>2. PICK t \in Shown : LeadsTo(shown[u], down[u], awaited[u], t) /\ Right(u, t)
        BY <1>4, <2>1 DEF RailInv, WillBeRight
    <2>3. ~Has(down[u], "ack")
        BY <1>1, <2>1 DEF TabFits, AnswerIsDue
    <2>4. LeadsTo(shown[u], down[u], call, t)
        BY <1>1, <2>2, <2>3, LeadsWithout
    <2>5. QED
        BY <1>3, <2>2, <2>4
<1>5. QED
    BY <1>2, <1>3, <1>4, TabRail

LEMMA DeliverRail == ASSUME ChatInv, RailInv, NEW u \in Users, Deliver(u) PROVE RailInv'
<1> DEFINE m == Head(down[u])
           leaves == \/ m.event = "partner_left"
                     \/ m.event = "ack" /\ awaited[u] = "rejoin" /\ m.result = "error"
<1>1. ChatTypeOK /\ TabFits(u) /\ down[u] \in Seq(Event) /\ down[u] # <<>> /\ shown[u] \in Shown
    BY QueueTypes DEF ChatInv, Deliver, ChatTypeOK
<1>2. UNCHANGED <<open, seat, enjoy, friendReq, extendReq, revealed, term, missed>>
    BY DEF Deliver, server, history
<1>3. CASE leaves
    <2>1. End(u, <<>>)
        BY <1>3 DEF Deliver
    <2>2. QED
        BY <1>2, <2>1, EndRail
<1>4. CASE ~leaves
    <2>1. /\ down' = [down EXCEPT ![u] = Tail(@)]
          /\ shown' = [shown EXCEPT ![u] =
                    IF m.event = "ack" THEN Answered(@, awaited[u], m.result) ELSE Told(@, m)]
          /\ awaited' = [awaited EXCEPT ![u] = IF m.event = "ack" THEN "none" ELSE @]
          /\ inChat' = inChat
        BY <1>4 DEF Deliver
    <2>2. /\ down'[u] = Tail(down[u]) /\ shown'[u] = Heard(shown[u], m, awaited[u])
          /\ awaited'[u] = IF m.event = "ack" THEN "none" ELSE awaited[u]
        BY <1>1, <2>1 DEF ChatTypeOK, Heard
    <2>3. Others(u) /\ inChat' \subseteq Users
        BY <1>1, <1>2, <2>1 DEF Others, ChatTypeOK
    <2>4. ASSUME open, u \in inChat', u \notin missed'
          PROVE  \E t \in Shown : LeadsTo(shown'[u], down'[u], awaited'[u], t) /\ Right(u, t)
        <3>1. u \in inChat \ missed
            BY <1>2, <2>1, <2>4
        <3>2. PICK t \in Shown : LeadsTo(shown[u], down[u], awaited[u], t) /\ Right(u, t)
            BY <2>4, <3>1 DEF RailInv, WillBeRight
        <3> HIDE DEF m
        <3>3. LeadsTo(shown'[u], down'[u], awaited[u], t)
            BY <1>1, <2>2, <3>2, LeadsFrom DEF m
        <3>4. LeadsTo(shown'[u], down'[u], awaited'[u], t)
            <4>1. CASE m.event = "ack"
                <5>1. AnswerIsDue(down[u], up[u], awaited[u])
                    BY <1>1, <3>1 DEF TabFits
                <5>2. ~Has(Tail(down[u]), "ack") /\ Tail(down[u]) \in Seq(Event)
                    BY <1>1, <4>1, <5>1, DueHeard, ItemsLeft DEF m
                <5>3. QED
                    BY <2>2, <3>3, <5>2, LeadsWithout
            <4>2. CASE m.event # "ack"
                BY <2>2, <3>3, <4>2
            <4>3. QED
                BY <4>1, <4>2
        <3>5. QED
            BY <3>2, <3>4
    <2>5. QED
        BY <1>2, <2>3, <2>4, TabRail
<1>5. QED
    BY <1>3, <1>4

\* A connection that breaks with nothing on its way and nothing awaited.
LEMMA DisconnectRail == ASSUME ChatInv, RailInv, NEW u \in Users, Disconnect(u) PROVE RailInv'
<1>1. ChatTypeOK /\ shown[u] \in Shown
    BY DEF ChatInv, ChatTypeOK
<1>2. /\ seat' = [seat EXCEPT ![u] = IF @ = "live" THEN "stale" ELSE @]
      /\ missed' = IF u \in inChat /\ (down[u] # <<>> \/ awaited[u] # "none")
                   THEN missed \cup {u} ELSE missed
      /\ UNCHANGED <<open, enjoy, friendReq, extendReq, revealed, term>>
    BY DEF Disconnect
<1>3. missed \subseteq missed' /\ \A w \in Users : seat'[w] = "away" <=> seat[w] = "away"
    BY <1>1, <1>2 DEF ChatTypeOK
<1>4. CASE u \in inChat /\ awaited[u] = "rejoin"
    <2>1. End(u, <<>>)
        BY <1>4 DEF Disconnect
    <2>2. QED
        BY <1>2, <1>3, <2>1, EndRail
<1>5. CASE ~(u \in inChat /\ awaited[u] = "rejoin")
    <2>1. /\ down' = [down EXCEPT ![u] = <<>>]
          /\ shown' = [shown EXCEPT ![u] = Answered(@, awaited[u], "error")]
          /\ awaited' = [awaited EXCEPT ![u] = "none"]
          /\ inChat' = inChat
        BY <1>5 DEF Disconnect
    <2>2. Others(u) /\ inChat' \subseteq Users
        BY <1>1, <1>3, <2>1 DEF Others, ChatTypeOK
    <2>3. ASSUME open, u \in inChat', u \notin missed'
          PROVE  \E t \in Shown : LeadsTo(shown'[u], down'[u], awaited'[u], t) /\ Right(u, t)
        <3>1. u \in inChat \ missed /\ down[u] = <<>> /\ awaited[u] = "none"
            BY <1>2, <1>3, <2>1, <2>3
        <3>2. PICK t \in Shown : LeadsTo(shown[u], down[u], awaited[u], t) /\ Right(u, t)
            BY <2>3, <3>1 DEF RailInv, WillBeRight
        <3>3. Answered(shown[u], awaited[u], "error") = shown[u]
            BY <3>1 DEF Answered, Refused
        <3>4. shown'[u] = shown[u] /\ down'[u] = down[u] /\ awaited'[u] = awaited[u]
            BY <1>1, <2>1, <3>1, <3>3 DEF ChatTypeOK
        <3>5. QED
            BY <3>2, <3>4
    <2>4. QED
        BY <1>2, <1>3, <2>2, <2>3, TabRail
<1>6. QED
    BY <1>4, <1>5

LEMMA TimeOutRail == ASSUME ChatInv, RailInv, NEW u \in Users, TimeOut(u) PROVE RailInv'
<1>1. ChatTypeOK
    BY DEF ChatInv
<1>2. /\ missed' = missed \cup {u}
      /\ UNCHANGED <<open, seat, enjoy, friendReq, extendReq, revealed, term>>
    BY DEF TimeOut, server
<1>3. CASE awaited[u] = "rejoin"
    <2>1. End(u, <<>>)
        BY <1>3 DEF TimeOut
    <2>2. QED
        BY <1>2, <2>1, EndRail
<1>4. CASE awaited[u] # "rejoin"
    <2>1. Others(u) /\ inChat' \subseteq Users
        BY <1>1, <1>2, <1>4 DEF TimeOut, Others, ChatTypeOK
    <2>2. u \in missed'
        BY <1>2
    <2>3. QED
        BY <1>2, <2>1, <2>2, TabRail
<1>5. QED
    BY <1>3, <1>4

LEMMA RailInvInitially == ASSUME ChatInit PROVE RailInv
<1>1. RequestsFit
    <2>1. PICK u \in Users : TRUE
        BY PairAssumption
    <2>2. QED
        BY <2>1 DEF ChatInit, RequestsFit
<1>2. ASSUME NEW u \in Users PROVE WillBeRight(u)
    <2>1. shown[u] = AtFirst /\ down[u] = <<>> /\ seat[Partner(u)] = "live"
        BY Members DEF ChatInit
    <2>2. AtFirst \in Shown
        BY BoundAssumption DEF AtFirst, Shown
    <2>3. LeadsTo(shown[u], down[u], awaited[u], AtFirst)
        BY <2>1, <2>2, LeadsNowhere
    <2>4. Right(u, AtFirst)
        <3>1. {} # Users /\ {} # {u} /\ {} # {Partner(u)}
            OBVIOUS
        <3>2. QED
            BY <2>1, <3>1 DEF Right, Move, AtFirst, ChatInit
    <2>5. QED
        BY <2>2, <2>3, <2>4 DEF WillBeRight
<1>3. inChat \subseteq Users
    BY DEF ChatInit
<1>4. QED
    BY <1>1, <1>2, <1>3 DEF RailInv

LEMMA RailInvNext == ASSUME ChatInv, RailInv, [ChatNext]_chatVars PROVE RailInv'
<1>1. ASSUME NEW u \in Users, NEW call, Free(u), Called(u, call) PROVE RailInv'
    BY <1>1, CalledRail DEF Free, Called
<1>2. ASSUME NEW u \in Users, NEW call \in Asks, Free(u), Ask(u, call) PROVE RailInv'
    BY <1>1, <1>2 DEF Ask
<1>3. ASSUME NEW u \in Users, Free(u), Write(u) PROVE RailInv'
    BY <1>1, <1>3 DEF Write
<1>4. ASSUME NEW u \in Users, Free(u), SendReport(u) PROVE RailInv'
    BY <1>1, <1>4 DEF SendReport
<1>5. ASSUME NEW u \in Users, Skip(u) \/ Done(u) PROVE RailInv'
    <2>1. UNCHANGED <<open, seat, enjoy, friendReq, extendReq, revealed, term, missed>>
        BY <1>5 DEF Skip, Done, server, history
    <2>2. End(u, <<"skip">>) \/ End(u, <<>>)
        BY <1>5 DEF Skip, Done
    <2>3. QED
        BY <2>1, <2>2, EndRail
<1>6. ASSUME NEW u \in Users, Reconnect(u) PROVE RailInv'
    <2>1. awaited[u] = "none"
        BY <1>6 DEF Reconnect, ChatInv, TabFits, WayFits
    <2>2. QED
        BY <1>6, <2>1, CalledRail DEF Reconnect
<1>7. CASE CloseAlone
    BY <1>7 DEF CloseAlone, Forget, RailInv
<1>8. CASE UNCHANGED chatVars
    <2>1. UNCHANGED <<open, seat, enjoy, friendReq, extendReq, revealed, term, down,
                      inChat, shown, awaited, missed>>
        BY <1>8 DEF chatVars, server, tab, history
    <2>2. QED
        BY <2>1 DEF RailInv, RequestsFit, WillBeRight, Right, Move, Partner
<1>9. QED
    BY <1>2, <1>3, <1>4, <1>5, <1>6, <1>7, <1>8, HandleRail, LimitRail, DeliverRail, DisconnectRail,
       TimeOutRail, DropSocketRail DEF ChatNext, GraceEnds, Expire

\* What is on its way to a tab that missed nothing makes it show, in the end,
\* the enjoys, requests, wish, end and absence the server holds: the invariant
\* of the mirror, through every handler, answer and loss (useChat.js).
THEOREM RailIsAlwaysCarried == ChatSpec => []RailInv
<1>1. ChatInit => RailInv
    BY RailInvInitially
<1>2. ChatInv /\ RailInv /\ [ChatNext]_chatVars => RailInv'
    BY RailInvNext
<1>3. QED
    BY <1>1, <1>2, ChatInvAlways, PTL DEF ChatSpec

\* With nothing on its way, a tab that missed nothing shows the enjoys, the
\* friend requests, the partner's wish for more time, the end of the room and
\* the partner's absence as the server has them ("The server is the
\* authority", useChat.js:8).
THEOREM RailIsAlwaysRight == ChatSpec => []RailIsRight
<1>1. ASSUME ChatInv, RailInv, NEW u \in Users \ missed, Quiet(u) PROVE Right(u, shown[u])
    <2>1. open /\ u \in inChat \ missed /\ down[u] = <<>> /\ shown[u] \in Shown
        BY <1>1 DEF Quiet, ChatInv, ChatTypeOK
    <2>2. PICK t \in Shown : LeadsTo(shown[u], down[u], awaited[u], t) /\ Right(u, t)
        BY <1>1, <2>1 DEF RailInv, WillBeRight
    <2>3. t = shown[u]
        BY <2>1, <2>2, LeadsNowhere
    <2>4. QED
        BY <2>2, <2>3
<1>2. ChatInv /\ RailInv => RailIsRight
    BY <1>1 DEF RailIsRight, Right
<1>3. QED
    BY <1>2, ChatInvAlways, RailIsAlwaysCarried, PTL

-----------------------------------------------------------------------------
(* Records.                                                                *)

\* A row that fits day d after the totals of night n, when the ids in use so
\* far are `known' and those of `erased' are nobody's any more.
RowFits(x, d, n, known, erased) ==
    /\ x \in Row
    /\ x.label \in known \cup {"deleted", "nobody"}
    /\ x.label \in erased /\ x.at \in {"buffer", "events"} => x.held = "yes"
    /\ x.at = "buffer" => x.day >= n
    /\ x.at = "events" => x.day >= n - EventsDays
    /\ x.at = "purged" => x.day <= d - EventsDays

RowsFit(rs, d, n, known, erased) ==
    rs \in Seq(Row) /\ \A i \in DOMAIN rs : RowFits(rs[i], d, n, known, erased)

\* Everybody has an id of their own, and the cache answers nothing else.
AccountsFit ==
    /\ \A p \in People : account[p] # None => account[p] \in used
    /\ \A p, q \in People : account[p] # None /\ account[p] = account[q] => p = q
    /\ \A p \in People : cached[p] \in {None, "null", account[p]}
    /\ \A p \in People : account[p] = None => sub[p] = "none"

\* A report in the past of its purge was closed; one that a purge passed over,
\* when it was old enough, was closed since.
NightsFit ==
    /\ night <= day
    /\ report \in {"closed", "purged"} => resolvedAt # -1
    /\ report = "purged" => ReportsDays < day
    /\ report = "closed" /\ ReportsDays < night => night <= resolvedAt

Types ==
    /\ day \in Days /\ faults \in 0..MaxFaults
    /\ proc \in {"up", "stopping", "down"} /\ lastNightly \in Days \cup {-1}
    /\ account \in [People -> Ids \cup {None}] /\ used \subseteq Ids
    /\ cached \in [People -> Ids \cup {None, "null"}]
    /\ stats \in [Days -> 0..MaxRows] /\ night \in Days \cup {-1}
    /\ report \in {"open", "closed", "purged"} /\ resolvedAt \in Days \cup {-1}
    /\ backups \in 0..BackupKeep
    /\ sub \in [People -> {"none", "on"}] /\ sending \in [People -> {"no", "yes"}]

\* What is buffered, by the state of the process.
BufferFits ==
    /\ Len(rows) <= MaxRows
    /\ Buffered(rows) < MaxBuffer /\ (proc = "down" => Buffered(rows) = 0)

\* The inductive invariant.
RecordsInv ==
    /\ Types
    /\ RowsFit(rows, day, night, used, ErasedIds)
    /\ BufferFits
    /\ AccountsFit
    /\ NightsFit
    /\ TotalsAreExact

-----------------------------------------------------------------------------
(* Sequences of rows                                                       *)

\* The rows of day d that were ever written, of any rows.
WrittenOf(rs, d) == {i \in DOMAIN rs : rs[i].day = d /\ rs[i].at \in {"events", "purged"}}

\* Sets of positions are finite, and no larger than the sequence.
LEMMA Positions ==
    ASSUME NEW S, NEW rs \in Seq(S), NEW T \in SUBSET DOMAIN rs
    PROVE  IsFiniteSet(T) /\ Cardinality(T) \in Nat /\ Cardinality(T) <= Len(rs)
<1>1. DOMAIN rs = 1..Len(rs) /\ Len(rs) \in Nat
  OBVIOUS
<1>2. IsFiniteSet(1..Len(rs)) /\ Cardinality(1..Len(rs)) = Len(rs)
  <2>1. /\ IsFiniteSet(1..Len(rs))
        /\ Cardinality(1..Len(rs)) = IF 1 > Len(rs) THEN 0 ELSE Len(rs) - 1 + 1
    BY <1>1, FS_Interval, SMTT(30)
  <2> QED
    BY <1>1, <2>1
<1>3. IsFiniteSet(T) /\ Cardinality(T) <= Cardinality(1..Len(rs))
  BY <1>1, <1>2, FS_Subset
<1> QED
  BY <1>2, <1>3, FS_CardinalityType

\* A sequence whose rows were changed one by one.
LEMMA RowByRow ==
    ASSUME NEW S, NEW rs \in Seq(S), NEW f \in [DOMAIN rs -> S]
    PROVE  f \in Seq(S) /\ Len(f) = Len(rs) /\ DOMAIN f = DOMAIN rs
<1>1. DOMAIN rs = 1..Len(rs) /\ Len(rs) \in Nat
  OBVIOUS
<1>2. f \in [1..Len(rs) -> S]
  BY <1>1
<1> QED
  BY <1>1, <1>2

LEMMA BufferedIsNatural ==
    ASSUME NEW rs \in Seq(Row)
    PROVE  Buffered(rs) \in Nat
  BY Positions DEF Buffered

LEMMA NothingBuffered ==
    ASSUME NEW rs, \A i \in DOMAIN rs : rs[i].at # "buffer"
    PROVE  Buffered(rs) = 0
<1>1. {i \in DOMAIN rs : rs[i].at = "buffer"} = {}
  OBVIOUS
<1> QED
  BY <1>1, FS_EmptySet DEF Buffered

\* Nobody's id becomes somebody's again, and days pass: what fits goes on fitting.
LEMMA FitsLater ==
    ASSUME NEW d \in Int, NEW d2 \in Int, d <= d2, NEW n, NEW k, NEW k2, k \subseteq k2,
           NEW e, NEW e2, e2 \subseteq e, NEW rs, RowsFit(rs, d, n, k, e)
    PROVE  RowsFit(rs, d2, n, k2, e2)
  BY BoundsAreNumbers, SMTT(30) DEF RowsFit, RowFits, Row, Days

\* track() adds a row of an id somebody has, or of none.
LEMMA NewRowFits ==
    ASSUME day \in Days, NEW n \in Int, n <= day, NEW k \in SUBSET Ids, NEW e,
           NEW label \in (k \ e) \cup {"deleted", "nobody"}, e \subseteq Ids
    PROVE  RowFits(NewRow(label), day, n, k, e)
  BY NamesAssumption DEF RowFits, NewRow, Row, Places

\* flush() leaves nothing in the buffer, and touches no row of an earlier night's day.
LEMMA FlushedFits ==
    ASSUME NEW d, NEW n \in Int, NEW k, NEW e, NEW rs, RowsFit(rs, d, n, k, e),
           NEW o \in {"events", "lost"}
    PROVE  /\ RowsFit(Flushed(rs, o), d, n, k, e)
           /\ Len(Flushed(rs, o)) = Len(rs)
           /\ Buffered(Flushed(rs, o)) = 0
           /\ WrittenOf(Flushed(rs, o), n - 1) = WrittenOf(rs, n - 1)
           /\ \A i \in DOMAIN Flushed(rs, o) : Flushed(rs, o)[i].at # "buffer"
<1> DEFINE fs == Flushed(rs, o)
           moved(i) == IF rs[i].at = "buffer" THEN [rs[i] EXCEPT !.at = o] ELSE rs[i]
<1>1. DOMAIN fs = DOMAIN rs /\ \A i \in DOMAIN rs : fs[i] = moved(i)
  BY DEF Flushed, Moved
<1>2. rs \in Seq(Row) /\ \A i \in DOMAIN rs : RowFits(rs[i], d, n, k, e)
  BY DEF RowsFit
<1>3. ASSUME NEW i \in DOMAIN rs
      PROVE  RowFits(moved(i), d, n, k, e) /\ moved(i).at # "buffer" /\ moved(i).day = rs[i].day
    <2>1. RowFits(rs[i], d, n, k, e)
      BY <1>2
    <2>2. rs[i].day \in Int /\ EventsDays \in Nat
      BY <2>1, BoundsAreNumbers DEF RowFits, Row, Days
    <2> QED
      BY <2>1, <2>2 DEF RowFits, Row, Places
<1>4. \A i \in DOMAIN rs : rs[i].at = "buffer" => rs[i].day # n - 1
  BY <1>2, BoundsAreNumbers DEF RowFits, Row, Days
<1>5. \A i \in DOMAIN rs : rs[i].at # "buffer" => moved(i) = rs[i]
  OBVIOUS
<1>6. \A i \in DOMAIN rs : moved(i) \in Row
  BY <1>3 DEF RowFits
<1> HIDE DEF moved
<1>7. fs = [i \in DOMAIN rs |-> moved(i)]
  BY DEF Flushed, Moved, moved
<1>8. fs \in Seq(Row) /\ Len(fs) = Len(rs)
  BY <1>2, <1>6, <1>7, RowByRow
<1>9. Buffered(fs) = 0
  BY <1>1, <1>3, NothingBuffered
<1>10. WrittenOf(fs, n - 1) = WrittenOf(rs, n - 1)
  BY <1>1, <1>3, <1>4, <1>5 DEF WrittenOf
<1> QED
  BY <1>1, <1>3, <1>8, <1>9, <1>10 DEF RowsFit

\* track(): the buffer never stays full, and the new row is of today.
LEMMA PushedFits ==
    ASSUME day \in Days, NEW n \in Int, n <= day, NEW k \in SUBSET Ids, NEW e \in SUBSET Ids,
           NEW rs, RowsFit(rs, day, n, k, e),
           NEW label \in (k \ e) \cup {"deleted", "nobody"}, NEW o \in {"events", "lost"}
    PROVE  /\ RowsFit(Push(rs, label, o), day, n, k, e)
           /\ Len(Push(rs, label, o)) = Len(rs) + 1
           /\ Buffered(Push(rs, label, o)) < MaxBuffer
           /\ WrittenOf(Push(rs, label, o), n - 1) = WrittenOf(rs, n - 1)
<1> DEFINE all == Append(rs, NewRow(label))
<1>0. n - 1 < day /\ MaxBuffer \in Nat \ {0}
  BY BoundsAreNumbers DEF Days
<1>1. rs \in Seq(Row) /\ \A i \in DOMAIN rs : RowFits(rs[i], day, n, k, e)
  BY DEF RowsFit
<1>2. RowFits(NewRow(label), day, n, k, e) /\ NewRow(label) \in Row
  <2>1. RowFits(NewRow(label), day, n, k, e)
    BY NewRowFits
  <2> QED
    BY <2>1 DEF RowFits
<1>3. NewRow(label).day = day
  BY DEF NewRow
<1>4. /\ all \in Seq(Row) /\ Len(all) = Len(rs) + 1
      /\ DOMAIN all = DOMAIN rs \cup {Len(rs) + 1} /\ Len(rs) + 1 \notin DOMAIN rs
      /\ \A i \in DOMAIN rs : all[i] = rs[i]
      /\ all[Len(rs) + 1] = NewRow(label)
  BY <1>1, <1>2
<1> HIDE DEF all
<1>5. RowsFit(all, day, n, k, e)
  BY <1>1, <1>2, <1>4 DEF RowsFit
<1>6. WrittenOf(all, n - 1) = WrittenOf(rs, n - 1)
  BY <1>0, <1>3, <1>4 DEF WrittenOf
<1>7. Buffered(all) \in Nat
  BY <1>4, BufferedIsNatural
<1>8. Push(rs, label, o) = IF Buffered(all) >= MaxBuffer THEN Flushed(all, o) ELSE all
  BY DEF Push, all
<1>9. CASE Buffered(all) >= MaxBuffer
  <2>1. Push(rs, label, o) = Flushed(all, o)
    BY <1>8, <1>9
  <2>2. RowsFit(Flushed(all, o), day, n, k, e)
    BY <1>5, FlushedFits
  <2>3. /\ Len(Flushed(all, o)) = Len(all)
        /\ Buffered(Flushed(all, o)) = 0
        /\ WrittenOf(Flushed(all, o), n - 1) = WrittenOf(all, n - 1)
    BY <1>5, <2>2, FlushedFits
  <2>4. 0 < MaxBuffer /\ Len(all) = Len(rs) + 1
    BY <1>0, <1>4
  <2>5. /\ RowsFit(Push(rs, label, o), day, n, k, e)
        /\ Len(Push(rs, label, o)) = Len(rs) + 1
        /\ WrittenOf(Push(rs, label, o), n - 1) = WrittenOf(rs, n - 1)
    BY <1>6, <2>1, <2>2, <2>3, <2>4, Zenon
  <2>6. Buffered(Push(rs, label, o)) < MaxBuffer
    BY <2>1, <2>3, <2>4
  <2> QED
    BY <2>5, <2>6
<1>10. CASE ~(Buffered(all) >= MaxBuffer)
  BY <1>0, <1>4, <1>5, <1>6, <1>7, <1>8, <1>10
<1> QED
  BY <1>9, <1>10

\* deleteUser() writes other labels, and moves no row.
LEMMA RelabelledStays ==
    ASSUME NEW rs \in Seq(Row), NEW id
    PROVE  /\ Relabelled(rs, id) \in Seq(Row)
           /\ DOMAIN Relabelled(rs, id) = DOMAIN rs
           /\ Len(Relabelled(rs, id)) = Len(rs)
           /\ Buffered(Relabelled(rs, id)) = Buffered(rs)
           /\ \A x : WrittenOf(Relabelled(rs, id), x) = WrittenOf(rs, x)
<1> DEFINE fs == Relabelled(rs, id)
           new(i) == CASE rs[i].label = id /\ rs[i].at = "events" -> [rs[i] EXCEPT !.label = "deleted"]
                       [] rs[i].label = id /\ rs[i].at = "buffer" -> [rs[i] EXCEPT !.held = "yes"]
                       [] OTHER -> rs[i]
<1>1. fs = [i \in DOMAIN rs |-> new(i)]
  BY DEF Relabelled
<1>2. ASSUME NEW i \in DOMAIN rs
      PROVE  new(i) \in Row /\ new(i).at = rs[i].at /\ new(i).day = rs[i].day
    <2>1. rs[i] \in Row
      OBVIOUS
    <2>2. new(i) \in {rs[i], [rs[i] EXCEPT !.label = "deleted"], [rs[i] EXCEPT !.held = "yes"]}
      OBVIOUS
    <2> HIDE DEF new
    <2> QED
      BY <2>1, <2>2 DEF Row
<1> HIDE DEF new
<1>3. fs \in Seq(Row) /\ Len(fs) = Len(rs) /\ DOMAIN fs = DOMAIN rs
  BY <1>1, <1>2, RowByRow
<1>4. \A i \in DOMAIN rs : fs[i].at = rs[i].at /\ fs[i].day = rs[i].day
  BY <1>1, <1>2
<1> HIDE DEF fs
<1>5. Buffered(fs) = Buffered(rs)
  <2>1. {i \in DOMAIN fs : fs[i].at = "buffer"} = {i \in DOMAIN rs : rs[i].at = "buffer"}
    BY <1>3, <1>4
  <2> QED
    BY <2>1 DEF Buffered
<1>6. \A x : WrittenOf(fs, x) = WrittenOf(rs, x)
  BY <1>3, <1>4 DEF WrittenOf
<1> QED
  BY <1>3, <1>5, <1>6 DEF fs

\* Under the id there is nothing left but what is held in the buffer.
LEMMA RelabelledFits ==
    ASSUME NEW d, NEW n, NEW k \in SUBSET Ids, NEW e \in SUBSET Ids, NEW rs, RowsFit(rs, d, n, k, e),
           NEW id \in Ids
    PROVE  RowsFit(Relabelled(rs, id), d, n, k, e \cup {id})
<1> DEFINE new(i) == Relabelled(rs, id)[i]
<1>1. rs \in Seq(Row) /\ \A i \in DOMAIN rs : RowFits(rs[i], d, n, k, e)
  BY DEF RowsFit
<1>2. \A i \in DOMAIN rs : new(i) =
        CASE rs[i].label = id /\ rs[i].at = "events" -> [rs[i] EXCEPT !.label = "deleted"]
          [] rs[i].label = id /\ rs[i].at = "buffer" -> [rs[i] EXCEPT !.held = "yes"]
          [] OTHER -> rs[i]
  BY DEF Relabelled
<1> HIDE DEF new
<1>3. ASSUME NEW i \in DOMAIN rs
      PROVE  RowFits(new(i), d, n, k, e \cup {id})
    <2>1. RowFits(rs[i], d, n, k, e) /\ rs[i] \in Row
      BY <1>1 DEF RowFits
    <2>2. CASE rs[i].label = id /\ rs[i].at = "events"
      <3>1. new(i) = [rs[i] EXCEPT !.label = "deleted"]
        BY <1>2, <2>2
      <3> QED
        BY <2>1, <2>2, <3>1, NamesAssumption DEF RowFits, Row
    <2>3. CASE rs[i].label = id /\ rs[i].at = "buffer"
      <3>1. new(i) = [rs[i] EXCEPT !.held = "yes"]
        BY <1>2, <2>3
      <3> QED
        BY <2>1, <2>3, <3>1 DEF RowFits, Row
    <2>4. CASE ~(rs[i].label = id /\ rs[i].at \in {"events", "buffer"})
      <3>1. new(i) = rs[i]
        BY <1>2, <2>4
      <3> QED
        BY <2>1, <2>4, <3>1 DEF RowFits
    <2> QED
      BY <2>2, <2>3, <2>4
<1> QED
  BY <1>1, <1>3, RelabelledStays DEF RowsFit, new

\* purgeRetention(), of a buffer that was flushed: what is left is young enough
\* for tonight, what is gone was old enough, and yesterday is not touched.
LEMMA PurgedFits ==
    ASSUME day \in Days, NEW n, NEW k, NEW e, NEW rs, RowsFit(rs, day, n, k, e),
           \A i \in DOMAIN rs : rs[i].at # "buffer", NEW part \in Nat
    PROVE  /\ RowsFit(Purged(rs, part), day, day, k, e)
           /\ Len(Purged(rs, part)) = Len(rs)
           /\ Buffered(Purged(rs, part)) = 0
           /\ WrittenOf(Purged(rs, part), day - 1)
                = {i \in DOMAIN rs : rs[i].at = "events" /\ rs[i].day = day - 1}
<1> DEFINE fs == Purged(rs, part)
           old(i) == rs[i].at = "events" /\ (rs[i].day < day - EventsDays \/ (rs[i].day = day - EventsDays /\ i <= part))
           new(i) == IF old(i) THEN [rs[i] EXCEPT !.at = "purged"] ELSE rs[i]
<1>1. rs \in Seq(Row) /\ \A i \in DOMAIN rs : RowFits(rs[i], day, n, k, e)
  BY DEF RowsFit
<1>2. day \in Int /\ EventsDays \in Int /\ EventsDays >= 2
  BY BoundsAreNumbers, YesterdayIsKept DEF Days
<1>3. fs = [i \in DOMAIN rs |-> new(i)]
  BY DEF Purged
<1>4. ASSUME NEW i \in DOMAIN rs
      PROVE  /\ RowFits(new(i), day, day, k, e) /\ new(i).at # "buffer"
             /\ new(i).day = rs[i].day
             /\ rs[i].day = day - 1 => rs[i].at # "purged" /\ new(i).at = rs[i].at
    <2>1. RowFits(rs[i], day, n, k, e) /\ rs[i] \in Row /\ rs[i].day \in Int
      BY <1>1, BoundsAreNumbers DEF RowFits, Row, Days
    <2>2. CASE old(i)
      <3>1. new(i) = [rs[i] EXCEPT !.at = "purged"] /\ rs[i].day <= day - EventsDays
        BY <1>2, <2>1, <2>2
      <3> HIDE DEF new, old
      <3> QED
        BY <1>2, <2>1, <3>1 DEF RowFits, Row, Places
    <2>3. CASE ~old(i)
      <3>1. new(i) = rs[i] /\ (rs[i].at = "events" => rs[i].day >= day - EventsDays)
        BY <1>2, <2>1, <2>3
      <3> HIDE DEF new, old
      <3> QED
        BY <1>2, <2>1, <3>1 DEF RowFits
    <2> QED
      BY <2>2, <2>3
<1> HIDE DEF new
<1>5. \A i \in DOMAIN rs : new(i) \in Row
  BY <1>4 DEF RowFits
<1>6. fs \in Seq(Row) /\ Len(fs) = Len(rs) /\ DOMAIN fs = DOMAIN rs
  BY <1>1, <1>3, <1>5, RowByRow
<1>7. \A i \in DOMAIN rs : fs[i] = new(i)
  BY <1>3
<1> HIDE DEF fs
<1>8. Buffered(fs) = 0
  BY <1>4, <1>6, <1>7, NothingBuffered
<1>9. WrittenOf(fs, day - 1) = {i \in DOMAIN rs : rs[i].at = "events" /\ rs[i].day = day - 1}
  BY <1>4, <1>6, <1>7 DEF WrittenOf
<1>10. RowsFit(fs, day, day, k, e)
  BY <1>4, <1>6, <1>7 DEF RowsFit
<1> QED
  BY <1>6, <1>8, <1>9, <1>10 DEF fs

-----------------------------------------------------------------------------
(* People                                                                  *)

\* What p does is written under the id p has now, or under none.
LEMMA LabelIsCurrent ==
    ASSUME Types, AccountsFit, NEW p \in People
    PROVE  /\ LabelOf(p) \in (used \ ErasedIds) \cup {"deleted", "nobody"}
           /\ Found(p) \in {"null", account[p]} /\ Found(p) # None
<1>1. cached[p] \in {None, "null", account[p]} /\ account[p] \in Ids \cup {None}
  BY DEF Types, AccountsFit
<1>2. account[p] # None => account[p] \in used \ ErasedIds
  BY DEF AccountsFit, ErasedIds
<1>3. Found(p) \in {"null", account[p]} /\ Found(p) # None
  BY <1>1, NamesAssumption DEF Found
<1> QED
  BY <1>2, <1>3, NamesAssumption DEF LabelOf

\* getUser() leaves in the cache what it answered.
LEMMA CachingFits ==
    ASSUME Types, AccountsFit, NEW p \in People,
           cached' = [cached EXCEPT ![p] = Found(p)], UNCHANGED <<account, used>>,
           sub' \in [People -> {"none", "on"}],
           \A q \in People : account[q] = None => sub'[q] = "none"
    PROVE  AccountsFit' /\ cached' \in [People -> Ids \cup {None, "null"}]
<1>1. Found(p) \in {"null", account[p]}
  BY LabelIsCurrent
<1>2. cached' \in [People -> Ids \cup {None, "null"}]
  BY <1>1 DEF Types
<1>3. \A q \in People : cached'[q] \in {None, "null", account[q]}
  BY <1>1 DEF Types, AccountsFit
<1> QED
  BY <1>2, <1>3 DEF AccountsFit

LEMMA FaultsAreCounted ==
    ASSUME Types, Fault \/ UNCHANGED faults
    PROVE  faults' \in 0..MaxFaults
  BY BoundsAreNumbers DEF Types, Fault

LEMMA OutcomeIsCounted ==
    ASSUME Types, NEW o \in {"events", "lost"}, FlushOutcome(o)
    PROVE  faults' \in 0..MaxFaults
  BY FaultsAreCounted DEF FlushOutcome

\* A step that leaves the rows of the last night's day as they are.
LEMMA TotalsStay ==
    ASSUME TotalsAreExact, UNCHANGED <<night, stats>>,
           WrittenOf(rows', night - 1) = WrittenOf(rows, night - 1)
    PROVE  TotalsAreExact'
  BY DEF TotalsAreExact, Written, WrittenOf

\* A row is accepted.
LEMMA AcceptFits ==
    ASSUME RecordsInv, NEW label \in (used \ ErasedIds) \cup {"deleted", "nobody"},
           Accept(label), UNCHANGED <<day, proc, night, stats, account, used>>
    PROVE  /\ RowsFit(rows, day, night, used, ErasedIds)'
           /\ BufferFits' /\ TotalsAreExact' /\ faults' \in 0..MaxFaults
<1> USE DEF RecordsInv
<1>1. PICK o \in {"events", "lost"} :
        proc # "down" /\ Len(rows) < MaxRows /\ FlushOutcome(o) /\ rows' = Push(rows, label, o)
  BY DEF Accept
<1>2. day \in Days /\ night \in Int /\ night <= day /\ used \in SUBSET Ids
      /\ ErasedIds \in SUBSET Ids /\ Len(rows) \in Nat
  BY BoundsAreNumbers, SMTT(30) DEF Types, Days, NightsFit, ErasedIds, RowsFit
<1>3. /\ RowsFit(rows', day, night, used, ErasedIds)
      /\ Len(rows') = Len(rows) + 1 /\ Buffered(rows') < MaxBuffer
      /\ WrittenOf(rows', night - 1) = WrittenOf(rows, night - 1)
  <2>1. RowsFit(Push(rows, label, o), day, night, used, ErasedIds)
    BY <1>2, PushedFits
  <2> QED
    BY <1>1, <1>2, <2>1, PushedFits
<1>4. ErasedIds' = ErasedIds
  BY DEF ErasedIds
<1>5. BufferFits'
  BY <1>1, <1>2, <1>3, BoundsAreNumbers DEF BufferFits
<1> QED
  BY <1>1, <1>3, <1>4, <1>5, TotalsStay, OutcomeIsCounted

\* An account is erased: its id is nobody's, and its subscription is gone.
LEMMA ErasedInv ==
    ASSUME RecordsInv, NEW p \in People, account[p] # None, proc # "down",
           NEW rs, RowsFit(rs, day, night, used, ErasedIds), Buffered(rs) < MaxBuffer,
           WrittenOf(rs, night - 1) = WrittenOf(rows, night - 1),
           Erased(p, rs), faults' \in 0..MaxFaults
    PROVE  RecordsInv'
<1> USE DEF RecordsInv
<1>1. /\ Len(rs) <= MaxRows
      /\ rows' = Relabelled(rs, account[p])
      /\ account' = [account EXCEPT ![p] = None]
      /\ cached' = [cached EXCEPT ![p] = None]
      /\ sub' = [sub EXCEPT ![p] = "none"]
      /\ UNCHANGED <<day, proc, lastNightly, used, stats, report, resolvedAt, backups, night, sending>>
  BY DEF Erased
<1>2. account[p] \in Ids /\ used \in SUBSET Ids /\ ErasedIds \in SUBSET Ids
  BY DEF Types, ErasedIds
<1>3. /\ RowsFit(rows', day, night, used, ErasedIds \cup {account[p]})
      /\ Len(rows') = Len(rs) /\ Buffered(rows') = Buffered(rs)
      /\ WrittenOf(rows', night - 1) = WrittenOf(rs, night - 1)
  <2>1. RowsFit(Relabelled(rs, account[p]), day, night, used, ErasedIds \cup {account[p]})
    BY <1>2, RelabelledFits
  <2>2. /\ Len(Relabelled(rs, account[p])) = Len(rs)
        /\ Buffered(Relabelled(rs, account[p])) = Buffered(rs)
        /\ WrittenOf(Relabelled(rs, account[p]), night - 1) = WrittenOf(rs, night - 1)
    BY RelabelledStays DEF RowsFit
  <2> QED
    BY <1>1, <2>1, <2>2
<1>4. ErasedIds' \subseteq ErasedIds \cup {account[p]}
  BY <1>1 DEF ErasedIds, Types
<1>5. RowsFit(rows, day, night, used, ErasedIds)'
  <2>1. day \in Int
    BY BoundsAreNumbers DEF Types, Days
  <2> QED
    BY <1>1, <1>3, <1>4, <2>1, FitsLater
<1>6. Types' /\ AccountsFit'
  BY <1>1 DEF Types, AccountsFit
<1>7. BufferFits' /\ NightsFit'
  BY <1>1, <1>3 DEF BufferFits, NightsFit
<1> QED
  BY <1>1, <1>3, <1>5, <1>6, <1>7, TotalsStay

-----------------------------------------------------------------------------
(* The invariant                                                           *)

LEMMA InitInv == Init => RecordsInv
<1> SUFFICES ASSUME Init PROVE RecordsInv
  OBVIOUS
<1> USE DEF Init
<1>1. Types
  BY BoundsAreNumbers DEF Types, Days
<1>2. RowsFit(rows, day, night, used, ErasedIds)
  BY DEF RowsFit
<1>3. BufferFits
  BY BoundsAreNumbers, NothingBuffered DEF BufferFits
<1>4. AccountsFit /\ NightsFit /\ TotalsAreExact
  BY DEF AccountsFit, NightsFit, TotalsAreExact
<1> QED
  BY <1>1, <1>2, <1>3, <1>4 DEF RecordsInv

\* What happens to a row of p's, in the steps that accept one.
LEMMA AcceptInv ==
    ASSUME RecordsInv, NEW p \in People, Accept(LabelOf(p)),
           cached' = [cached EXCEPT ![p] = Found(p)],
           sub' \in [People -> {"none", "on"}],
           \A q \in People : account[q] = None => sub'[q] = "none",
           sending' \in [People -> {"no", "yes"}],
           UNCHANGED <<day, proc, lastNightly, account, used, tables>>
    PROVE  RecordsInv'
<1> USE DEF RecordsInv
<1>1. UNCHANGED <<day, proc, lastNightly, account, used, stats, report, resolvedAt, backups, night>>
  BY DEF tables
<1>2. LabelOf(p) \in (used \ ErasedIds) \cup {"deleted", "nobody"}
  BY LabelIsCurrent
<1>3. /\ RowsFit(rows, day, night, used, ErasedIds)'
      /\ BufferFits' /\ TotalsAreExact' /\ faults' \in 0..MaxFaults
  BY <1>1, <1>2, AcceptFits
<1>4. AccountsFit' /\ cached' \in [People -> Ids \cup {None, "null"}]
  BY <1>1, CachingFits
<1>5. Types' /\ NightsFit'
  BY <1>1, <1>3, <1>4 DEF Types, NightsFit
<1> QED
  BY <1>3, <1>4, <1>5

\* Rows that fit, after the handlers that kickUser() runs have added to them.
LEMMA KickedFits ==
    ASSUME RecordsInv, NEW p \in People, NEW rs, RowsFit(rs, day, night, used, ErasedIds),
           Buffered(rs) < MaxBuffer, WrittenOf(rs, night - 1) = WrittenOf(rows, night - 1),
           NEW o \in {"events", "lost"}, NEW ks \in Kicked(p, rs, o)
    PROVE  /\ RowsFit(ks, day, night, used, ErasedIds)
           /\ Buffered(ks) < MaxBuffer
           /\ WrittenOf(ks, night - 1) = WrittenOf(rows, night - 1)
<1>1. CASE ks = rs
  BY <1>1
<1>2. CASE ks = Push(rs, LabelOf(p), o)
  <2>1. day \in Days /\ night \in Int /\ night <= day /\ used \in SUBSET Ids
        /\ ErasedIds \in SUBSET Ids
    BY BoundsAreNumbers DEF RecordsInv, Types, Days, NightsFit, ErasedIds
  <2>2. LabelOf(p) \in (used \ ErasedIds) \cup {"deleted", "nobody"}
    BY LabelIsCurrent DEF RecordsInv
  <2>3. RowsFit(ks, day, night, used, ErasedIds)
    BY <1>2, <2>1, <2>2, PushedFits
  <2> QED
    BY <1>2, <2>1, <2>2, <2>3, PushedFits
<1> QED
  BY <1>1, <1>2 DEF Kicked

\* A step of which the rows, their days and the people know nothing.
LEMMA RowsUntouched ==
    ASSUME RecordsInv, UNCHANGED <<rows, day, night, used, account, stats>>,
           proc' = proc \/ proc' # "down"
    PROVE  RowsFit(rows, day, night, used, ErasedIds)' /\ BufferFits' /\ TotalsAreExact'
<1>1. ErasedIds' = ErasedIds
  BY DEF ErasedIds
<1>2. BufferFits'
  BY DEF RecordsInv, BufferFits
<1> QED
  BY <1>1, <1>2 DEF RecordsInv, TotalsAreExact, Written

LEMMA EraseInv ==
    ASSUME RecordsInv, NEW p \in People, EraseMe(p) \/ EraseByAdmin(p)
    PROVE  RecordsInv'
<1>1. /\ day \in Days /\ night \in Int /\ night <= day /\ used \in SUBSET Ids
      /\ ErasedIds \in SUBSET Ids /\ RowsFit(rows, day, night, used, ErasedIds)
      /\ Buffered(rows) < MaxBuffer
  BY BoundsAreNumbers DEF RecordsInv, Types, Days, NightsFit, ErasedIds, BufferFits
<1>2. CASE EraseMe(p)
  <2>0. PICK o \in {"events", "lost"} :
          /\ proc # "down" /\ account[p] # None /\ FlushOutcome(o)
          /\ \E ks \in Kicked(p, Push(rows, "deleted", o), o) : Erased(p, ks)
    BY <1>2 DEF EraseMe
  <2>1. PICK ks \in Kicked(p, Push(rows, "deleted", o), o) : Erased(p, ks)
    BY <2>0
  <2>2. RowsFit(Push(rows, "deleted", o), day, night, used, ErasedIds)
    BY <1>1, PushedFits
  <2>3. /\ Buffered(Push(rows, "deleted", o)) < MaxBuffer
        /\ WrittenOf(Push(rows, "deleted", o), night - 1) = WrittenOf(rows, night - 1)
    BY <1>1, <2>2, PushedFits
  <2>4. /\ RowsFit(ks, day, night, used, ErasedIds)
        /\ Buffered(ks) < MaxBuffer
        /\ WrittenOf(ks, night - 1) = WrittenOf(rows, night - 1)
    BY <2>2, <2>3, KickedFits
  <2> QED
    BY <2>0, <2>1, <2>4, ErasedInv, OutcomeIsCounted DEF RecordsInv
<1>3. CASE EraseByAdmin(p)
  <2>0. PICK o \in {"events", "lost"} :
          /\ proc # "down" /\ account[p] # None /\ FlushOutcome(o)
          /\ \E ks \in Kicked(p, rows, o) : Erased(p, ks)
    BY <1>3 DEF EraseByAdmin
  <2>1. PICK ks \in Kicked(p, rows, o) : Erased(p, ks)
    BY <2>0
  <2>2. /\ RowsFit(ks, day, night, used, ErasedIds)
        /\ Buffered(ks) < MaxBuffer
        /\ WrittenOf(ks, night - 1) = WrittenOf(rows, night - 1)
    BY <1>1, KickedFits
  <2> QED
    BY <2>0, <2>1, <2>2, ErasedInv, OutcomeIsCounted DEF RecordsInv
<1> QED
  BY <1>2, <1>3

LEMMA RegisterInv ==
    ASSUME RecordsInv, NEW p \in People, Register(p)
    PROVE  RecordsInv'
<1> USE DEF RecordsInv
<1>1. PICK id \in Ids \ used :
        /\ proc # "down" /\ account[p] = None
        /\ used' = used \cup {id}
        /\ account' = [account EXCEPT ![p] = id]
        /\ cached' = [cached EXCEPT ![p] = id]
        /\ UNCHANGED <<day, proc, lastNightly, rows, tables, sub, sending, faults>>
  BY DEF Register
<1>2. UNCHANGED <<day, proc, rows, stats, report, resolvedAt, backups, night>>
  BY <1>1 DEF tables
<1>3. ErasedIds' \subseteq ErasedIds
  BY <1>1, NamesAssumption DEF ErasedIds, Types
<1>4. RowsFit(rows, day, night, used, ErasedIds)'
  <2>1. day \in Int
    BY BoundsAreNumbers DEF Types, Days
  <2> QED
    BY <1>1, <1>2, <1>3, <2>1, FitsLater
<1>5. Types' /\ AccountsFit'
  BY <1>1, <1>2, NamesAssumption DEF Types, AccountsFit
<1>6. BufferFits' /\ NightsFit' /\ TotalsAreExact'
  BY <1>2 DEF BufferFits, NightsFit, TotalsAreExact, Written
<1> QED
  BY <1>4, <1>5, <1>6

\* rollupDay(yesterday) writes one total, and what it writes is a number of rows.
LEMMA RolledUpFits ==
    ASSUME Types, NEW rs \in Seq(Row), Len(rs) <= MaxRows
    PROVE  /\ RolledUp(rs) \in [Days -> 0..MaxRows]
           /\ day > 0 => RolledUp(rs)[day - 1] = CountOf(rs, day - 1)
           /\ \A d \in Days : d # day - 1 => RolledUp(rs)[d] = stats[d]
<1>1. day \in Nat /\ LastDay \in Nat /\ MaxRows \in Nat /\ stats \in [Days -> 0..MaxRows]
      /\ (day > 0 => day - 1 \in Days)
  BY BoundsAreNumbers DEF Types, Days
<1>2. CountOf(rs, day - 1) \in 0..MaxRows
  <2>1. {i \in DOMAIN rs : rs[i].at = "events" /\ rs[i].day = day - 1} \in SUBSET DOMAIN rs
    OBVIOUS
  <2>2. CountOf(rs, day - 1) \in Nat /\ CountOf(rs, day - 1) <= Len(rs) /\ Len(rs) \in Nat
    BY <2>1, Positions DEF CountOf
  <2> QED
    BY <1>1, <2>2
<1>3. CASE day = 0
  BY <1>1, <1>3 DEF RolledUp
<1>4. CASE day # 0
  <2>1. RolledUp(rs) = [stats EXCEPT ![day - 1] = CountOf(rs, day - 1)]
    BY <1>4 DEF RolledUp
  <2> QED
    BY <1>1, <1>2, <1>4, <2>1
<1> QED
  BY <1>3, <1>4

\* The night: flushed, counted, purged; or broken off after any of it.
LEMMA NightlyInv ==
    ASSUME RecordsInv, Nightly
    PROVE  RecordsInv'
<1> USE DEF RecordsInv
<1>0. /\ day \in Days /\ day \in Nat /\ night \in Int /\ night <= day
      /\ RowsFit(rows, day, night, used, ErasedIds) /\ rows \in Seq(Row) /\ Len(rows) <= MaxRows
  BY BoundsAreNumbers DEF Types, Days, NightsFit, RowsFit, BufferFits
<1>1. PICK o \in {"events", "lost"}, done \in {"flush", "purge", "backup"}, part \in 0..Len(rows) :
        /\ Fault \/ UNCHANGED faults
        /\ LET rs == Flushed(rows, o) IN
           IF done = "flush"
           THEN rows' = rs /\ UNCHANGED tables
           ELSE /\ stats' = RolledUp(rs)
                /\ rows' = Purged(rs, part)
                /\ report' = ReportPurged
                /\ night' = day
                /\ backups' = IF done = "backup" THEN BackedUp ELSE backups
                /\ UNCHANGED resolvedAt
  BY DEF Nightly
<1>2. UNCHANGED <<day, proc, account, cached, used, sub, sending>> /\ lastNightly' = day
      /\ faults' \in 0..MaxFaults
  BY <1>1, FaultsAreCounted DEF Nightly, people
<1>3. ErasedIds' = ErasedIds
  BY <1>2 DEF ErasedIds
<1> DEFINE rs == Flushed(rows, o)
<1>4. RowsFit(rs, day, night, used, ErasedIds) /\ rs \in Seq(Row)
  BY <1>0, FlushedFits DEF RowsFit
<1>5. /\ Len(rs) = Len(rows) /\ Buffered(rs) = 0
      /\ WrittenOf(rs, night - 1) = WrittenOf(rows, night - 1)
      /\ \A i \in DOMAIN rs : rs[i].at # "buffer"
  BY <1>0, <1>4, FlushedFits
<1> HIDE DEF rs
<1>6. CASE done = "flush"
  <2>1. rows' = rs /\ UNCHANGED <<stats, report, resolvedAt, backups, night>>
    BY <1>1, <1>6 DEF tables, rs
  <2>2. RowsFit(rows, day, night, used, ErasedIds)'
    BY <1>2, <1>3, <1>4, <2>1
  <2>3. BufferFits'
    BY <1>0, <1>2, <1>5, <2>1, BoundsAreNumbers DEF BufferFits
  <2>4. TotalsAreExact'
    BY <1>5, <2>1, TotalsStay
  <2>5. Types' /\ AccountsFit' /\ NightsFit'
    BY <1>2, <2>1 DEF Types, AccountsFit, NightsFit
  <2> QED
    BY <2>2, <2>3, <2>4, <2>5
<1>7. CASE done # "flush"
  <2>1. /\ stats' = RolledUp(rs) /\ rows' = Purged(rs, part) /\ report' = ReportPurged
        /\ night' = day /\ backups' = IF done = "backup" THEN BackedUp ELSE backups
        /\ UNCHANGED resolvedAt
    BY <1>1, <1>7 DEF rs
  <2>2. part \in Nat
    BY <1>0
  <2>3. RowsFit(Purged(rs, part), day, day, used, ErasedIds)
    BY <1>0, <1>4, <1>5, <2>2, PurgedFits
  <2>4. /\ Len(Purged(rs, part)) = Len(rs) /\ Buffered(Purged(rs, part)) = 0
        /\ WrittenOf(Purged(rs, part), day - 1)
             = {i \in DOMAIN rs : rs[i].at = "events" /\ rs[i].day = day - 1}
    BY <1>0, <1>4, <1>5, <2>2, <2>3, PurgedFits
  <2>5. RowsFit(rows, day, night, used, ErasedIds)'
    BY <1>2, <1>3, <2>1, <2>3
  <2>6. BufferFits'
    BY <1>0, <1>2, <1>5, <2>1, <2>4, BoundsAreNumbers DEF BufferFits
  <2>7. /\ stats' \in [Days -> 0..MaxRows]
        /\ day > 0 => stats'[day - 1] = CountOf(rs, day - 1)
    BY <1>0, <1>4, <1>5, <2>1, RolledUpFits
  <2>8. TotalsAreExact'
    BY <1>2, <2>1, <2>4, <2>7 DEF TotalsAreExact, Written, WrittenOf, CountOf
  <2>9. Types' /\ AccountsFit'
    <3>1. backups' \in 0..BackupKeep
      BY <2>1, BoundsAreNumbers DEF Types, BackedUp
    <3>2. report' \in {"open", "closed", "purged"}
      BY <2>1 DEF Types, ReportPurged
    <3> QED
      BY <1>2, <2>1, <2>7, <3>1, <3>2 DEF Types, AccountsFit
  <2>10. NightsFit'
    BY <1>0, <1>2, <2>1, BoundsAreNumbers DEF NightsFit, ReportPurged
  <2> QED
    BY <2>5, <2>6, <2>8, <2>9, <2>10
<1> QED
  BY <1>6, <1>7

\* A digest totals yesterday again: either tonight's totals were not made yet, or
\* it counts the same rows, of which none can have been purged.
LEMMA DigestInv ==
    ASSUME RecordsInv, Digest
    PROVE  RecordsInv'
<1> USE DEF RecordsInv
<1>1. /\ stats' = RolledUp(rows) /\ proc # "down"
      /\ UNCHANGED <<day, proc, lastNightly, account, cached, used, rows, report, resolvedAt, backups,
                     night, sub, sending, faults>>
  BY DEF Digest, people, pushes
<1>2. /\ day \in Nat /\ night \in Int /\ night <= day /\ (night > 0 => night - 1 \in Days)
      /\ rows \in Seq(Row) /\ Len(rows) <= MaxRows
  BY BoundsAreNumbers DEF Types, Days, NightsFit, RowsFit, BufferFits
<1>3. /\ stats' \in [Days -> 0..MaxRows]
      /\ day > 0 => stats'[day - 1] = CountOf(rows, day - 1)
      /\ \A d \in Days : d # day - 1 => stats'[d] = stats[d]
  BY <1>1, <1>2, RolledUpFits
<1>4. TotalsAreExact'
  <2>1. CASE night = day
    <3>1. \A i \in DOMAIN rows : rows[i].day = day - 1 => rows[i].at # "purged"
      <4> SUFFICES ASSUME NEW i \in DOMAIN rows, rows[i].day = day - 1, rows[i].at = "purged"
                   PROVE  FALSE
        OBVIOUS
      <4>1. RowFits(rows[i], day, night, used, ErasedIds)
        BY DEF RowsFit
      <4> QED
        BY <1>2, <4>1, BoundsAreNumbers, YesterdayIsKept DEF RowFits
    <3>2. Written(day - 1) = {i \in DOMAIN rows : rows[i].at = "events" /\ rows[i].day = day - 1}
      BY <3>1 DEF Written
    <3> QED
      BY <1>1, <1>3, <2>1, <3>2 DEF TotalsAreExact, Written, CountOf
  <2>2. CASE night # day
    BY <1>1, <1>2, <1>3, <2>2 DEF TotalsAreExact, Written
  <2> QED
    BY <2>1, <2>2
<1>5. RowsFit(rows, day, night, used, ErasedIds)' /\ BufferFits'
  <2>1. ErasedIds' = ErasedIds
    BY <1>1 DEF ErasedIds
  <2> QED
    BY <1>1, <2>1 DEF BufferFits
<1>6. Types' /\ AccountsFit' /\ NightsFit'
  BY <1>1, <1>3 DEF Types, AccountsFit, NightsFit
<1> QED
  BY <1>4, <1>5, <1>6

LEMMA FlushInv ==
    ASSUME RecordsInv, Flush
    PROVE  RecordsInv'
<1> USE DEF RecordsInv
<1>1. PICK o \in {"events", "lost"} : FlushOutcome(o) /\ rows' = Flushed(rows, o)
  BY DEF Flush
<1>2. UNCHANGED <<day, proc, lastNightly, account, cached, used, stats, report, resolvedAt, backups,
                  night, sub, sending>>
  BY DEF Flush, people, tables
<1>3. ErasedIds' = ErasedIds /\ faults' \in 0..MaxFaults
  BY <1>1, <1>2, OutcomeIsCounted DEF ErasedIds
<1>4. night \in Int /\ RowsFit(rows, day, night, used, ErasedIds)
  BY BoundsAreNumbers DEF Types, Days
<1>5. RowsFit(rows', day, night, used, ErasedIds)
  BY <1>1, <1>4, FlushedFits
<1>6. /\ Len(rows') = Len(rows) /\ Buffered(rows') = 0
      /\ WrittenOf(rows', night - 1) = WrittenOf(rows, night - 1)
  BY <1>1, <1>4, <1>5, FlushedFits
<1>7. BufferFits'
  BY <1>2, <1>6, BoundsAreNumbers DEF BufferFits
<1>8. Types' /\ AccountsFit' /\ NightsFit' /\ TotalsAreExact'
  BY <1>2, <1>3, <1>6, TotalsStay DEF Types, AccountsFit, NightsFit
<1> QED
  BY <1>2, <1>3, <1>5, <1>7, <1>8

\* The process is gone: the buffer with it, to the table or lost.
LEMMA GoneInv ==
    ASSUME RecordsInv, NEW rs, Gone(rs),
           \/ rs = rows
           \/ \E o \in {"events", "lost"} : rs = Flushed(rows, o),
           faults' \in 0..MaxFaults
    PROVE  RecordsInv'
<1> USE DEF RecordsInv
<1>1. /\ proc' = "down" /\ lastNightly' = -1
      /\ cached' = [p \in People |-> None]
      /\ rows' = Moved(rs, "buffer", "lost")
      /\ sending' = [p \in People |-> "no"]
      /\ UNCHANGED <<day, account, used, stats, report, resolvedAt, backups, night, sub>>
  BY DEF Gone, tables
<1>2. night \in Int /\ RowsFit(rows, day, night, used, ErasedIds)
  BY BoundsAreNumbers DEF Types, Days
<1>3. PICK o \in {"events", "lost"} : rows' = Flushed(rows, o)
  <2>1. CASE rs = rows
    BY <1>1, <2>1 DEF Flushed
  <2>2. CASE \E o \in {"events", "lost"} : rs = Flushed(rows, o)
    <3>1. PICK o \in {"events", "lost"} : rs = Flushed(rows, o)
      BY <2>2
    <3>2. RowsFit(Flushed(rows, o), day, night, used, ErasedIds)
      BY <1>2, FlushedFits
    <3>3. rs \in Seq(Row) /\ \A i \in DOMAIN rs : rs[i].at # "buffer"
      BY <1>2, <3>1, <3>2, FlushedFits DEF RowsFit
    <3>4. rows' = [i \in DOMAIN rs |-> rs[i]]
      BY <1>1, <3>3 DEF Moved
    <3>5. rows' = rs
      BY <3>3, <3>4
    <3> QED
      BY <3>1, <3>5
  <2> QED
    BY <2>1, <2>2
<1>4. RowsFit(rows', day, night, used, ErasedIds)
  BY <1>2, <1>3, FlushedFits
<1>5. /\ Len(rows') = Len(rows) /\ Buffered(rows') = 0
      /\ WrittenOf(rows', night - 1) = WrittenOf(rows, night - 1)
  BY <1>2, <1>3, <1>4, FlushedFits
<1>6. ErasedIds' = ErasedIds
  BY <1>1 DEF ErasedIds
<1>7. BufferFits'
  BY <1>1, <1>5, BoundsAreNumbers DEF BufferFits
<1>8. Types' /\ AccountsFit' /\ NightsFit' /\ TotalsAreExact'
  BY <1>1, <1>5, TotalsStay DEF Types, AccountsFit, NightsFit
<1> QED
  BY <1>1, <1>4, <1>6, <1>7, <1>8

\* A day goes by: what had to be purged stays purged in time.
LEMMA TimePassesInv ==
    ASSUME RecordsInv, TimePasses
    PROVE  RecordsInv'
<1> USE DEF RecordsInv
<1>1. /\ day < LastDay /\ day' = day + 1
      /\ UNCHANGED <<proc, lastNightly, account, cached, used, rows, stats, report, resolvedAt, backups,
                     night, sub, sending, faults>>
  BY DEF TimePasses, people, tables
<1>2. day \in Int /\ day' \in Days /\ night \in Int
  BY <1>1, BoundsAreNumbers DEF Types, Days
<1>3. ErasedIds' = ErasedIds
  BY <1>1 DEF ErasedIds
<1>4. RowsFit(rows, day, night, used, ErasedIds)'
  BY <1>1, <1>2, <1>3, FitsLater
<1>5. BufferFits' /\ TotalsAreExact' /\ AccountsFit'
  BY <1>1 DEF BufferFits, TotalsAreExact, Written, AccountsFit
<1>6. Types' /\ NightsFit'
  BY <1>1, <1>2, BoundsAreNumbers DEF Types, NightsFit
<1> QED
  BY <1>4, <1>5, <1>6

LEMMA NextInv == RecordsInv /\ [Next]_vars => RecordsInv'
<1> SUFFICES ASSUME RecordsInv, [Next]_vars PROVE RecordsInv'
  OBVIOUS
<1> USE DEF people, tables, pushes
<1>0. Types /\ AccountsFit /\ NightsFit
  BY DEF RecordsInv
<1>1. ASSUME NEW p \in People, Track(p) \/ Subscribe(p) \/ Notified(p)
      PROVE  RecordsInv'
  BY <1>0, <1>1, AcceptInv DEF Track, Subscribe, Notified, Types, AccountsFit
<1>2. CASE TrackVisitor
  <2>1. /\ RowsFit(rows, day, night, used, ErasedIds)'
        /\ BufferFits' /\ TotalsAreExact' /\ faults' \in 0..MaxFaults
    BY <1>2, AcceptFits DEF TrackVisitor
  <2>2. Types' /\ AccountsFit' /\ NightsFit'
    BY <1>0, <1>2, <2>1 DEF TrackVisitor, Types, AccountsFit, NightsFit
  <2> QED
    BY <2>1, <2>2 DEF RecordsInv
<1>3. ASSUME NEW p \in People, CacheExpires(p) \/ Unsubscribe(p) \/ Notify(p)
      PROVE  RecordsInv'
  <2>1. UNCHANGED <<rows, day, night, used, account, stats, proc, report, resolvedAt>>
    BY <1>3 DEF CacheExpires, Unsubscribe, Notify
  <2>2. Types' /\ AccountsFit' /\ NightsFit'
    BY <1>0, <1>3, <2>1 DEF CacheExpires, Unsubscribe, Notify, Types, AccountsFit, NightsFit
  <2> QED
    BY <2>1, <2>2, RowsUntouched DEF RecordsInv
<1>4. ASSUME NEW p \in People, Register(p) \/ EraseMe(p) \/ EraseByAdmin(p)
      PROVE  RecordsInv'
  BY <1>4, RegisterInv, EraseInv
<1>5. CASE Resolve \/ Start \/ Signal \/ UNCHANGED vars
  <2>1. /\ UNCHANGED <<rows, day, night, used, account, cached, sub, stats>>
        /\ proc' = proc \/ proc' # "down"
        /\ \/ UNCHANGED <<report, resolvedAt>>
           \/ report' = "closed" /\ resolvedAt' = day
    BY <1>5 DEF Resolve, Start, Signal, StopJobs, vars
  <2>2. Types' /\ AccountsFit'
    BY <1>0, <1>5, <2>1 DEF Resolve, Start, Signal, StopJobs, vars, Types, AccountsFit
  <2>3. NightsFit'
    <3>1. day # -1
      BY <1>0, BoundsAreNumbers DEF Types, Days
    <3> QED
      BY <1>0, <2>1, <3>1 DEF NightsFit
  <2> QED
    BY <2>1, <2>2, <2>3, RowsUntouched DEF RecordsInv
<1>6. CASE SecondSignal \/ ForceExit \/ Kill
  BY <1>0, <1>6, GoneInv, FaultsAreCounted DEF SecondSignal, ForceExit, Kill
<1>7. CASE StopEnds
  <2>1. PICK o \in {"events", "lost"} : FlushOutcome(o) /\ Gone(Flushed(rows, o))
    BY <1>7 DEF StopEnds, StopEventFlusher
  <2> QED
    BY <1>0, <2>1, GoneInv, OutcomeIsCounted
<1> QED
  BY <1>1, <1>2, <1>3, <1>4, <1>5, <1>6, <1>7, FlushInv, NightlyInv, DigestInv, TimePassesInv
     DEF Next

\* The records never contradict one another: the rows fit the nights made and
\* the accounts there are, the cache and the subscriptions fit the accounts.
THEOREM RecordsAlwaysFit == Spec => []RecordsInv
  BY InitInv, NextInv, PTL DEF Spec

\* Types and limits, for any limits: the buffer never holds MaxBuffer rows and
\* is empty when the process is down.
THEOREM TypeCorrect == Spec => []TypeOK
<1>1. RecordsInv => TypeOK
  BY DEF RecordsInv, Types, RowsFit, BufferFits, TypeOK
<1> QED
  BY <1>1, RecordsAlwaysFit, PTL

\* A night's total counts every row of the day before that was ever written.
THEOREM TotalsAreAlwaysExact == Spec => []TotalsAreExact
<1>1. RecordsInv => TotalsAreExact
  BY DEF RecordsInv
<1> QED
  BY <1>1, RecordsAlwaysFit, PTL

\* Nothing is written under the id of an erased account, but what was buffered
\* at that moment, and an address without an account has no subscription.
THEOREM ErasedAlwaysForgotten == Spec => []ErasedStayForgotten
<1>1. RecordsInv => ErasedStayForgotten
  BY DEF RecordsInv, RowsFit, RowFits, AccountsFit, ErasedStayForgotten
<1> QED
  BY <1>1, RecordsAlwaysFit, PTL

\* Rows and closed reports go when they are old enough, and none stays longer than
\* until the next night that makes its purge; open reports stay.
THEOREM RetentionAlwaysMet == Spec => []RetentionIsMet
<1>1. RecordsInv => RetentionIsMet
  BY DEF RecordsInv, RowsFit, RowFits, NightsFit, RetentionIsMet
<1> QED
  BY <1>1, RecordsAlwaysFit, PTL
================================================================================
