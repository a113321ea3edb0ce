----------------------------- MODULE AccountsProofs ----------------------------
(***************************************************************************)
(* Proofs about what outlives a chat: friendships, and what two friends    *)
(* see of each other (Friends), and reports and suspensions (Moderation).  *)
(*                                                                         *)
(* The cache of friendships is exact, and a settled tab shows the friends  *)
(* and the dots it should, for any tabs.  Who is suspended is out, who was *)
(* reported does not meet the reporter while both keep the account, and    *)
(* reports keep suspensions, for any numbers of accounts, devices, hours.  *)
(***************************************************************************)
EXTENDS Friends, Moderation, TLAPS

-----------------------------------------------------------------------------
(* The pair, and sequences.                                                *)

LEMMA Pairs ==
    ASSUME NEW u \in Users
    PROVE  /\ Partner[u] \in Users /\ Partner[u] # u
           /\ Users = {u, Partner[u]} /\ Partner[Partner[u]] = u
<1>1. ASSUME NEW x \in Users
      PROVE  Partner[x] \in Users /\ Partner[x] # x /\ Users = {x, Partner[x]}
  <2>1. PICK p \in Users : Users = {x, p} /\ p # x
    BY LimitsAssumption DEF Limits
  <2>2. Partner[x] = CHOOSE y \in Users : y # x
    BY DEF Partner
  <2>3. Partner[x] \in Users /\ Partner[x] # x
    BY <2>1, <2>2
  <2>4. QED
    BY <2>1, <2>3
<1>2. Partner[u] \in Users /\ Partner[Partner[u]] \in Users /\ Partner[Partner[u]] # Partner[u]
  BY <1>1
<1>3. QED
  BY <1>1, <1>2

\* The last presence event of a sequence, or the dot before it, says b.
Says(ev) == ev \in {"online", "helloOn"}
Ends(evs, d, b) ==
    \/ /\ \A i \in DOMAIN evs : evs[i] = "changed"
       /\ d = "on" <=> b
    \/ \E j \in DOMAIN evs :
          /\ evs[j] # "changed"
          /\ \A i \in DOMAIN evs : i > j => evs[i] = "changed"
          /\ Says(evs[j]) <=> b

LEMMA Added ==
    ASSUME NEW S, NEW s \in Seq(S), NEW e \in S
    PROVE  /\ s \o <<e>> \in Seq(S)
           /\ DOMAIN s = 1..Len(s) /\ Len(s) \in Nat
           /\ DOMAIN (s \o <<e>>) = 1..(Len(s) + 1)
           /\ \A i \in DOMAIN s : i \in DOMAIN (s \o <<e>>) /\ (s \o <<e>>)[i] = s[i]
           /\ (s \o <<e>>)[Len(s) + 1] = e
           /\ Append(s, e) = s \o <<e>>
           /\ s \o <<>> = s
OBVIOUS

LEMMA Shortened ==
    ASSUME NEW S, NEW s \in Seq(S), s # <<>>
    PROVE  /\ Tail(s) \in Seq(S) /\ Head(s) \in S /\ Head(s) = s[1]
           /\ Len(s) \in Nat /\ 1 \in DOMAIN s /\ DOMAIN s = 1..Len(s)
           /\ DOMAIN Tail(s) = 1..(Len(s) - 1)
           /\ \A i \in 1..(Len(s) - 1) : i + 1 \in DOMAIN s /\ Tail(s)[i] = s[i + 1]
OBVIOUS

LEMMA Without ==
    ASSUME NEW S, NEW s \in Seq(S), NEW i \in DOMAIN s
    PROVE  /\ RemoveAt(s, i) \in Seq(S)
           /\ \A j \in DOMAIN s : j # i => \E m \in DOMAIN RemoveAt(s, i) : RemoveAt(s, i)[m] = s[j]
           /\ \A m \in DOMAIN RemoveAt(s, i) : \E j \in DOMAIN s : j # i /\ RemoveAt(s, i)[m] = s[j]
<1>1. Len(s) \in Nat /\ DOMAIN s = 1..Len(s) /\ i \in 1..Len(s)
  OBVIOUS
<1>2. PICK a, b : a = SubSeq(s, 1, i - 1) /\ b = SubSeq(s, i + 1, Len(s))
  OBVIOUS
<1>3. /\ a \in Seq(S) /\ Len(a) = i - 1
      /\ \A j \in 1..(i - 1) : a[j] = s[j]
  BY <1>1, <1>2
<1>4. /\ b \in Seq(S) /\ Len(b) = Len(s) - i
      /\ \A j \in 1..(Len(s) - i) : b[j] = s[i + j]
  BY <1>1, <1>2
<1>5. PICK r : r = RemoveAt(s, i)
  OBVIOUS
<1>6. /\ r \in Seq(S) /\ Len(r) = Len(s) - 1 /\ DOMAIN r = 1..(Len(s) - 1)
      /\ \A j \in 1..(i - 1) : r[j] = s[j]
      /\ \A j \in i..(Len(s) - 1) : r[j] = s[j + 1]
  <2>1. r = a \o b
    BY <1>2, <1>5 DEF RemoveAt
  <2>2. r \in Seq(S) /\ Len(r) = Len(a) + Len(b) /\ DOMAIN r = 1..Len(r)
    BY <2>1, <1>3, <1>4
  <2>3. ASSUME NEW j \in 1..(i - 1) PROVE r[j] = s[j]
    BY <1>1, <2>1, <1>3, <1>4
  <2>4. ASSUME NEW j \in i..(Len(s) - 1) PROVE r[j] = s[j + 1]
    <3>1. j - (i - 1) \in 1..(Len(s) - i) /\ r[j] = b[j - (i - 1)]
      BY <1>1, <2>1, <1>3, <1>4
    <3>2. QED
      BY <1>1, <3>1, <1>4
  <2>5. QED
    BY <1>1, <1>3, <1>4, <2>2, <2>3, <2>4
<1>7. ASSUME NEW j \in DOMAIN s, j # i PROVE \E m \in DOMAIN r : r[m] = s[j]
  <2>1. CASE j < i
    BY <1>1, <1>6, <2>1
  <2>2. CASE j > i
    <3>1. j - 1 \in i..(Len(s) - 1) /\ j - 1 \in DOMAIN r /\ (j - 1) + 1 = j
      BY <1>1, <1>6, <2>2
    <3>2. QED
      BY <3>1, <1>6
  <2>3. QED
    BY <1>1, <1>7, <2>1, <2>2
<1>8. ASSUME NEW m \in DOMAIN r PROVE \E j \in DOMAIN s : j # i /\ r[m] = s[j]
  <2>1. CASE m < i
    BY <1>1, <1>6, <2>1
  <2>2. CASE m >= i
    <3>1. m \in i..(Len(s) - 1) /\ m + 1 \in DOMAIN s /\ m + 1 # i
      BY <1>1, <1>6, <2>2
    <3>2. QED
      BY <3>1, <1>6
  <2>3. QED
    BY <1>1, <1>6, <2>1, <2>2
<1>9. QED
  BY <1>5, <1>6, <1>7, <1>8

LEMMA NothingMore ==
    ASSUME NEW s \in Seq(Event), NEW d, NEW b, Ends(s, d, b)
    PROVE  Ends(s \o <<>>, d, b)
OBVIOUS

LEMMA ChangedMore ==
    ASSUME NEW s \in Seq(Event), NEW d, NEW b \in BOOLEAN, Ends(s, d, b)
    PROVE  Ends(s \o <<"changed">>, d, b)
<1>1. PICK r : r = s \o <<"changed">>
  OBVIOUS
<1>2. /\ DOMAIN s = 1..Len(s) /\ Len(s) \in Nat
      /\ DOMAIN r = 1..(Len(s) + 1)
      /\ \A i \in DOMAIN s : i \in DOMAIN r /\ r[i] = s[i]
      /\ r[Len(s) + 1] = "changed"
  BY <1>1, Added DEF Event
<1>3. CASE (\A i \in DOMAIN s : s[i] = "changed") /\ (d = "on" <=> b)
  BY <1>1, <1>2, <1>3 DEF Ends
<1>4. CASE \E j \in DOMAIN s : /\ s[j] # "changed"
                               /\ \A i \in DOMAIN s : i > j => s[i] = "changed"
                               /\ Says(s[j]) <=> b
  <2>1. PICK j \in DOMAIN s : /\ s[j] # "changed"
                              /\ \A i \in DOMAIN s : i > j => s[i] = "changed"
                              /\ Says(s[j]) <=> b
    BY <1>4
  <2>2. j \in DOMAIN r /\ r[j] = s[j] /\ \A i \in DOMAIN r : i > j => r[i] = "changed"
    BY <1>2, <2>1
  <2>3. QED
    BY <1>1, <2>1, <2>2 DEF Ends
<1>5. QED
  BY <1>3, <1>4 DEF Ends

LEMMA NewsLast ==
    ASSUME NEW s \in Seq(Event), NEW d, NEW e \in Event, e # "changed",
           NEW b \in BOOLEAN, Says(e) <=> b
    PROVE  Ends(s \o <<e>>, d, b)
<1>1. PICK r : r = s \o <<e>>
  OBVIOUS
<1>2. /\ Len(s) \in Nat /\ DOMAIN r = 1..(Len(s) + 1) /\ r[Len(s) + 1] = e
  BY <1>1, Added
<1>3. Len(s) + 1 \in DOMAIN r /\ \A i \in DOMAIN r : ~(i > Len(s) + 1)
  BY <1>2
<1>4. QED
  BY <1>1, <1>2, <1>3 DEF Ends

LEMMA FirstHeard ==
    ASSUME NEW s \in Seq(Event), s # <<>>, NEW d, NEW b \in BOOLEAN, Ends(s, d, b), NEW n,
           n = IF Head(s) = "changed" THEN d ELSE IF Says(Head(s)) THEN "on" ELSE "off"
    PROVE  Ends(Tail(s), n, b)
<1>1. PICK r : r = Tail(s)
  OBVIOUS
<1>2. /\ Head(s) = s[1] /\ Len(s) \in Nat /\ 1 \in DOMAIN s /\ DOMAIN s = 1..Len(s)
      /\ DOMAIN r = 1..(Len(s) - 1)
      /\ \A i \in DOMAIN r : i + 1 \in DOMAIN s /\ r[i] = s[i + 1]
  BY <1>1, Shortened
<1>3. CASE \A i \in DOMAIN s : s[i] = "changed"
  <2>1. s[1] = "changed" /\ \A i \in DOMAIN r : r[i] = "changed"
    BY <1>2, <1>3
  <2>2. d = "on" <=> b
    BY <1>3 DEF Ends
  <2>3. QED
    BY <1>1, <1>2, <2>1, <2>2 DEF Ends
<1>4. CASE ~\A i \in DOMAIN s : s[i] = "changed"
  <2>1. PICK j \in DOMAIN s : /\ s[j] # "changed"
                              /\ \A i \in DOMAIN s : i > j => s[i] = "changed"
                              /\ Says(s[j]) <=> b
    BY <1>4 DEF Ends
  <2>2. CASE j = 1
    <3>1. \A i \in DOMAIN r : r[i] = "changed"
      BY <1>2, <2>1, <2>2
    <3>2. n = "on" <=> b
      BY <1>2, <2>1, <2>2
    <3>3. QED
      BY <1>1, <3>1, <3>2 DEF Ends
  <2>3. CASE j # 1
    <3>1. j - 1 \in DOMAIN r /\ r[j - 1] = s[j]
      BY <1>2, <2>3
    <3>2. ASSUME NEW i \in DOMAIN r, i > j - 1 PROVE r[i] = "changed"
      BY <1>2, <2>1, <3>2
    <3>3. QED
      BY <1>1, <2>1, <3>1, <3>2 DEF Ends
  <2>4. QED
    BY <2>2, <2>3
<1>5. QED
  BY <1>3, <1>4

-----------------------------------------------------------------------------
(* Type correctness, and that the cache is exact.                          *)

\* The rows stand for both or for neither; who is gone is signed out; nothing
\* is on its way to a tab without a connection; what is on its way to a tab,
\* or shown in it, is not from the future.
RowsFit ==
    /\ friends \in {{}, Users}
    /\ \A u \in Users : name[u] <= changes
TabsFit ==
    \A t \in Tabs :
       /\ UserOf[t] \in gone => sock[t] = "out"
       /\ sock[t] # "up" => down[t] = <<>>
       /\ seen[t] <= changes
       /\ \A i \in DOMAIN flights[t] :
             \/ flights[t][i] = Asked
             \/ flights[t][i].shows \in Shown /\ flights[t][i].asOf <= changes

FriendsFit == FriendsInv /\ RowsFit /\ TabsFit

LEMMA Shows ==
    ASSUME TypeOK
    PROVE  /\ \A u \in Users : FriendsOf(u) \in Shown
           /\ Shown \subseteq Nat \cup {Hidden} /\ Unknown \notin Shown /\ Hidden \in Shown
           /\ Asked \in Flight /\ Asked.shows = Unknown
           /\ 0 \in 0..MaxActs /\ MaxActs \in Nat
<1>1. /\ Shown \subseteq Nat \cup {Hidden} /\ Unknown \notin Shown /\ Hidden \in Shown
      /\ 0 \in 0..MaxActs /\ MaxActs \in Nat
  BY LimitsAssumption DEF Limits, Shown
<1>2. ASSUME NEW u \in Users PROVE FriendsOf(u) \in Shown
  <2>1. Partner[u] \in Users
    BY Pairs
  <2>2. QED
    BY <1>1, <2>1 DEF FriendsOf, FriendView, Shown, TypeOK
<1>3. Asked \in Flight /\ Asked.shows = Unknown
  BY <1>1 DEF Asked, Flight
<1>4. QED
  BY <1>1, <1>2, <1>3

LEMMA Counted ==
    ASSUME TypeOK
    PROVE  /\ \A told : Change(told) =>
                 /\ changes' \in 0..MaxActs /\ changes' = changes + 1
                 /\ faults' = faults /\ seen' = seen
                 /\ astray' = astray \cup {t \in Tabs : sock[t] # "up" \/ t \notin told}
           /\ Fault => faults' \in 0..MaxActs
           /\ changes \in Nat /\ faults \in Nat /\ changes < changes + 1
BY LimitsAssumption DEF Change, Fault, TypeOK, Limits

LEMMA Emitted ==
    ASSUME TypeOK, NEW what \in [Users -> Seq(Event)], EmitToUser(what)
    PROVE  /\ down' \in [Tabs -> Seq(Event)]
           /\ \A t \in Tabs : /\ sock[t] = "up" => down'[t] = down[t] \o what[UserOf[t]]
                              /\ sock[t] # "up" => down'[t] = down[t]
BY LimitsAssumption DEF EmitToUser, TypeOK, Limits

LEMMA Messages ==
    /\ Silence \in [Users -> Seq(Event)]
    /\ \A u \in Users, ev \in Event : To(u, ev) \in [Users -> Seq(Event)]
    /\ \A u \in Users : /\ FriendsChanged(u) \in [Users -> Seq(Event)]
                        /\ FriendsChanged(u)[u] = <<"changed">>
                        /\ \A x \in Users : x # u => FriendsChanged(u)[x] = <<>>
    /\ \A u \in Users : Silence[u] = <<>>
    /\ \A u, x \in Users, ev \in Event : To(u, ev)[x] = IF x = u THEN <<ev>> ELSE <<>>
<1>1. Silence \in [Users -> Seq(Event)] /\ \A u \in Users : Silence[u] = <<>>
  BY DEF Silence
<1>2. ASSUME NEW u \in Users, NEW ev \in Event
      PROVE  /\ To(u, ev) \in [Users -> Seq(Event)]
             /\ \A x \in Users : To(u, ev)[x] = IF x = u THEN <<ev>> ELSE <<>>
  <2>1. PICK one \in Seq(Event) : one = <<ev>>
    <3>1. <<ev>> \in Seq(Event)
      OBVIOUS
    <3>2. QED
      BY <3>1
  <2>2. To(u, ev) = [Silence EXCEPT ![u] = one]
    BY <2>1 DEF To
  <2>3. QED
    BY <1>1, <2>1, <2>2
<1>3. ASSUME NEW u \in Users
      PROVE  /\ FriendsChanged(u) \in [Users -> Seq(Event)]
             /\ FriendsChanged(u)[u] = <<"changed">>
             /\ \A x \in Users : x # u => FriendsChanged(u)[x] = <<>>
  <2>1. "changed" \in Event
    BY DEF Event
  <2>2. QED
    BY <1>2, <2>1 DEF FriendsChanged
<1>4. QED
  BY <1>1, <1>2, <1>3

LEMMA Exact ==
    ASSUME FriendsInv, NEW u \in Users
    PROVE  /\ Row(u) \in {"yes", "no"} /\ FriendEmails(u) \in {"yes", "no"}
           /\ Partner[u] \notin gone => FriendEmails(u) = Row(u)
           /\ Cached(u) \in [Users -> {"none", "yes", "no"}]
           /\ \A x \in Users : /\ x # u => Cached(u)[x] = cache[x]
                               /\ Partner[u] \notin gone => Cached(u)[u] = Row(u)
BY DEF Row, FriendEmails, Cached, FriendsInv, TypeOK, CacheIsExact

-----------------------------------------------------------------------------
LEMMA Dated ==
    ASSUME TypeOK, NEW t \in Tabs, NEW i \in DOMAIN flights[t]
    PROVE  flights[t][i] \in Flight /\ flights[t][i].asOf \in Nat
<1>1. flights[t][i] \in Flight
  BY DEF TypeOK
<1>2. QED
  BY <1>1 DEF Flight

LEMMA PresenceAddFits ==
    ASSUME FriendsFit, NEW t \in Tabs, PresenceAdd(t) PROVE FriendsFit'
<1> USE DEF FriendsFit, FriendsInv
<1>1. UserOf[t] \in Users /\ UserOf \in [Tabs -> Users]
  BY LimitsAssumption DEF Limits
<1>2. PICK u \in Users, p \in Users : u = UserOf[t] /\ p = Partner[u]
  BY <1>1, Pairs
<1>3. PICK news \in Seq(Event), hello \in Event :
        /\ down' = [x \in Tabs |->
                      IF x = t THEN <<hello>>
                      ELSE IF UserOf[x] # u /\ sock[x] = "up" THEN down[x] \o news
                      ELSE down[x]]
  <2>1. PICK news \in Seq(Event) :
            news = IF ~Online(u) /\ FriendEmails(u) = "yes" THEN <<"online">> ELSE <<>>
    <3>1. "online" \in Event
      BY DEF Event
    <3>2. <<>> \in Seq(Event) /\ <<"online">> \in Seq(Event)
      BY <3>1
    <3>3. QED
      BY <3>2
  <2>2. PICK hello \in Event :
            hello = IF FriendEmails(u) = "yes" /\ Online(Partner[u]) THEN "helloOn" ELSE "helloOff"
    BY DEF Event
  <2>3. QED
    BY <1>2, <2>1, <2>2 DEF PresenceAdd
<1>4. down' \in [Tabs -> Seq(Event)]
  BY <1>1, <1>3 DEF TypeOK
<1>5. cache' = Cached(u) /\ cache' \in [Users -> {"none", "yes", "no"}]
  BY <1>2, Exact DEF PresenceAdd
<1>6. /\ sock' \in [Tabs -> {"boot", "down", "up", "out"}]
      /\ absent' \subseteq Users
      /\ UNCHANGED <<friends, blocked, name, gone, chat, ghosts, flights, list, dot, seen, astray, changes, faults>>
  BY DEF PresenceAdd, table, TypeOK
<1>7. TypeOK'
  BY <1>4, <1>5, <1>6 DEF TypeOK, Shown
<1>8. CacheIsExact'
  BY <1>2, <1>5, <1>6, Exact DEF CacheIsExact, Row
<1>9. RowsFit'
  BY <1>6 DEF RowsFit
<1>10. TabsFit'
  BY <1>3, <1>6 DEF TabsFit, PresenceAdd, TypeOK
<1>11. QED
  BY <1>7, <1>8, <1>9, <1>10

LEMMA BreakFits ==
    ASSUME FriendsFit, NEW t \in Tabs, Break(t) PROVE FriendsFit'
<1> USE DEF FriendsFit, FriendsInv
<1>1. /\ sock' = [sock EXCEPT ![t] = "down"] /\ down' = [down EXCEPT ![t] = <<>>]
      /\ ghosts' = ghosts \cup {t}
      /\ astray' = astray \/ astray' = astray \cup {t}
      /\ faults' \in 0..MaxActs
      /\ UNCHANGED <<friends, blocked, name, gone, cache, chat, flights, list, dot, seen, absent, changes>>
  BY Counted DEF Break, table
<1>2. TypeOK'
  BY <1>1 DEF TypeOK, Shown
<1>3. CacheIsExact' /\ RowsFit'
  BY <1>1 DEF CacheIsExact, RowsFit, Row
<1>4. TabsFit'
  BY <1>1 DEF TabsFit, TypeOK, Break
<1>5. QED
  BY <1>2, <1>3, <1>4

LEMMA PresenceRemoveFits ==
    ASSUME FriendsFit, NEW t \in Tabs, PresenceRemove(t) PROVE FriendsFit'
<1> USE DEF FriendsFit, FriendsInv
<1>1. PICK last \in BOOLEAN : Removed(t, last)
  BY DEF PresenceRemove
<1>2. PICK u \in Users, p \in Users : u = UserOf[t] /\ p = Partner[u]
  BY Pairs, LimitsAssumption DEF Limits
<1>3. PICK what \in [Users -> Seq(Event)] : EmitToUser(what)
  <2>1. "offline" \in Event
    BY DEF Event
  <2>2. QED
    BY <1>1, <1>2, <2>1, Messages DEF Removed
<1>4. /\ down' \in [Tabs -> Seq(Event)]
      /\ \A x \in Tabs : sock[x] # "up" => down'[x] = down[x]
  BY <1>3, Emitted
<1>5. cache' = cache \/ cache' = Cached(u)
  BY <1>1, <1>2 DEF Removed
<1>6. /\ ghosts' = ghosts \ {t}
      /\ UNCHANGED <<friends, blocked, name, gone, chat, sock, flights, list, dot, seen, astray, absent, changes, faults>>
  BY <1>1 DEF Removed, table, history
<1>7. cache' \in [Users -> {"none", "yes", "no"}]
  BY <1>5, Exact DEF TypeOK
<1>8. TypeOK'
  BY <1>4, <1>6, <1>7 DEF TypeOK, Shown
<1>9. CacheIsExact' /\ RowsFit'
  <2>1. RowsFit'
    BY <1>6 DEF RowsFit
  <2>2. CASE cache' = cache
    BY <1>6, <2>1, <2>2 DEF CacheIsExact, Row
  <2>3. CASE cache' = Cached(u)
    <3>1. /\ Partner[u] \notin gone => Cached(u)[u] = Row(u)
          /\ \A x \in Users : x # u => Cached(u)[x] = cache[x]
      BY <1>2, Exact
    <3>2. CacheIsExact'
      BY <1>6, <2>3, <3>1 DEF CacheIsExact, Row
    <3>3. QED
      BY <2>1, <3>2
  <2>4. QED
    BY <1>5, <2>2, <2>3
<1>10. TabsFit'
  BY <1>4, <1>6 DEF TabsFit
<1>11. QED
  BY <1>8, <1>9, <1>10

LEMMA RestartFits ==
    ASSUME FriendsFit, Restart PROVE FriendsFit'
<1> USE DEF FriendsFit, FriendsInv
<1>1. /\ sock' = [t \in Tabs |-> IF sock[t] = "up" THEN "down" ELSE sock[t]]
      /\ down' = [t \in Tabs |-> <<>>]
      /\ cache' = [u \in Users |-> "none"]
      /\ ghosts' = {} /\ chat' = "no" /\ faults' \in 0..MaxActs
      /\ astray' = astray \cup {t \in Tabs : Contains(down[t], "changed")}
      /\ UNCHANGED <<friends, blocked, name, gone, flights, list, dot, seen, absent, changes>>
  BY Counted DEF Restart, table
<1>2. down' \in [Tabs -> Seq(Event)] /\ astray' \subseteq Tabs
  BY <1>1 DEF TypeOK
<1>3. TypeOK'
  BY <1>1, <1>2 DEF TypeOK, Shown
<1>4. CacheIsExact' /\ RowsFit'
  BY <1>1 DEF CacheIsExact, RowsFit, Row
<1>5. TabsFit'
  BY <1>1 DEF TabsFit, TypeOK
<1>6. QED
  BY <1>3, <1>4, <1>5

LEMMA QuietStepsFit ==
    ASSUME FriendsFit, Meet \/ \E u \in Users : Expire(u) \/ RevealOfDeleted(u)
    PROVE  FriendsFit'
<1> USE DEF FriendsFit, FriendsInv
<1>1. /\ chat' \in {"no", "open"} /\ faults' \in 0..MaxActs
      /\ UNCHANGED <<blocked, name, gone, sock, ghosts, down, flights, list, dot, seen, astray, absent, changes>>
  BY Counted DEF Meet, Expire, RevealOfDeleted, AddFriendship, table, history, TypeOK
<1>2. /\ friends' \in {{}, Users} /\ cache' \in [Users -> {"none", "yes", "no"}]
      /\ \A u \in Users : cache'[u] = "none" \/ (friends' = friends /\ cache'[u] = cache[u])
  BY DEF Meet, Expire, RevealOfDeleted, AddFriendship, table, history, TypeOK, RowsFit
<1>3. TypeOK'
  BY <1>1, <1>2 DEF TypeOK, Shown
<1>4. CacheIsExact' /\ RowsFit'
  BY <1>1, <1>2 DEF CacheIsExact, RowsFit, Row
<1>5. TabsFit'
  BY <1>1 DEF TabsFit
<1>6. QED
  BY <1>3, <1>4, <1>5

\* A change of the rows, with both caches dropped and somebody told.
LEMMA RowsChangeFits ==
    ASSUME FriendsFit, NEW told, NEW what \in [Users -> Seq(Event)],
           Change(told), EmitToUser(what) \/ down' = down,
           friends' \in {{}, Users}, cache' = [u \in Users |-> "none"],
           blocked' \in {"yes", "no"}, chat' \in {"no", "open"}, absent' \subseteq Users,
           flights' \in [Tabs -> Seq(Flight)],
           \A t \in Tabs : \A i \in DOMAIN flights'[t] :
              \/ flights'[t][i] = Asked
              \/ flights'[t][i].shows \in Shown /\ flights'[t][i].asOf <= changes',
           UNCHANGED <<name, gone, sock, ghosts, list, dot>>
    PROVE  FriendsFit'
<1> USE DEF FriendsFit, FriendsInv
<1>1. /\ down' \in [Tabs -> Seq(Event)]
      /\ \A x \in Tabs : sock[x] # "up" => down'[x] = down[x]
  BY Emitted DEF TypeOK
<1>2. /\ changes' \in 0..MaxActs /\ changes' = changes + 1
      /\ faults' = faults /\ seen' = seen /\ astray' \subseteq Tabs /\ changes \in Nat
  BY Counted DEF TypeOK
<1>3. TypeOK'
  BY <1>1, <1>2 DEF TypeOK, Shown, RowsFit
<1>4. CacheIsExact'
  BY DEF CacheIsExact
<1>5. RowsFit'
  <2>1. \A u \in Users : name[u] \in Nat
    BY LimitsAssumption DEF TypeOK, Limits
  <2>2. QED
    BY <1>2, <2>1 DEF RowsFit
<1>6. TabsFit'
  <2>1. SUFFICES ASSUME NEW t \in Tabs
                 PROVE  /\ UserOf[t] \in gone => sock[t] = "out"
                        /\ sock[t] # "up" => down'[t] = <<>>
                        /\ seen[t] <= changes'
    <3>1. UNCHANGED <<gone, sock, seen>>
      BY <1>2
    <3>2. QED
      BY <2>1, <3>1 DEF TabsFit
  <2>2. seen[t] \in Nat /\ seen[t] <= changes
    BY LimitsAssumption DEF TypeOK, Limits, TabsFit
  <2>3. seen[t] <= changes'
    <3>1. changes' \in Nat /\ changes <= changes' /\ changes \in Nat
      BY <1>2, LimitsAssumption DEF Limits
    <3>2. QED
      BY <2>2, <3>1
  <2>4. QED
    BY <1>1, <2>3 DEF TabsFit
<1>7. QED
  BY <1>3, <1>4, <1>5, <1>6

\* What was asked for or answered before a change is not from the future.
LEMMA FlightsAge ==
    ASSUME FriendsFit, changes' = changes + 1, flights' = flights
    PROVE  \A t \in Tabs : \A i \in DOMAIN flights'[t] :
              \/ flights'[t][i] = Asked
              \/ flights'[t][i].shows \in Shown /\ flights'[t][i].asOf <= changes'
<1>1. SUFFICES ASSUME NEW t \in Tabs, NEW i \in DOMAIN flights[t], flights[t][i] # Asked
               PROVE  flights[t][i].shows \in Shown /\ flights[t][i].asOf <= changes + 1
  OBVIOUS
<1>2. flights[t][i].shows \in Shown /\ flights[t][i].asOf <= changes
  BY <1>1 DEF FriendsFit, TabsFit
<1>3. flights[t][i].asOf \in Nat /\ changes \in Nat
  BY Dated, Counted DEF FriendsFit, FriendsInv
<1>4. QED
  BY <1>2, <1>3

-----------------------------------------------------------------------------
LEMMA ChatStepsFit ==
    ASSUME FriendsFit, NEW u \in Users, Reveal(u) \/ BlockInChat(u) \/ Report(u)
    PROVE  FriendsFit'
<1>1. Partner[u] \in Users
  BY Pairs
<1>2. PICK told : Change(told)
  BY DEF Reveal, BlockInChat, Report
<1>3. changes' = changes + 1
  BY <1>2, Counted DEF FriendsFit, FriendsInv
<1>4. PICK what \in [Users -> Seq(Event)] : EmitToUser(what) \/ down' = down
  <2>1. CASE Reveal(u)
    <3>1. PICK what : what = [x \in Users |-> IF Online(Partner[x]) THEN <<"changed", "online">> ELSE <<"changed">>]
      OBVIOUS
    <3>2. <<"changed", "online">> \in Seq(Event) /\ <<"changed">> \in Seq(Event)
      BY DEF Event
    <3>3. what \in [Users -> Seq(Event)]
      BY <3>1, <3>2
    <3>4. EmitToUser(what)
      BY <2>1, <3>1 DEF Reveal
    <3>5. QED
      BY <3>3, <3>4
  <2>2. CASE BlockInChat(u)
    BY <1>1, <2>2, Messages DEF BlockInChat
  <2>3. CASE Report(u)
    BY <2>3, Messages DEF Report
  <2>4. QED
    BY <2>1, <2>2, <2>3
<1>5. /\ friends' \in {{}, Users} /\ cache' = [x \in Users |-> "none"]
      /\ blocked' \in {"yes", "no"} /\ chat' \in {"no", "open"} /\ absent' \subseteq Users
      /\ UNCHANGED <<name, gone, sock, ghosts, flights, list, dot>>
  BY DEF Reveal, BlockInChat, Report, AddFriendship, RemoveFriendship, FriendsFit, FriendsInv, TypeOK
<1>6. flights' \in [Tabs -> Seq(Flight)]
  BY <1>5 DEF FriendsFit, FriendsInv, TypeOK
<1>7. QED
  BY <1>2, <1>3, <1>4, <1>5, <1>6, FlightsAge, RowsChangeFits

\* The requests of a tab with one more, or with one of them other than it was.
LEMMA OneMore ==
    ASSUME FriendsFit, NEW t \in Tabs, NEW f \in Flight,
           flights' = [flights EXCEPT ![t] = Append(@, f)]
    PROVE  /\ flights' \in [Tabs -> Seq(Flight)]
           /\ \A x \in Tabs : x # t => flights'[x] = flights[x]
           /\ \A i \in DOMAIN flights[t] : i \in DOMAIN flights'[t] /\ flights'[t][i] = flights[t][i]
           /\ \E n \in DOMAIN flights'[t] : flights'[t][n] = f
           /\ \A i \in DOMAIN flights'[t] : i \in DOMAIN flights[t] \/ flights'[t][i] = f
<1>1. PICK s \in Seq(Flight) : s = flights[t]
  BY DEF FriendsFit, FriendsInv, TypeOK
<1>2. flights'[t] = s \o <<f>> /\ \A x \in Tabs : x # t => flights'[x] = flights[x]
  BY <1>1, Added DEF FriendsFit, FriendsInv, TypeOK
<1>3. /\ s \o <<f>> \in Seq(Flight) /\ DOMAIN s = 1..Len(s) /\ Len(s) \in Nat
      /\ DOMAIN (s \o <<f>>) = 1..(Len(s) + 1)
      /\ \A i \in DOMAIN s : i \in DOMAIN (s \o <<f>>) /\ (s \o <<f>>)[i] = s[i]
      /\ (s \o <<f>>)[Len(s) + 1] = f
  BY Added
<1>4. PICK r \in Seq(Flight) : r = s \o <<f>>
  BY <1>3
<1>5. \E n \in DOMAIN r : r[n] = f
  BY <1>3, <1>4
<1>6. \A i \in DOMAIN r : i \in DOMAIN s \/ r[i] = f
  BY <1>3, <1>4
<1>7. flights' \in [Tabs -> Seq(Flight)]
  BY <1>2, <1>4 DEF FriendsFit, FriendsInv, TypeOK
<1>8. QED
  BY <1>1, <1>2, <1>3, <1>4, <1>5, <1>6, <1>7

LEMMA EndFriendshipFits ==
    ASSUME FriendsFit, NEW t \in Tabs, NEW hard \in BOOLEAN, EndFriendship(t, hard)
    PROVE  FriendsFit'
<1>1. PICK u \in Users : u = UserOf[t] /\ Partner[u] \in Users
  BY Pairs, LimitsAssumption DEF Limits
<1>2. PICK told : Change(told)
  BY DEF EndFriendship
<1>3. changes' = changes + 1 /\ changes' \in 0..MaxActs /\ changes \in Nat
  BY <1>2, Counted DEF FriendsFit, FriendsInv
<1>4. PICK what \in [Users -> Seq(Event)] : EmitToUser(what)
  BY <1>1, Messages DEF EndFriendship
<1>5. PICK f \in Flight : f = [shows |-> Hidden, asOf |-> changes']
  <2>1. Hidden \in Shown
    BY Shows DEF FriendsFit, FriendsInv
  <2>2. QED
    BY <1>3, <2>1 DEF Flight
<1>6. flights' = [flights EXCEPT ![t] = Append(@, f)]
  BY <1>5 DEF EndFriendship
<1>7. /\ flights' \in [Tabs -> Seq(Flight)]
      /\ \A x \in Tabs : x # t => flights'[x] = flights[x]
      /\ \A i \in DOMAIN flights[t] : i \in DOMAIN flights'[t] /\ flights'[t][i] = flights[t][i]
      /\ \A i \in DOMAIN flights'[t] : i \in DOMAIN flights[t] \/ flights'[t][i] = f
  BY <1>6, OneMore
<1>8. ASSUME NEW x \in Tabs, NEW i \in DOMAIN flights'[x]
      PROVE  \/ flights'[x][i] = Asked
             \/ flights'[x][i].shows \in Shown /\ flights'[x][i].asOf <= changes'
  <2>1. CASE flights'[x][i] = f
    <3>1. Hidden \in Shown
      BY Shows DEF FriendsFit, FriendsInv
    <3>2. QED
      BY <1>3, <1>5, <2>1, <3>1
  <2>2. CASE i \in DOMAIN flights[x] /\ flights'[x][i] = flights[x][i]
    <3>1. CASE flights[x][i] = Asked
      BY <2>2, <3>1
    <3>2. CASE flights[x][i] # Asked
      <4>1. flights[x][i].shows \in Shown /\ flights[x][i].asOf <= changes
        BY <2>2, <3>2 DEF FriendsFit, TabsFit
      <4>2. flights[x][i].asOf \in Nat
        BY <2>2, Dated DEF FriendsFit, FriendsInv
      <4>3. flights[x][i].asOf <= changes + 1
        BY <1>3, <4>1, <4>2
      <4>4. QED
        BY <1>3, <2>2, <4>1, <4>3
    <3>3. QED
      BY <3>1, <3>2
  <2>3. QED
    BY <1>7, <1>8, <2>1, <2>2
<1>9. /\ friends' \in {{}, Users} /\ cache' = [x \in Users |-> "none"]
      /\ blocked' \in {"yes", "no"} /\ chat' \in {"no", "open"} /\ absent' \subseteq Users
      /\ UNCHANGED <<name, gone, sock, ghosts, list, dot>>
  BY DEF EndFriendship, RemoveFriendship, FriendsFit, FriendsInv, TypeOK
<1>10. QED
  BY <1>2, <1>4, <1>7, <1>8, <1>9, RowsChangeFits

LEMMA RenameFits ==
    ASSUME FriendsFit, NEW u \in Users, Rename(u) PROVE FriendsFit'
<1> USE DEF FriendsFit, FriendsInv
<1>1. /\ changes' \in 0..MaxActs /\ changes' = changes + 1 /\ changes \in Nat
      /\ faults' = faults /\ seen' = seen /\ astray' \subseteq Tabs
  BY Counted DEF Rename, TypeOK
<1>2. /\ cache' = [cache EXCEPT ![u] = "none"]
      /\ name' = [name EXCEPT ![u] = @ + 1]
      /\ UNCHANGED <<friends, blocked, gone, chat, sock, ghosts, flights, list, dot, absent>>
  BY DEF Rename, Invalidated
<1>3. PICK what \in [Users -> Seq(Event)] : EmitToUser(what)
  <2>1. Partner[u] \in Users
    BY Pairs
  <2>2. QED
    BY <2>1, Messages DEF Rename
<1>4. /\ down' \in [Tabs -> Seq(Event)]
      /\ \A x \in Tabs : sock[x] # "up" => down'[x] = down[x]
  BY <1>3, Emitted
<1>5. ASSUME NEW x \in Users PROVE name'[x] \in 0..MaxActs /\ name'[x] <= changes'
  <2>1. name[x] \in Nat /\ name[x] <= changes
    BY LimitsAssumption DEF TypeOK, Limits, RowsFit
  <2>2. name'[x] = name[x] \/ name'[x] = name[x] + 1
    BY <1>2 DEF TypeOK
  <2>3. QED
    BY <1>1, <2>1, <2>2, LimitsAssumption DEF Limits
<1>6. name' \in [Users -> 0..MaxActs]
  BY <1>2, <1>5 DEF TypeOK
<1>7. cache' \in [Users -> {"none", "yes", "no"}]
  BY <1>2 DEF TypeOK
<1>8. TypeOK'
  BY <1>1, <1>2, <1>4, <1>6, <1>7 DEF TypeOK, Shown
<1>9. CacheIsExact' /\ RowsFit'
  BY <1>2, <1>5 DEF CacheIsExact, RowsFit, Row, TypeOK
<1>10. TabsFit'
  <2>1. SUFFICES ASSUME NEW t \in Tabs
                 PROVE  /\ UserOf[t] \in gone => sock[t] = "out"
                        /\ sock[t] # "up" => down'[t] = <<>>
                        /\ seen[t] <= changes'
    BY <1>1, <1>2, FlightsAge DEF TabsFit
  <2>2. seen[t] \in Nat /\ seen[t] <= changes
    BY LimitsAssumption DEF TypeOK, Limits, TabsFit
  <2>3. QED
    BY <1>1, <1>4, <2>2 DEF TabsFit
<1>11. QED
  BY <1>8, <1>9, <1>10

LEMMA DeletedFits ==
    ASSUME FriendsFit, NEW u \in Users, NEW told \in BOOLEAN, Deleted(u, told)
    PROVE  FriendsFit'
<1> USE DEF FriendsFit, FriendsInv
<1>0. Partner[u] \in Users /\ UserOf \in [Tabs -> Users]
  BY Pairs, LimitsAssumption DEF Limits
<1>1. PICK s : Change(s)
  BY DEF Deleted
<1>2. /\ changes' \in 0..MaxActs /\ changes' = changes + 1 /\ changes \in Nat
      /\ faults' = faults /\ seen' = seen /\ astray' \subseteq Tabs
  BY <1>1, Counted DEF TypeOK
<1>3. /\ friends' = {} /\ blocked' = "no" /\ gone' = gone \cup {u}
      /\ cache' = [x \in Users |-> IF x = u \/ (told /\ u \in friends) THEN "none" ELSE cache[x]]
      /\ sock' = [t \in Tabs |-> IF UserOf[t] = u THEN "out" ELSE sock[t]]
      /\ ghosts' = ghosts \ TabsOf[u]
      /\ flights' = [t \in Tabs |-> IF UserOf[t] = u THEN <<>> ELSE flights[t]]
      /\ UNCHANGED <<name, chat, list, dot, absent>>
  BY DEF Deleted
<1>4. PICK offline \in Seq(Event), changed \in Seq(Event) :
        down' = [t \in Tabs |-> IF UserOf[t] = u THEN <<>>
                                ELSE IF sock[t] = "up" THEN down[t] \o offline \o changed
                                ELSE down[t]]
  <2>1. PICK offline \in Seq(Event) :
            offline = IF Online(u) /\ FriendEmails(u) = "yes" THEN <<"offline">> ELSE <<>>
    <3>1. <<>> \in Seq(Event) /\ <<"offline">> \in Seq(Event)
      BY DEF Event
    <3>2. QED
      BY <3>1
  <2>2. PICK changed \in Seq(Event) : changed = IF told /\ u \in friends THEN <<"changed">> ELSE <<>>
    <3>1. <<>> \in Seq(Event) /\ <<"changed">> \in Seq(Event)
      BY DEF Event
    <3>2. QED
      BY <3>1
  <2>3. QED
    BY <2>1, <2>2 DEF Deleted
<1>5. down' \in [Tabs -> Seq(Event)]
  <2>1. \A t \in Tabs : down[t] \in Seq(Event)
    BY DEF TypeOK
  <2>2. \A t \in Tabs : down[t] \o offline \o changed \in Seq(Event)
    BY <2>1
  <2>3. <<>> \in Seq(Event)
    OBVIOUS
  <2>4. QED
    BY <1>4, <2>1, <2>2, <2>3
<1>6. flights' \in [Tabs -> Seq(Flight)]
  <2>1. <<>> \in Seq(Flight)
    OBVIOUS
  <2>2. QED
    BY <1>3, <2>1 DEF TypeOK
<1>7. TypeOK'
  BY <1>2, <1>3, <1>5, <1>6 DEF TypeOK, Shown
<1>8. CacheIsExact'
  BY <1>0, <1>3, Pairs DEF CacheIsExact, Row, TypeOK
<1>9. RowsFit'
  <2>1. \A x \in Users : name[x] \in Nat
    BY LimitsAssumption DEF TypeOK, Limits
  <2>2. QED
    BY <1>2, <1>3, <2>1 DEF RowsFit
<1>10. ASSUME NEW t \in Tabs
       PROVE  /\ UserOf[t] \in gone' => sock'[t] = "out"
              /\ sock'[t] # "up" => down'[t] = <<>>
              /\ seen'[t] <= changes'
  <2>1. seen[t] \in Nat /\ seen[t] <= changes
    BY LimitsAssumption DEF TypeOK, Limits, TabsFit
  <2>2. seen'[t] <= changes'
    BY <1>2, <2>1
  <2>3. UserOf[t] \in gone' => sock'[t] = "out"
    BY <1>3 DEF TabsFit
  <2>4. sock'[t] # "up" => down'[t] = <<>>
    BY <1>3, <1>4 DEF TabsFit
  <2>5. QED
    BY <2>2, <2>3, <2>4
<1>11. ASSUME NEW t \in Tabs, NEW i \in DOMAIN flights'[t]
       PROVE  \/ flights'[t][i] = Asked
              \/ flights'[t][i].shows \in Shown /\ flights'[t][i].asOf <= changes'
  <2>1. flights'[t] = flights[t] \/ flights'[t] = <<>>
    BY <1>3
  <2>2. i \in DOMAIN flights[t] /\ flights'[t] = flights[t]
    BY <1>11, <2>1
  <2>3. CASE flights[t][i] # Asked
    <3>1. flights[t][i].shows \in Shown /\ flights[t][i].asOf <= changes
      BY <2>2, <2>3 DEF TabsFit
    <3>2. flights[t][i].asOf \in Nat
      BY <2>2, Dated
    <3>3. flights[t][i].asOf <= changes + 1
      BY <1>2, <3>1, <3>2
    <3>4. QED
      BY <1>2, <2>2, <3>1, <3>3
  <2>4. QED
    BY <2>2, <2>3
<1>12. TabsFit'
  BY <1>10, <1>11 DEF TabsFit
<1>13. QED
  BY <1>7, <1>8, <1>9, <1>12

-----------------------------------------------------------------------------
LEMMA OneAsked ==
    ASSUME FriendsFit, NEW t \in Tabs,
           flights' = flights \/ flights' = [flights EXCEPT ![t] = Append(@, Asked)]
    PROVE  /\ flights' \in [Tabs -> Seq(Flight)]
           /\ \A x \in Tabs : \A i \in DOMAIN flights[x] :
                 i \in DOMAIN flights'[x] /\ flights'[x][i] = flights[x][i]
           /\ \A x \in Tabs : \A i \in DOMAIN flights'[x] :
                 flights'[x][i] = Asked \/ (i \in DOMAIN flights[x] /\ flights'[x][i] = flights[x][i])
           /\ flights' # flights => \E n \in DOMAIN flights'[t] : flights'[t][n] = Asked
<1>1. CASE flights' = flights
  BY <1>1 DEF FriendsFit, FriendsInv, TypeOK
<1>2. CASE flights' = [flights EXCEPT ![t] = Append(@, Asked)]
  <2>1. PICK f \in Flight : f = Asked
    BY Shows DEF FriendsFit, FriendsInv
  <2>2. flights' = [flights EXCEPT ![t] = Append(@, f)]
    BY <1>2, <2>1
  <2>3. /\ flights' \in [Tabs -> Seq(Flight)]
        /\ \A x \in Tabs : x # t => flights'[x] = flights[x]
        /\ \A i \in DOMAIN flights[t] : i \in DOMAIN flights'[t] /\ flights'[t][i] = flights[t][i]
        /\ \E n \in DOMAIN flights'[t] : flights'[t][n] = f
        /\ \A i \in DOMAIN flights'[t] : i \in DOMAIN flights[t] \/ flights'[t][i] = f
    BY <2>2, OneMore
  <2>4. ASSUME NEW x \in Tabs, NEW i \in DOMAIN flights'[x]
        PROVE  flights'[x][i] = Asked \/ (i \in DOMAIN flights[x] /\ flights'[x][i] = flights[x][i])
    BY <2>1, <2>3, <2>4
  <2>5. ASSUME NEW x \in Tabs, NEW i \in DOMAIN flights[x]
        PROVE  i \in DOMAIN flights'[x] /\ flights'[x][i] = flights[x][i]
    BY <2>3, <2>5
  <2>6. QED
    BY <2>1, <2>3, <2>4, <2>5
<1>3. QED
  BY <1>1, <1>2

\* Nothing but the requests of one tab changes, or its list and the history of it.
LEMMA JoinDirectFits ==
    ASSUME FriendsFit, NEW t \in Tabs, JoinDirect(t) PROVE FriendsFit'
<1> TypeOK /\ CacheIsExact /\ RowsFit /\ TabsFit /\ FriendsInv
  BY DEF FriendsFit, FriendsInv
<1>1. PICK u \in Users : u = UserOf[t]
  BY LimitsAssumption DEF Limits
<1>2. /\ cache' = cache \/ cache' = Cached(u)
      /\ flights' = flights \/ flights' = [flights EXCEPT ![t] = Append(@, Asked)]
      /\ UNCHANGED <<friends, blocked, name, gone, chat, sock, ghosts, down, list, dot, seen, astray, absent, changes, faults>>
  BY <1>1 DEF JoinDirect, Refused, Ask, table, history
<1>3. /\ flights' \in [Tabs -> Seq(Flight)]
      /\ \A x \in Tabs : \A i \in DOMAIN flights'[x] :
            flights'[x][i] = Asked \/ (i \in DOMAIN flights[x] /\ flights'[x][i] = flights[x][i])
  BY <1>2, OneAsked
<1>4. cache' \in [Users -> {"none", "yes", "no"}]
  BY <1>2, Exact DEF TypeOK
<1>5. TypeOK'
  BY <1>2, <1>3, <1>4 DEF TypeOK, Shown
<1>6. CacheIsExact' /\ RowsFit'
  BY <1>1, <1>2, Exact DEF CacheIsExact, RowsFit, Row
<1>7. TabsFit'
  BY <1>2, <1>3 DEF TabsFit
<1>8. QED
  BY <1>5, <1>6, <1>7 DEF FriendsFit, FriendsInv

\* What a tab does with the event it hears.
LEMMA Hearing ==
    ASSUME FriendsFit, NEW t \in Tabs, Hear(t)
    PROVE  /\ sock[t] = "up" /\ down[t] # <<>> /\ down[t] \in Seq(Event)
           /\ down' = [down EXCEPT ![t] = Tail(@)]
           /\ \/ /\ Head(down[t]) = "changed" /\ dot' = dot
                 /\ flights' = [flights EXCEPT ![t] = Append(@, Asked)]
              \/ /\ Head(down[t]) # "changed" /\ flights' = flights
                 /\ dot' = [dot EXCEPT ![t] = IF Says(Head(down[t])) THEN "on" ELSE "off"]
           /\ UNCHANGED <<friends, blocked, name, gone, cache, chat, sock, ghosts, list, seen, astray, absent, changes, faults>>
<1>1. down[t] \in Seq(Event)
  BY DEF FriendsFit, FriendsInv, TypeOK
<1>2. QED
  BY <1>1 DEF Hear, Heard, Ask, table, history, Says

LEMMA HearFits ==
    ASSUME FriendsFit, NEW t \in Tabs, Hear(t) PROVE FriendsFit'
<1> TypeOK /\ CacheIsExact /\ RowsFit /\ TabsFit /\ FriendsInv
  BY DEF FriendsFit, FriendsInv
<1>1. /\ down' \in [Tabs -> Seq(Event)]
      /\ \A x \in Tabs : x # t => down'[x] = down[x]
  <2>1. PICK s \in Seq(Event) : s = down[t] /\ s # <<>> /\ down' = [down EXCEPT ![t] = Tail(@)]
    BY Hearing
  <2>2. PICK r \in Seq(Event) : r = Tail(s)
    BY <2>1, Shortened
  <2>3. down' = [down EXCEPT ![t] = r]
    BY <2>1, <2>2
  <2>4. QED
    BY <2>3 DEF TypeOK
<1>2. /\ flights' \in [Tabs -> Seq(Flight)]
      /\ \A x \in Tabs : \A i \in DOMAIN flights'[x] :
            flights'[x][i] = Asked \/ (i \in DOMAIN flights[x] /\ flights'[x][i] = flights[x][i])
  BY Hearing, OneAsked
<1>3. dot' \in [Tabs -> {"on", "off"}]
  BY Hearing DEF TypeOK
<1>4. UNCHANGED <<friends, blocked, name, gone, cache, chat, sock, ghosts, list, seen, astray, absent, changes, faults>>
  BY Hearing
<1>5. TypeOK'
  BY <1>1, <1>2, <1>3, <1>4 DEF TypeOK, Shown
<1>6. CacheIsExact' /\ RowsFit'
  BY <1>4 DEF CacheIsExact, RowsFit, Row
<1>7. TabsFit'
  <2>1. sock[t] = "up"
    BY Hearing
  <2>2. QED
    BY <1>1, <1>2, <1>4, <2>1 DEF TabsFit
<1>8. QED
  BY <1>5, <1>6, <1>7 DEF FriendsFit, FriendsInv

LEMMA Answering ==
    ASSUME FriendsFit, NEW t \in Tabs, NEW i \in DOMAIN flights[t], Answer(t, i)
    PROVE  /\ flights[t][i] = Asked
           /\ flights'[t][i].shows = FriendsOf(UserOf[t]) /\ flights'[t][i].asOf = changes
           /\ FriendsOf(UserOf[t]) \in Shown
           /\ flights'[t][i] # Asked
           /\ flights' \in [Tabs -> Seq(Flight)]
           /\ DOMAIN flights'[t] = DOMAIN flights[t]
           /\ \A j \in DOMAIN flights[t] : j # i => flights'[t][j] = flights[t][j]
           /\ \A x \in Tabs : x # t => flights'[x] = flights[x]
           /\ UNCHANGED <<friends, blocked, name, gone, cache, chat, sock, ghosts, down, list, dot, seen, astray, absent, changes, faults>>
<1> TypeOK /\ CacheIsExact /\ RowsFit /\ TabsFit /\ FriendsInv
  BY DEF FriendsFit, FriendsInv
<1>1. FriendsOf(UserOf[t]) \in Shown /\ Unknown \notin Shown /\ Asked.shows = Unknown
  BY Shows, LimitsAssumption DEF Limits
<1>2. PICK f \in Flight : f = [shows |-> FriendsOf(UserOf[t]), asOf |-> changes]
  BY <1>1 DEF TypeOK, Flight
<1>3. PICK s \in Seq(Flight) : s = flights[t]
  BY DEF TypeOK
<1>4. flights' = [flights EXCEPT ![t] = [s EXCEPT ![i] = f]]
  BY <1>2, <1>3 DEF Answer
<1>5. /\ [s EXCEPT ![i] = f] \in Seq(Flight) /\ DOMAIN [s EXCEPT ![i] = f] = DOMAIN s
      /\ [s EXCEPT ![i] = f][i] = f
      /\ \A j \in DOMAIN s : j # i => [s EXCEPT ![i] = f][j] = s[j]
  BY <1>3
<1>6. /\ flights' \in [Tabs -> Seq(Flight)] /\ flights'[t] = [s EXCEPT ![i] = f]
      /\ \A x \in Tabs : x # t => flights'[x] = flights[x]
  BY <1>4, <1>5 DEF TypeOK
<1>7. f.shows = FriendsOf(UserOf[t]) /\ f.asOf = changes /\ f # Asked
  BY <1>1, <1>2
<1>8. QED
  BY <1>1, <1>3, <1>5, <1>6, <1>7 DEF Answer, table, history

LEMMA AnswerFits ==
    ASSUME FriendsFit, NEW t \in Tabs, NEW i \in DOMAIN flights[t], Answer(t, i)
    PROVE  FriendsFit'
<1> TypeOK /\ CacheIsExact /\ RowsFit /\ TabsFit /\ FriendsInv
  BY DEF FriendsFit, FriendsInv
<1>1. /\ flights' \in [Tabs -> Seq(Flight)]
      /\ UNCHANGED <<friends, blocked, name, gone, cache, chat, sock, ghosts, down, list, dot, seen, astray, absent, changes, faults>>
  BY Answering
<1>2. TypeOK'
  BY <1>1 DEF TypeOK, Shown
<1>3. CacheIsExact' /\ RowsFit'
  BY <1>1 DEF CacheIsExact, RowsFit, Row
<1>4. ASSUME NEW x \in Tabs, NEW j \in DOMAIN flights'[x]
      PROVE  \/ flights'[x][j] = Asked
             \/ flights'[x][j].shows \in Shown /\ flights'[x][j].asOf <= changes
  <2>1. CASE x = t /\ j = i
    <3>1. flights'[x][j].shows \in Shown /\ flights'[x][j].asOf = changes
      BY <2>1, Answering
    <3>2. changes \in Nat
      BY Counted
    <3>3. QED
      BY <3>1, <3>2
  <2>2. CASE ~(x = t /\ j = i)
    <3>1. j \in DOMAIN flights[x] /\ flights'[x][j] = flights[x][j]
      BY <1>4, <2>2, Answering
    <3>2. QED
      BY <3>1 DEF TabsFit
  <2>3. QED
    BY <2>1, <2>2
<1>5. TabsFit'
  BY <1>1, <1>4 DEF TabsFit
<1>6. QED
  BY <1>2, <1>3, <1>5 DEF FriendsFit, FriendsInv

\* One request fewer.
LEMMA OneLess ==
    ASSUME FriendsFit, NEW t \in Tabs, NEW i \in DOMAIN flights[t],
           flights' = [flights EXCEPT ![t] = RemoveAt(@, i)]
    PROVE  /\ flights' \in [Tabs -> Seq(Flight)]
           /\ \A x \in Tabs : x # t => flights'[x] = flights[x]
           /\ \A j \in DOMAIN flights[t] : j # i => \E m \in DOMAIN flights'[t] : flights'[t][m] = flights[t][j]
           /\ \A m \in DOMAIN flights'[t] : \E j \in DOMAIN flights[t] : j # i /\ flights'[t][m] = flights[t][j]
<1>1. PICK s \in Seq(Flight) : s = flights[t]
  BY DEF FriendsFit, FriendsInv, TypeOK
<1>2. PICK r : r = RemoveAt(s, i)
  OBVIOUS
<1>3. /\ r \in Seq(Flight)
      /\ \A j \in DOMAIN s : j # i => \E m \in DOMAIN r : r[m] = s[j]
      /\ \A m \in DOMAIN r : \E j \in DOMAIN s : j # i /\ r[m] = s[j]
  BY <1>1, <1>2, Without
<1>4. flights' = [flights EXCEPT ![t] = r]
  BY <1>1, <1>2
<1>5. QED
  BY <1>1, <1>3, <1>4 DEF FriendsFit, FriendsInv, TypeOK

LEMMA TakeOrFailFits ==
    ASSUME FriendsFit, NEW t \in Tabs, NEW i \in DOMAIN flights[t], Take(t, i) \/ Fail(t, i)
    PROVE  FriendsFit'
<1> TypeOK /\ CacheIsExact /\ RowsFit /\ TabsFit /\ FriendsInv
  BY DEF FriendsFit, FriendsInv
<1>1. flights' = [flights EXCEPT ![t] = RemoveAt(@, i)]
  BY DEF Take, Fail
<1>2. /\ flights' \in [Tabs -> Seq(Flight)]
      /\ \A x \in Tabs : \A m \in DOMAIN flights'[x] :
            \E j \in DOMAIN flights[x] : flights'[x][m] = flights[x][j]
  <2>1. /\ flights' \in [Tabs -> Seq(Flight)]
        /\ \A x \in Tabs : x # t => flights'[x] = flights[x]
        /\ \A m \in DOMAIN flights'[t] : \E j \in DOMAIN flights[t] : j # i /\ flights'[t][m] = flights[t][j]
    BY <1>1, OneLess
  <2>2. QED
    BY <2>1
<1>3. UNCHANGED <<friends, blocked, name, gone, cache, chat, ghosts, down, dot, absent, changes>>
  BY DEF Take, Fail, table
<1>4. faults' \in 0..MaxActs /\ astray' \subseteq Tabs
  BY Counted DEF Take, Fail, TypeOK
<1>5. /\ sock' \in [Tabs -> {"boot", "down", "up", "out"}]
      /\ \A x \in Tabs : sock'[x] = sock[x] \/ (sock[x] = "boot" /\ sock'[x] = "down")
  BY DEF Take, Fail, TypeOK
<1>6. /\ list' \in [Tabs -> Shown] /\ seen' \in [Tabs -> 0..MaxActs]
      /\ \A x \in Tabs : seen'[x] <= changes
  <2>1. CASE Take(t, i)
    <3>1. PICK f \in Flight : f = flights[t][i] /\ f # Asked
      BY <2>1, Dated DEF Take
    <3>2. f.shows \in Shown /\ f.asOf <= changes
      BY <3>1 DEF TabsFit
    <3>3. list' = [list EXCEPT ![t] = f.shows] /\ seen' = [seen EXCEPT ![t] = f.asOf]
      BY <2>1, <3>1 DEF Take
    <3>4. f.asOf \in 0..MaxActs
      BY <3>1 DEF Flight
    <3>5. list' \in [Tabs -> Shown]
      BY <3>2, <3>3 DEF TypeOK
    <3>6. seen' \in [Tabs -> 0..MaxActs]
      BY <3>3, <3>4 DEF TypeOK
    <3>7. \A x \in Tabs : seen'[x] <= changes
      BY <3>2, <3>3 DEF TypeOK, TabsFit
    <3>8. QED
      BY <3>5, <3>6, <3>7
  <2>2. CASE Fail(t, i)
    BY <2>2 DEF Fail, TypeOK, TabsFit
  <2>3. QED
    BY <2>1, <2>2
<1>7. TypeOK'
  BY <1>2, <1>3, <1>4, <1>5, <1>6 DEF TypeOK, Shown
<1>8. CacheIsExact' /\ RowsFit'
  BY <1>3 DEF CacheIsExact, RowsFit, Row
<1>9. TabsFit'
  <2>1. ASSUME NEW x \in Tabs
        PROVE  /\ UserOf[x] \in gone' => sock'[x] = "out"
               /\ sock'[x] # "up" => down'[x] = <<>>
               /\ seen'[x] <= changes'
    <3>1. /\ UserOf[x] \in gone => sock[x] = "out"
          /\ sock[x] # "up" => down[x] = <<>>
      BY DEF TabsFit
    <3>2. QED
      BY <1>3, <1>5, <1>6, <3>1
  <2>2. ASSUME NEW x \in Tabs, NEW m \in DOMAIN flights'[x]
        PROVE  \/ flights'[x][m] = Asked
               \/ flights'[x][m].shows \in Shown /\ flights'[x][m].asOf <= changes'
    <3>1. PICK j \in DOMAIN flights[x] : flights'[x][m] = flights[x][j]
      BY <1>2
    <3>2. QED
      BY <1>3, <3>1 DEF TabsFit
  <2>3. QED
    BY <2>1, <2>2 DEF TabsFit
<1>10. QED
  BY <1>7, <1>8, <1>9 DEF FriendsFit, FriendsInv

LEMMA InitFits == Init => FriendsFit
<1> SUFFICES ASSUME Init PROVE FriendsFit
  OBVIOUS
<1>2. 0 \in 0..MaxActs /\ Hidden \in Shown /\ 0 \in Shown /\ Asked \in Flight
  BY LimitsAssumption DEF Limits, Shown, Flight, Asked
<1>3. \A u \in Users : FriendsOf(u) \in Shown
  <2>1. \A u \in Users : name[u] = 0
    BY DEF Init
  <2>2. QED
    BY <1>2, <2>1, Pairs DEF FriendsOf, FriendView
<1>4. flights \in [Tabs -> Seq(Flight)]
  <2>1. <<>> \in Seq(Flight) /\ <<Asked>> \in Seq(Flight)
    BY <1>2
  <2>2. QED
    BY <2>1 DEF Init
<1>5. /\ down \in [Tabs -> Seq(Event)] /\ list \in [Tabs -> Shown]
      /\ name \in [Users -> 0..MaxActs] /\ seen \in [Tabs -> 0..MaxActs]
  BY <1>2, <1>3, LimitsAssumption DEF Init, Limits
<1>6. TypeOK
  BY <1>2, <1>4, <1>5 DEF Init, TypeOK
<1>7. CacheIsExact /\ RowsFit
  BY DEF Init, CacheIsExact, RowsFit
<1>8. ASSUME NEW t \in Tabs, NEW i \in DOMAIN flights[t] PROVE flights[t][i] = Asked
  <2>1. flights[t] = <<Asked>> \/ flights[t] = <<>>
    BY DEF Init
  <2>2. QED
    BY <1>8, <2>1
<1>9. TabsFit
  BY <1>8 DEF Init, TabsFit
<1>10. QED
  BY <1>6, <1>7, <1>9 DEF FriendsFit, FriendsInv

LEMMA FitsStep == FriendsFit /\ [Next]_vars => FriendsFit'
<1> SUFFICES ASSUME FriendsFit, [Next]_vars PROVE FriendsFit'
  OBVIOUS
<1>1. CASE UNCHANGED vars
  BY <1>1 DEF vars, table, history, FriendsFit, FriendsInv, TypeOK, CacheIsExact, RowsFit, TabsFit, Row, Shown
<1>2. CASE \E t \in Tabs :
              \/ PresenceAdd(t) \/ Break(t) \/ PresenceRemove(t)
              \/ \E hard \in BOOLEAN : EndFriendship(t, hard)
              \/ JoinDirect(t) \/ Hear(t)
              \/ \E i \in DOMAIN flights[t] : Answer(t, i) \/ Take(t, i) \/ Fail(t, i)
  BY <1>2, PresenceAddFits, BreakFits, PresenceRemoveFits, EndFriendshipFits, JoinDirectFits,
     HearFits, AnswerFits, TakeOrFailFits
<1>3. CASE \E u \in Users :
              \/ Expire(u) \/ Reveal(u) \/ RevealOfDeleted(u)
              \/ BlockInChat(u) \/ Report(u) \/ Rename(u)
              \/ DeleteMe(u) \/ AdminDelete(u)
  BY <1>3, QuietStepsFit, ChatStepsFit, RenameFits, DeletedFits DEF DeleteMe, AdminDelete
<1>4. CASE Restart \/ Meet
  BY <1>4, RestartFits, QuietStepsFit
<1>5. QED
  BY <1>1, <1>2, <1>3, <1>4 DEF Next

\* users.js:40: what is cached of a friendship is what the table says.
THEOREM CacheAlwaysExact == Spec => []FriendsInv
<1>1. Init => FriendsFit
  BY InitFits
<1>2. FriendsFit /\ [Next]_vars => FriendsFit'
  BY FitsStep
<1>3. FriendsFit => FriendsInv
  BY DEF FriendsFit
<1>4. QED
  BY <1>1, <1>2, <1>3, PTL DEF Spec

-----------------------------------------------------------------------------
(* The list of a settled tab.                                              *)

Has(evs) == \E j \in DOMAIN evs : evs[j] = "changed"
Told(t) == Has(down[t])
Awaits(t) == \E i \in DOMAIN flights[t] : flights[t][i] = Asked

\* The answers of change k and of later ones are right.
RightSince(t, k) ==
    \A i \in DOMAIN flights[t] :
        flights[t][i] # Asked /\ flights[t][i].asOf >= k => flights[t][i].shows = FriendsOf(UserOf[t])

\* Nothing changed for the tab since change k, and it shows the state of then
\* or will.
Settled(t) ==
    \E k \in 0..changes :
        /\ seen[t] <= k /\ RightSince(t, k)
        /\ \/ k = seen[t] /\ list[t] = FriendsOf(UserOf[t])
           \/ \E i \in DOMAIN flights[t] : flights[t][i] # Asked /\ flights[t][i].asOf = k

ListFits(t) ==
    sock[t] # "out" =>
        /\ RightSince(t, changes)
        /\ t \in astray \/ Told(t) \/ Awaits(t) \/ Settled(t)
ListsFit == \A t \in Tabs : ListFits(t)

LEMMA HasMore ==
    ASSUME NEW s \in Seq(Event), NEW e \in Seq(Event)
    PROVE  /\ s \o e \in Seq(Event)
           /\ Has(s) \/ Has(e) => Has(s \o e)
<1>1. PICK r : r = s \o e
  OBVIOUS
<1>2. /\ r \in Seq(Event) /\ DOMAIN s = 1..Len(s) /\ DOMAIN e = 1..Len(e) /\ DOMAIN r = 1..(Len(s) + Len(e))
      /\ Len(s) \in Nat /\ Len(e) \in Nat
      /\ \A i \in 1..Len(s) : r[i] = s[i]
      /\ \A i \in 1..Len(e) : r[Len(s) + i] = e[i]
  BY <1>1
<1>3. ASSUME Has(s) PROVE Has(r)
  <2>1. PICK j \in DOMAIN s : s[j] = "changed"
    BY <1>3 DEF Has
  <2>2. j \in DOMAIN r /\ r[j] = "changed"
    BY <1>2, <2>1
  <2>3. QED
    BY <2>2 DEF Has
<1>4. ASSUME Has(e) PROVE Has(r)
  <2>1. PICK j \in DOMAIN e : e[j] = "changed"
    BY <1>4 DEF Has
  <2>2. Len(s) + j \in DOMAIN r /\ r[Len(s) + j] = "changed"
    BY <1>2, <2>1
  <2>3. QED
    BY <2>2 DEF Has
<1>5. QED
  BY <1>1, <1>2, <1>3, <1>4

LEMMA HasNone ==
    /\ <<>> \in Seq(Event) /\ <<"changed">> \in Seq(Event) /\ <<"changed", "online">> \in Seq(Event)
    /\ Has(<<"changed">>) /\ Has(<<"changed", "online">>) /\ ~Has(<<>>)
BY DEF Has, Event

LEMMA HasTail ==
    ASSUME NEW s \in Seq(Event), s # <<>>, Has(s), Head(s) # "changed"
    PROVE  Has(Tail(s))
<1>1. PICK r : r = Tail(s)
  OBVIOUS
<1>2. /\ Head(s) = s[1] /\ Len(s) \in Nat /\ 1 \in DOMAIN s /\ DOMAIN s = 1..Len(s)
      /\ DOMAIN r = 1..(Len(s) - 1)
      /\ \A i \in DOMAIN r : i + 1 \in DOMAIN s /\ r[i] = s[i + 1]
  BY <1>1, Shortened
<1>3. PICK j \in DOMAIN s : s[j] = "changed"
  BY DEF Has
<1>4. j - 1 \in DOMAIN r /\ (j - 1) + 1 = j
  BY <1>2, <1>3
<1>5. r[j - 1] = "changed"
  BY <1>2, <1>3, <1>4
<1>6. QED
  BY <1>1, <1>4, <1>5 DEF Has

LEMMA SameRows ==
    ASSUME UNCHANGED <<friends, name, gone>>
    PROVE  \A u : FriendsOf(u)' = FriendsOf(u)
BY DEF FriendsOf, Found, FriendView

LEMMA ListKept ==
    ASSUME FriendsFit, NEW t \in Tabs, ListFits(t),
           sock'[t] # "out" => sock[t] # "out",
           flights'[t] = flights[t], list'[t] = list[t], seen'[t] = seen[t],
           FriendsOf(UserOf[t])' = FriendsOf(UserOf[t]),
           changes' = changes \/ changes' = changes + 1,
           t \in astray \/ Told(t) => t \in astray' \/ Told(t)'
    PROVE  ListFits(t)'
<1> SUFFICES ASSUME sock'[t] # "out" PROVE ListFits(t)'
  BY DEF ListFits
<1>1. changes \in Nat /\ changes' \in Nat /\ changes <= changes'
  BY Counted DEF FriendsFit, FriendsInv
<1>2. \A k : RightSince(t, k)' <=> RightSince(t, k)
  BY DEF RightSince
<1>3. RightSince(t, changes)'
  <2>1. CASE changes' = changes
    BY <1>2, <2>1 DEF ListFits
  <2>2. CASE changes' = changes + 1
    <3>1. \A i \in DOMAIN flights[t] : flights[t][i] # Asked => ~(flights[t][i].asOf >= changes')
      BY <1>1, <2>2, Dated DEF FriendsFit, FriendsInv, TabsFit
    <3>2. QED
      BY <3>1 DEF RightSince
  <2>3. QED
    BY <2>1, <2>2
<1>4. ASSUME Settled(t) PROVE Settled(t)'
  <2>1. PICK k \in 0..changes :
            /\ seen[t] <= k /\ RightSince(t, k)
            /\ \/ k = seen[t] /\ list[t] = FriendsOf(UserOf[t])
               \/ \E i \in DOMAIN flights[t] : flights[t][i] # Asked /\ flights[t][i].asOf = k
    BY <1>4 DEF Settled
  <2>2. k \in 0..changes'
    BY <1>1
  <2>3. QED
    BY <1>2, <2>1, <2>2 DEF Settled
<1>5. Awaits(t) => Awaits(t)'
  BY DEF Awaits
<1>6. QED
  BY <1>3, <1>4, <1>5 DEF ListFits

LEMMA ListTold ==
    ASSUME FriendsFit, NEW t \in Tabs,
           flights'[t] = flights[t], changes' = changes + 1, t \in astray' \/ Told(t)'
    PROVE  ListFits(t)'
<1>1. changes \in Nat
  BY Counted DEF FriendsFit, FriendsInv
<1>2. \A i \in DOMAIN flights[t] : flights[t][i] # Asked => ~(flights[t][i].asOf >= changes')
  BY <1>1, Dated DEF FriendsFit, FriendsInv, TabsFit
<1>3. RightSince(t, changes)'
  BY <1>2 DEF RightSince
<1>4. QED
  BY <1>3 DEF ListFits

\* What is emitted is heard after what was, or not at all.
LEMMA EmitKeeps ==
    ASSUME FriendsFit, NEW what \in [Users -> Seq(Event)], EmitToUser(what), NEW t \in Tabs
    PROVE  /\ Told(t) => Told(t)'
           /\ sock[t] = "up" /\ Has(what[UserOf[t]]) => Told(t)'
<1>1. down[t] \in Seq(Event) /\ UserOf[t] \in Users /\ what[UserOf[t]] \in Seq(Event)
  BY LimitsAssumption DEF Limits, FriendsFit, FriendsInv, TypeOK
<1>2. /\ sock[t] = "up" => down'[t] = down[t] \o what[UserOf[t]]
      /\ sock[t] # "up" => down'[t] = down[t]
  BY Emitted DEF FriendsFit, FriendsInv
<1>3. QED
  BY <1>1, <1>2, HasMore DEF Told

LEMMA PresenceAddLists ==
    ASSUME FriendsFit, ListsFit, NEW t \in Tabs, PresenceAdd(t) PROVE ListsFit'
<1>1. SUFFICES ASSUME NEW x \in Tabs PROVE ListFits(x)'
  BY DEF ListsFit
<1>2. /\ sock[t] = "down" /\ sock' = [sock EXCEPT ![t] = "up"]
      /\ UNCHANGED <<friends, name, gone, flights, list, seen, astray, changes>>
  BY DEF PresenceAdd, table
<1>3. Told(x) => Told(x)'
  <2>1. CASE x = t
    <3>1. down[x] = <<>>
      BY <1>2, <2>1 DEF FriendsFit, TabsFit
    <3>2. QED
      BY <3>1, HasNone DEF Told
  <2>2. CASE x # t
    <3>1. PICK news : /\ news = IF ~Online(UserOf[t]) /\ FriendEmails(UserOf[t]) = "yes" THEN <<"online">> ELSE <<>>
      OBVIOUS
    <3>2. news \in Seq(Event)
      <4>1. <<>> \in Seq(Event) /\ <<"online">> \in Seq(Event)
        BY DEF Event
      <4>2. QED
        BY <3>1, <4>1
    <3>3. down'[x] = down[x] \/ down'[x] = down[x] \o news
      BY <2>2, <3>1 DEF PresenceAdd
    <3>4. down[x] \in Seq(Event)
      BY DEF FriendsFit, FriendsInv, TypeOK
    <3>5. QED
      BY <3>2, <3>3, <3>4, HasMore DEF Told
  <2>3. QED
    BY <2>1, <2>2
<1>4. sock'[x] # "out" => sock[x] # "out"
  BY <1>2 DEF FriendsFit, FriendsInv, TypeOK
<1>5. FriendsOf(UserOf[x])' = FriendsOf(UserOf[x])
  BY <1>2, SameRows, LimitsAssumption DEF Limits
<1>6. ListFits(x)
  BY DEF ListsFit
<1>7. QED
  BY <1>2, <1>3, <1>4, <1>5, <1>6, ListKept

\* Connections break, and with them goes what was on its way.
LEMMA BreakOrRestartLists ==
    ASSUME FriendsFit, ListsFit, Restart \/ \E t \in Tabs : Break(t) PROVE ListsFit'
<1>1. SUFFICES ASSUME NEW x \in Tabs PROVE ListFits(x)'
  BY DEF ListsFit
<1>2. UNCHANGED <<friends, name, gone, flights, list, seen, changes>>
  BY DEF Restart, Break, table
<1>3. sock'[x] # "out" => sock[x] # "out"
  BY DEF Restart, Break, FriendsFit, FriendsInv, TypeOK
<1>4. x \in astray => x \in astray'
  BY DEF Restart, Break
<1>5. Told(x) => x \in astray' \/ Told(x)'
  <2>1. Told(x) => Contains(down[x], "changed")
    <3>1. down[x] \in Seq(Event)
      BY DEF FriendsFit, FriendsInv, TypeOK
    <3>2. QED
      BY <3>1 DEF Told, Has, Contains
  <2>2. CASE Restart
    BY <2>1, <2>2 DEF Restart
  <2>3. ASSUME NEW t \in Tabs, Break(t) PROVE Told(x) => x \in astray' \/ Told(x)'
    <3>1. CASE x = t
      BY <2>1, <2>3, <3>1 DEF Break
    <3>2. CASE x # t
      BY <2>3, <3>2 DEF Break, Told, FriendsFit, FriendsInv, TypeOK
    <3>3. QED
      BY <3>1, <3>2
  <2>4. QED
    BY <2>2, <2>3
<1>6. FriendsOf(UserOf[x])' = FriendsOf(UserOf[x])
  BY <1>2, SameRows, LimitsAssumption DEF Limits
<1>7. ListFits(x)
  BY DEF ListsFit
<1>8. QED
  BY <1>2, <1>3, <1>4, <1>5, <1>6, <1>7, ListKept

LEMMA PresenceRemoveLists ==
    ASSUME FriendsFit, ListsFit, NEW t \in Tabs, PresenceRemove(t) PROVE ListsFit'
<1>1. SUFFICES ASSUME NEW x \in Tabs PROVE ListFits(x)'
  BY DEF ListsFit
<1>2. PICK last \in BOOLEAN : Removed(t, last)
  BY DEF PresenceRemove
<1>3. UNCHANGED <<friends, name, gone, sock, flights, list, seen, astray, changes>>
  BY <1>2 DEF Removed, table, history
<1>4. PICK what \in [Users -> Seq(Event)] : EmitToUser(what)
  <2>1. "offline" \in Event /\ Partner[UserOf[t]] \in Users
    BY Pairs, LimitsAssumption DEF Event, Limits
  <2>2. QED
    BY <1>2, <2>1, Messages DEF Removed
<1>5. Told(x) => Told(x)'
  BY <1>4, EmitKeeps
<1>6. FriendsOf(UserOf[x])' = FriendsOf(UserOf[x])
  BY <1>3, SameRows, LimitsAssumption DEF Limits
<1>7. ListFits(x)
  BY DEF ListsFit
<1>8. QED
  BY <1>3, <1>5, <1>6, <1>7, ListKept

LEMMA QuietStepsLists ==
    ASSUME FriendsFit, ListsFit, Meet \/ \E u \in Users : Expire(u) PROVE ListsFit'
<1>1. SUFFICES ASSUME NEW x \in Tabs PROVE ListFits(x)'
  BY DEF ListsFit
<1>2. UNCHANGED <<friends, name, gone, sock, down, flights, list, seen, astray, changes>>
  BY DEF Meet, Expire, table, history
<1>3. FriendsOf(UserOf[x])' = FriendsOf(UserOf[x])
  BY <1>2, SameRows, LimitsAssumption DEF Limits
<1>4. ListFits(x) /\ (Told(x) => Told(x)')
  BY <1>2 DEF ListsFit, Told
<1>5. QED
  BY <1>2, <1>3, <1>4, ListKept

\* Whose partner is gone sees nobody, whatever the rows say.
LEMMA RevealOfDeletedLists ==
    ASSUME FriendsFit, ListsFit, NEW u \in Users, RevealOfDeleted(u) PROVE ListsFit'
<1>1. SUFFICES ASSUME NEW x \in Tabs PROVE ListFits(x)'
  BY DEF ListsFit
<1>2. /\ Partner[u] \in gone
      /\ UNCHANGED <<name, gone, sock, down, flights, list, seen, astray, changes>>
  BY DEF RevealOfDeleted, history
<1>3. CASE UserOf[x] = u
  <2>1. FriendsOf(UserOf[x])' = FriendsOf(UserOf[x])
    BY <1>2, <1>3 DEF FriendsOf, Found
  <2>2. ListFits(x) /\ (Told(x) => Told(x)')
    BY <1>2 DEF ListsFit, Told
  <2>3. QED
    BY <1>2, <2>1, <2>2, ListKept
<1>4. CASE UserOf[x] # u
  <2>1. UserOf[x] \in gone
    BY <1>2, <1>4, Pairs, LimitsAssumption DEF Limits
  <2>2. sock'[x] = "out"
    BY <1>2, <2>1 DEF FriendsFit, TabsFit
  <2>3. QED
    BY <2>2 DEF ListFits
<1>5. QED
  BY <1>3, <1>4

-----------------------------------------------------------------------------
LEMMA ChatStepsLists ==
    ASSUME FriendsFit, NEW u \in Users, Reveal(u) \/ BlockInChat(u) \/ Report(u)
    PROVE  ListsFit'
<1>1. SUFFICES ASSUME NEW x \in Tabs PROVE ListFits(x)'
  BY DEF ListsFit
<1>2. flights' = flights /\ sock' = sock
  BY DEF Reveal, BlockInChat, Report
<1>3. /\ \A told : Change(told) =>
            /\ changes' = changes + 1
            /\ sock[x] # "up" \/ x \notin told => x \in astray'
      /\ UserOf[x] \in Users /\ Partner[u] \in Users
  BY Counted, Pairs, LimitsAssumption DEF Limits, FriendsFit, FriendsInv
<1>4. CASE Reveal(u)
  <2>1. changes' = changes + 1 /\ (sock[x] # "up" => x \in astray')
    BY <1>3, <1>4 DEF Reveal
  <2>2. PICK what : what = [y \in Users |-> IF Online(Partner[y]) THEN <<"changed", "online">> ELSE <<"changed">>]
    OBVIOUS
  <2>3. what \in [Users -> Seq(Event)] /\ Has(what[UserOf[x]])
    BY <1>3, <2>2, HasNone
  <2>4. EmitToUser(what)
    BY <1>4, <2>2 DEF Reveal
  <2>5. sock[x] = "up" => Told(x)'
    BY <2>3, <2>4, EmitKeeps
  <2>6. QED
    BY <1>2, <2>1, <2>5, ListTold
<1>5. CASE BlockInChat(u)
  <2>1. PICK p \in Users : p = Partner[u]
    BY <1>3
  <2>2. changes' = changes + 1 /\ (sock[x] # "up" \/ UserOf[x] # p => x \in astray')
    BY <1>3, <1>5, <2>1 DEF BlockInChat, TabsOf
  <2>3. PICK what \in [Users -> Seq(Event)] : what = FriendsChanged(p)
    BY Messages
  <2>4. EmitToUser(what)
    BY <1>5, <2>1, <2>3 DEF BlockInChat
  <2>5. Has(what[p])
    BY <2>3, Messages, HasNone
  <2>6. sock[x] = "up" /\ UserOf[x] = p => Told(x)'
    BY <2>4, <2>5, EmitKeeps
  <2>7. QED
    BY <1>2, <2>2, <2>6, ListTold
<1>6. CASE Report(u)
  <2>1. changes' = changes + 1 /\ x \in astray'
    BY <1>3, <1>6 DEF Report
  <2>2. QED
    BY <1>2, <2>1, ListTold
<1>7. QED
  BY <1>4, <1>5, <1>6

LEMMA EndFriendshipLists ==
    ASSUME FriendsFit, NEW t \in Tabs, NEW hard \in BOOLEAN, EndFriendship(t, hard)
    PROVE  ListsFit'
<1>1. SUFFICES ASSUME NEW x \in Tabs PROVE ListFits(x)'
  BY DEF ListsFit
<1>2. PICK u \in Users, p \in Users : u = UserOf[t] /\ p = Partner[u]
  BY Pairs, LimitsAssumption DEF Limits
<1>3. /\ changes' = changes + 1 /\ changes \in Nat /\ changes' \in Nat /\ seen' = seen
      /\ sock[x] # "up" \/ (x # t /\ UserOf[x] # p) => x \in astray'
  <2>1. Change({t} \cup TabsOf[p]) /\ TabsOf[p] = {y \in Tabs : UserOf[y] = p}
    BY <1>2 DEF EndFriendship, TabsOf
  <2>2. TypeOK
    BY DEF FriendsFit, FriendsInv
  <2>3. /\ changes' \in 0..MaxActs /\ changes' = changes + 1 /\ changes \in Nat /\ seen' = seen
        /\ astray' = astray \cup {y \in Tabs : sock[y] # "up" \/ y \notin {t} \cup TabsOf[p]}
    BY <2>1, <2>2, Counted
  <2>4. changes' \in Nat
    BY <2>3, LimitsAssumption DEF Limits
  <2>5. QED
    BY <2>1, <2>3, <2>4
<1>4. PICK what \in [Users -> Seq(Event)] : what = FriendsChanged(p)
  BY Messages
<1>5. EmitToUser(what) /\ Has(what[p])
  BY <1>2, <1>4, Messages, HasNone DEF EndFriendship
<1>6. sock[x] = "up" /\ UserOf[x] = p => Told(x)'
  BY <1>5, EmitKeeps
<1>7. PICK f \in Flight : f = [shows |-> Hidden, asOf |-> changes']
  <2>1. Hidden \in Shown /\ changes' \in 0..MaxActs
    BY Shows, Counted DEF FriendsFit, FriendsInv, EndFriendship
  <2>2. QED
    BY <2>1 DEF Flight
<1>8. flights' = [flights EXCEPT ![t] = Append(@, f)]
  BY <1>7 DEF EndFriendship
<1>9. /\ \A y \in Tabs : y # t => flights'[y] = flights[y]
      /\ \A i \in DOMAIN flights[t] : i \in DOMAIN flights'[t] /\ flights'[t][i] = flights[t][i]
      /\ \E n \in DOMAIN flights'[t] : flights'[t][n] = f
      /\ \A i \in DOMAIN flights'[t] : i \in DOMAIN flights[t] \/ flights'[t][i] = f
  <2>1. f \in Flight /\ FriendsFit
    OBVIOUS
  <2>2. QED
    BY <1>8, <2>1, OneMore, ZenonT(40)
<1>10. CASE x # t
  <2>1. flights'[x] = flights[x]
    BY <1>9, <1>10
  <2>2. x \in astray' \/ Told(x)'
    BY <1>3, <1>6, <1>10
  <2>3. QED
    BY <1>3, <2>1, <2>2, ListTold
<1>11. CASE x = t
  <2>1. FriendsOf(UserOf[t])' = Hidden
    BY DEF EndFriendship, RemoveFriendship, FriendsOf
  <2>2. ASSUME NEW i \in DOMAIN flights'[t], flights'[t][i] # Asked, flights'[t][i].asOf >= changes'
        PROVE  flights'[t][i].shows = FriendsOf(UserOf[t])'
    <3>1. CASE flights'[t][i] = f
      BY <1>7, <2>1, <3>1
    <3>2. CASE i \in DOMAIN flights[t] /\ flights'[t][i] = flights[t][i]
      <4>1. flights[t][i].asOf \in Nat /\ flights[t][i].asOf <= changes
        BY <2>2, <3>2, Dated DEF FriendsFit, FriendsInv, TabsFit
      <4>2. QED
        BY <1>3, <2>2, <3>2, <4>1
    <3>3. QED
      BY <1>9, <2>2, <3>1, <3>2
  <2>3. RightSince(t, changes)'
    BY <2>2 DEF RightSince
  <2>4. f # Asked /\ f.asOf = changes'
    BY <1>7, Shows DEF FriendsFit, FriendsInv, Asked
  <2>5. seen'[t] <= changes'
    <3>1. seen[t] \in Nat /\ seen[t] <= changes
      BY LimitsAssumption DEF FriendsFit, FriendsInv, TypeOK, TabsFit, Limits
    <3>2. QED
      BY <1>3, <3>1
  <2>6. Settled(t)'
    BY <1>3, <1>9, <2>3, <2>4, <2>5 DEF Settled
  <2>7. QED
    BY <1>11, <2>3, <2>6 DEF ListFits
<1>12. QED
  BY <1>10, <1>11

LEMMA RenameLists ==
    ASSUME FriendsFit, ListsFit, NEW u \in Users, Rename(u) PROVE ListsFit'
<1>1. SUFFICES ASSUME NEW x \in Tabs PROVE ListFits(x)'
  BY DEF ListsFit
<1>2. PICK p \in Users : p = Partner[u] /\ p # u /\ Partner[p] = u
  BY Pairs
<1>3. /\ changes' = changes + 1 /\ seen' = seen
      /\ astray \subseteq astray'
      /\ sock[x] # "up" => x \in astray'
      /\ name' = [name EXCEPT ![u] = @ + 1]
      /\ UNCHANGED <<friends, gone, sock, flights, list>>
  BY Counted DEF Rename, FriendsFit, FriendsInv
<1>4. PICK what \in [Users -> Seq(Event)] : what = IF u \in friends THEN FriendsChanged(p) ELSE Silence
  BY Messages
<1>5. EmitToUser(what)
  BY <1>2, <1>4 DEF Rename
<1>6. UserOf[x] \in Users /\ ListFits(x)
  BY LimitsAssumption DEF Limits, ListsFit
<1>7. CASE UserOf[x] = p /\ u \in friends
  <2>1. Has(what[p])
    BY <1>4, <1>7, Messages, HasNone
  <2>2. sock[x] = "up" => Told(x)'
    BY <1>5, <1>7, <2>1, EmitKeeps
  <2>3. QED
    BY <1>3, <2>2, ListTold
<1>8. CASE ~(UserOf[x] = p /\ u \in friends)
  <2>1. FriendsOf(UserOf[x])' = FriendsOf(UserOf[x])
    <3>1. CASE u \notin friends
      BY <1>3, <3>1, <1>6 DEF FriendsOf, FriendsFit, RowsFit
    <3>2. CASE UserOf[x] # p
      <4>1. UserOf[x] = u
        BY <1>2, <1>6, <3>2, Pairs
      <4>2. name'[p] = name[p]
        BY <1>2, <1>3 DEF FriendsFit, FriendsInv, TypeOK
      <4>3. QED
        BY <1>2, <1>3, <4>1, <4>2 DEF FriendsOf, Found, FriendView
    <3>3. QED
      BY <1>8, <3>1, <3>2
  <2>2. Told(x) => Told(x)'
    BY <1>5, EmitKeeps
  <2>3. QED
    BY <1>3, <1>6, <2>1, <2>2, ListKept
<1>9. QED
  BY <1>7, <1>8

LEMMA DeletedLists ==
    ASSUME FriendsFit, ListsFit, NEW u \in Users, NEW told \in BOOLEAN, Deleted(u, told)
    PROVE  ListsFit'
<1>1. SUFFICES ASSUME NEW x \in Tabs PROVE ListFits(x)'
  BY DEF ListsFit
<1>2. UserOf[x] \in Users /\ ListFits(x)
  BY LimitsAssumption DEF Limits, ListsFit
<1>3. /\ changes' = changes + 1 /\ seen' = seen /\ astray \subseteq astray'
      /\ sock[x] # "up" \/ ~told => x \in astray'
  BY Counted DEF Deleted, FriendsFit, FriendsInv
<1>4. CASE UserOf[x] = u
  BY <1>4 DEF Deleted, ListFits
<1>5. CASE UserOf[x] # u
  <2>1. /\ flights'[x] = flights[x] /\ sock'[x] = sock[x] /\ list' = list /\ friends' = {}
    BY <1>5 DEF Deleted
  <2>2. PICK offline \in Seq(Event) :
            offline = IF Online(u) /\ FriendEmails(u) = "yes" THEN <<"offline">> ELSE <<>>
    <3>1. <<>> \in Seq(Event) /\ <<"offline">> \in Seq(Event)
      BY DEF Event
    <3>2. QED
      BY <3>1
  <2>3. PICK changed \in Seq(Event) :
            changed = IF told /\ u \in friends THEN <<"changed">> ELSE <<>>
    BY HasNone
  <2>4. down'[x] = IF sock[x] = "up" THEN down[x] \o offline \o changed ELSE down[x]
    BY <1>5, <2>2, <2>3 DEF Deleted
  <2>5. down[x] \in Seq(Event) /\ down[x] \o offline \in Seq(Event)
    BY HasMore DEF FriendsFit, FriendsInv, TypeOK
  <2>6. PICK d \in Seq(Event) : d = down[x] \o offline
    BY <2>5
  <2>7. Told(x) => Told(x)'
    <3>1. Has(down[x]) => Has(d)
      BY <2>5, <2>6, HasMore
    <3>2. Has(d) => Has(d \o changed)
      BY HasMore
    <3>3. QED
      BY <2>4, <2>6, <3>1, <3>2 DEF Told
  <2>8. CASE u \in friends
    <3>1. sock[x] = "up" /\ told => Told(x)'
      BY <2>3, <2>4, <2>6, <2>8, HasMore, HasNone DEF Told
    <3>2. x \in astray' \/ Told(x)'
      BY <1>3, <3>1
    <3>3. QED
      BY <1>3, <2>1, <3>2, ListTold
  <2>9. CASE u \notin friends
    <3>1. FriendsOf(UserOf[x])' = FriendsOf(UserOf[x])
      BY <1>2, <2>1, <2>9 DEF FriendsOf, FriendsFit, RowsFit
    <3>2. QED
      BY <1>2, <1>3, <2>1, <2>7, <3>1, ListKept
  <2>10. QED
    BY <2>8, <2>9
<1>6. QED
  BY <1>4, <1>5

\* Who asks will have an answer.
LEMMA AskLists ==
    ASSUME FriendsFit, ListsFit, NEW t \in Tabs, JoinDirect(t) \/ Hear(t)
    PROVE  ListsFit'
<1>1. SUFFICES ASSUME NEW x \in Tabs PROVE ListFits(x)'
  BY DEF ListsFit
<1>2. UNCHANGED <<friends, name, gone, sock, list, seen, astray, changes>>
  BY Hearing DEF JoinDirect, table, history
<1>3. flights' = flights \/ flights' = [flights EXCEPT ![t] = Append(@, Asked)]
  BY Hearing DEF JoinDirect, Refused, Ask
<1>4. /\ \A i \in DOMAIN flights[x] : i \in DOMAIN flights'[x] /\ flights'[x][i] = flights[x][i]
      /\ \A i \in DOMAIN flights'[x] :
            flights'[x][i] = Asked \/ (i \in DOMAIN flights[x] /\ flights'[x][i] = flights[x][i])
      /\ flights' # flights => \E n \in DOMAIN flights'[t] : flights'[t][n] = Asked
  BY <1>3, OneAsked
<1>5. FriendsOf(UserOf[x])' = FriendsOf(UserOf[x]) /\ ListFits(x)
  BY <1>2, SameRows, LimitsAssumption DEF Limits, ListsFit
<1>6. Told(x) => Told(x)' \/ Awaits(x)'
  <2>1. CASE JoinDirect(t)
    BY <2>1 DEF JoinDirect, Told
  <2>2. CASE Hear(t) /\ x # t
    BY <2>2, Hearing DEF Told, FriendsFit, FriendsInv, TypeOK
  <2>3. CASE Hear(t) /\ x = t
    <3>1. PICK s \in Seq(Event) : s = down[t] /\ s # <<>>
      BY <2>3, Hearing
    <3>2. down'[t] = Tail(s)
      BY <2>3, <3>1, Hearing DEF FriendsFit, FriendsInv, TypeOK
    <3>3. CASE Head(s) # "changed"
      BY <2>3, <3>1, <3>2, <3>3, HasTail DEF Told
    <3>4. CASE Head(s) = "changed"
      <4>1. flights' = [flights EXCEPT ![t] = Append(@, Asked)]
        BY <2>3, <3>1, <3>4, Hearing
      <4>2. PICK f \in Flight : f = Asked
        BY Shows DEF FriendsFit, FriendsInv
      <4>3. flights' = [flights EXCEPT ![t] = Append(@, f)]
        BY <4>1, <4>2
      <4>4. \E n \in DOMAIN flights'[t] : flights'[t][n] = f
        BY <4>3, OneMore
      <4>5. QED
        BY <2>3, <4>2, <4>4 DEF Awaits
    <3>5. QED
      BY <3>3, <3>4
  <2>4. QED
    BY <2>1, <2>2, <2>3
<1>7. \A k : RightSince(x, k) => RightSince(x, k)'
  BY <1>4, <1>5 DEF RightSince
<1>8. Awaits(x) => Awaits(x)'
  BY <1>4 DEF Awaits
<1>9. Settled(x) => Settled(x)'
  BY <1>2, <1>4, <1>5, <1>7 DEF Settled
<1>10. QED
  BY <1>2, <1>5, <1>6, <1>7, <1>8, <1>9 DEF ListFits

LEMMA AnswerLists ==
    ASSUME FriendsFit, ListsFit, NEW t \in Tabs, NEW i \in DOMAIN flights[t], Answer(t, i)
    PROVE  ListsFit'
<1>1. SUFFICES ASSUME NEW x \in Tabs PROVE ListFits(x)'
  BY DEF ListsFit
<1>2. UNCHANGED <<friends, name, gone, sock, down, list, seen, astray, changes>>
  BY Answering
<1>3. FriendsOf(UserOf[x])' = FriendsOf(UserOf[x]) /\ ListFits(x)
  BY <1>2, SameRows, LimitsAssumption DEF Limits, ListsFit
<1>4. CASE x # t
  <2>1. flights'[x] = flights[x] /\ (Told(x) => Told(x)')
    BY <1>2, <1>4, Answering DEF Told
  <2>2. QED
    BY <1>2, <1>3, <2>1, ListKept
<1>5. CASE x = t /\ sock[t] # "out"
  <2>1. /\ flights'[t][i].shows = FriendsOf(UserOf[t])' /\ flights'[t][i].asOf = changes
        /\ flights'[t][i] # Asked
        /\ DOMAIN flights'[t] = DOMAIN flights[t]
        /\ \A j \in DOMAIN flights[t] : j # i => flights'[t][j] = flights[t][j]
    BY <1>3, <1>5, Answering
  <2>2. RightSince(t, changes)'
    BY <1>2, <1>3, <1>5, <2>1 DEF ListFits, RightSince
  <2>3. seen[t] <= changes /\ changes \in 0..changes
    BY Counted DEF FriendsFit, FriendsInv, TabsFit
  <2>4. Settled(t)'
    BY <1>2, <2>1, <2>2, <2>3 DEF Settled
  <2>5. QED
    BY <1>5, <2>2, <2>4 DEF ListFits
<1>6. CASE x = t /\ sock[t] = "out"
  BY <1>2, <1>6 DEF ListFits
<1>7. QED
  BY <1>4, <1>5, <1>6

-----------------------------------------------------------------------------

LEMMA TakeLists ==
    ASSUME FriendsFit, ListsFit, NEW t \in Tabs, NEW i \in DOMAIN flights[t], Take(t, i)
    PROVE  ListFits(t)'
<1> SUFFICES ASSUME sock'[t] # "out" PROVE ListFits(t)'
  BY DEF ListFits
<1>1. PICK got \in Flight : got = flights[t][i] /\ got # Asked /\ got.asOf \in Nat
  BY Dated DEF Take, FriendsFit, FriendsInv
<1>2. /\ list'[t] = got.shows /\ seen'[t] = got.asOf
      /\ UNCHANGED <<friends, name, gone, down, changes>>
      /\ sock[t] # "out"
      /\ got.asOf # changes => astray \subseteq astray'
      /\ got.asOf # changes /\ got.asOf < seen[t] => t \in astray'
  BY <1>1 DEF Take, table, FriendsFit, FriendsInv, TypeOK
<1>3. FriendsOf(UserOf[t])' = FriendsOf(UserOf[t])
  BY <1>2, SameRows
<1>4. /\ \A j \in DOMAIN flights[t] : j # i => \E m \in DOMAIN flights'[t] : flights'[t][m] = flights[t][j]
      /\ \A m \in DOMAIN flights'[t] : \E j \in DOMAIN flights[t] : j # i /\ flights'[t][m] = flights[t][j]
  <2>1. flights' = [flights EXCEPT ![t] = RemoveAt(@, i)]
    BY DEF Take
  <2>2. FriendsFit
    OBVIOUS
  <2>3. QED
    BY <2>1, <2>2, OneLess
<1>5. \A k : RightSince(t, k) => RightSince(t, k)'
  BY <1>3, <1>4 DEF RightSince
<1>6. RightSince(t, changes) /\ (t \in astray \/ Told(t) \/ Awaits(t) \/ Settled(t))
  BY <1>2 DEF ListsFit, ListFits
<1>7. RightSince(t, changes)'
  BY <1>2, <1>5, <1>6
<1>8. changes \in Nat /\ seen[t] \in Nat /\ seen[t] <= changes /\ got.asOf <= changes
  <2>1. changes \in Nat
    BY Counted DEF FriendsFit, FriendsInv
  <2>2. seen[t] \in 0..MaxActs /\ MaxActs \in Nat
    BY LimitsAssumption DEF FriendsFit, FriendsInv, TypeOK, Limits
  <2>3. QED
    BY <1>1, <2>1, <2>2 DEF FriendsFit, TabsFit
<1>9. ASSUME NEW k \in 0..changes, RightSince(t, k), k <= got.asOf
      PROVE  ListFits(t)'
  <2>1. list'[t] = FriendsOf(UserOf[t])'
    BY <1>1, <1>2, <1>3, <1>9 DEF RightSince
  <2>2. RightSince(t, got.asOf)'
    <3>1. RightSince(t, got.asOf)
      <4>1. \A j \in DOMAIN flights[t] : flights[t][j].asOf \in Nat
        BY Dated DEF FriendsFit, FriendsInv
      <4>2. QED
        BY <1>1, <1>9, <4>1 DEF RightSince
    <3>2. QED
      BY <1>5, <3>1
  <2>3. got.asOf \in 0..changes' /\ seen'[t] <= got.asOf
    BY <1>1, <1>2, <1>8
  <2>4. Settled(t)'
    BY <1>2, <2>1, <2>2, <2>3 DEF Settled
  <2>5. QED
    BY <1>7, <2>4 DEF ListFits
<1>10. CASE got.asOf = changes
  BY <1>6, <1>8, <1>9, <1>10
<1>11. CASE got.asOf # changes
  <2>1. CASE got.asOf < seen[t]
    BY <1>2, <1>7, <1>11, <2>1 DEF ListFits
  <2>2. CASE t \in astray \/ Told(t)
    BY <1>2, <1>7, <1>11, <2>2 DEF ListFits, Told
  <2>3. CASE Awaits(t)
    <3>1. PICK j \in DOMAIN flights[t] : j # i /\ flights[t][j] = Asked
      BY <1>1, <2>3 DEF Awaits
    <3>2. Awaits(t)'
      BY <1>4, <3>1 DEF Awaits
    <3>3. QED
      BY <1>7, <3>2 DEF ListFits
  <2>4. CASE ~(got.asOf < seen[t]) /\ Settled(t)
    <3>1. PICK k \in 0..changes :
              /\ seen[t] <= k /\ RightSince(t, k)
              /\ \/ k = seen[t] /\ list[t] = FriendsOf(UserOf[t])
                 \/ \E j \in DOMAIN flights[t] : flights[t][j] # Asked /\ flights[t][j].asOf = k
      BY <2>4 DEF Settled
    <3>2. CASE k <= got.asOf
      BY <1>9, <3>1, <3>2
    <3>3. CASE ~(k <= got.asOf)
      <4>1. k # seen[t] /\ got.asOf <= k
        BY <1>1, <1>8, <2>4, <3>3
      <4>2. PICK j \in DOMAIN flights[t] : flights[t][j] # Asked /\ flights[t][j].asOf = k
        BY <3>1, <4>1
      <4>3. j # i
        BY <1>1, <3>3, <4>2
      <4>4. PICK m \in DOMAIN flights'[t] : flights'[t][m] = flights[t][j]
        BY <1>4, <4>3
      <4>5. RightSince(t, k)' /\ seen'[t] <= k /\ k \in 0..changes'
        BY <1>2, <1>5, <3>1, <4>1
      <4>6. Settled(t)'
        BY <4>2, <4>4, <4>5 DEF Settled
      <4>7. QED
        BY <1>7, <4>6 DEF ListFits
    <3>4. QED
      BY <3>2, <3>3
  <2>5. QED
    BY <1>6, <2>1, <2>2, <2>3, <2>4
<1>12. QED
  BY <1>10, <1>11

LEMMA TakeOrFailLists ==
    ASSUME FriendsFit, ListsFit, NEW t \in Tabs, NEW i \in DOMAIN flights[t], Take(t, i) \/ Fail(t, i)
    PROVE  ListsFit'
<1>1. SUFFICES ASSUME NEW x \in Tabs PROVE ListFits(x)'
  BY DEF ListsFit
<1>2. CASE x # t
  <2>1. flights'[x] = flights[x]
    BY <1>2 DEF Take, Fail, FriendsFit, FriendsInv, TypeOK
  <2>2. /\ UNCHANGED <<friends, name, gone, down, changes>>
        /\ sock'[x] = sock[x] /\ list'[x] = list[x] /\ seen'[x] = seen[x]
        /\ x \in astray => x \in astray'
    BY <1>2 DEF Take, Fail, table, FriendsFit, FriendsInv, TypeOK
  <2>3. FriendsOf(UserOf[x])' = FriendsOf(UserOf[x])
    BY <2>2, SameRows
  <2>4. ListFits(x) /\ (x \in astray \/ Told(x) => x \in astray' \/ Told(x)')
    BY <2>2 DEF ListsFit, Told
  <2>5. QED
    BY <2>1, <2>2, <2>3, <2>4, ListKept
<1>3. CASE x = t /\ Take(t, i)
  BY <1>3, TakeLists
<1>4. CASE x = t /\ Fail(t, i)
  <2>1. /\ UNCHANGED <<friends, name, gone, changes, sock>> /\ t \in astray'
        /\ flights' = [flights EXCEPT ![t] = RemoveAt(@, i)]
    BY <1>4 DEF Fail, table
  <2>2. FriendsOf(UserOf[t])' = FriendsOf(UserOf[t])
    BY <2>1, SameRows
  <2>3. FriendsFit
    OBVIOUS
  <2>4. \A m \in DOMAIN flights'[t] : \E j \in DOMAIN flights[t] : j # i /\ flights'[t][m] = flights[t][j]
    BY <2>1, <2>3, OneLess
  <2>5. sock[t] # "out" => RightSince(t, changes)'
    BY <2>1, <2>2, <2>4 DEF RightSince, ListsFit, ListFits
  <2>6. QED
    BY <1>4, <2>1, <2>5 DEF ListFits
<1>5. QED
  BY <1>2, <1>3, <1>4

LEMMA InitLists == ASSUME Init PROVE ListsFit
<1>1. SUFFICES ASSUME NEW t \in Tabs PROVE ListFits(t)
  BY DEF ListsFit
<1>2. changes = 0 /\ seen[t] = 0
  BY DEF Init
<1>3. CASE t \in Fresh
  <2>1. flights[t] = <<Asked>>
    BY <1>3 DEF Init
  <2>2. 1 \in DOMAIN flights[t] /\ \A i \in DOMAIN flights[t] : flights[t][i] = Asked
    BY <2>1
  <2>3. RightSince(t, changes) /\ Awaits(t)
    BY <2>2 DEF RightSince, Awaits
  <2>4. QED
    BY <2>3 DEF ListFits
<1>4. CASE t \notin Fresh
  <2>1. flights[t] = <<>> /\ list[t] = FriendsOf(UserOf[t])
    BY <1>4 DEF Init
  <2>2. \A k : RightSince(t, k)
    BY <2>1 DEF RightSince
  <2>3. Settled(t)
    BY <1>2, <2>1, <2>2 DEF Settled
  <2>4. QED
    BY <2>2, <2>3 DEF ListFits
<1>5. QED
  BY <1>3, <1>4

LEMMA ListsStep == FriendsFit /\ ListsFit /\ [Next]_vars => ListsFit'
<1> SUFFICES ASSUME FriendsFit, ListsFit, [Next]_vars PROVE ListsFit'
  OBVIOUS
<1>1. CASE UNCHANGED vars
  BY <1>1 DEF vars, table, history, ListsFit, ListFits, RightSince, Told, Awaits, Settled, FriendsOf, Found, FriendView
<1>2. CASE \E t \in Tabs :
              \/ PresenceAdd(t) \/ Break(t) \/ PresenceRemove(t)
              \/ \E hard \in BOOLEAN : EndFriendship(t, hard)
              \/ JoinDirect(t) \/ Hear(t)
              \/ \E i \in DOMAIN flights[t] : Answer(t, i) \/ Take(t, i) \/ Fail(t, i)
  BY <1>2, PresenceAddLists, BreakOrRestartLists, PresenceRemoveLists, EndFriendshipLists, AskLists,
     AnswerLists, TakeOrFailLists
<1>3. CASE \E u \in Users :
              \/ Expire(u) \/ Reveal(u) \/ RevealOfDeleted(u)
              \/ BlockInChat(u) \/ Report(u) \/ Rename(u)
              \/ DeleteMe(u) \/ AdminDelete(u)
  BY <1>3, QuietStepsLists, RevealOfDeletedLists, ChatStepsLists, RenameLists, DeletedLists
     DEF DeleteMe, AdminDelete
<1>4. CASE Restart \/ Meet
  BY <1>4, BreakOrRestartLists, QuietStepsLists
<1>5. QED
  BY <1>1, <1>2, <1>3, <1>4 DEF Next

\* App.jsx:68: what a settled tab shows of its owner's friends is what the
\* table says, but for the tabs that are astray.
THEOREM ListIsAlwaysRight == Spec => []ListIsRight
<1>1. Init => FriendsFit /\ ListsFit
  BY InitFits, InitLists
<1>2. FriendsFit /\ ListsFit /\ [Next]_vars => FriendsFit' /\ ListsFit'
  BY FitsStep, ListsStep
<1>3. FriendsFit /\ ListsFit => ListIsRight
  <2>1. SUFFICES ASSUME FriendsFit, ListsFit, NEW t \in Tabs, t \notin astray, Quiet(t)
                 PROVE  list[t] = FriendsOf(UserOf[t])
    BY DEF ListIsRight
  <2>2. ~Told(t) /\ ~Awaits(t) /\ sock[t] # "out" /\ DOMAIN flights[t] = {}
    BY <2>1 DEF Quiet, Told, Has, Awaits
  <2>3. Settled(t)
    BY <2>1, <2>2 DEF ListsFit, ListFits
  <2>4. QED
    BY <2>2, <2>3 DEF Settled
<1>4. QED
  BY <1>1, <1>2, <1>3, PTL DEF Spec

-----------------------------------------------------------------------------
(* The dots.                                                               *)

\* Whether what is on its way to a tab leaves its dot as presence has it.
DotFits(t) ==
    LET u == UserOf[t]
    IN  sock[t] = "up" /\ FriendsOf(u) # Hidden /\ u \notin absent
          => Ends(down[t], dot[t], Online(Partner[u]))
DotsFit == \A t \in Tabs : DotFits(t)

\* Who sees the other has a row for them, as has the other.
LEMMA Seen ==
    ASSUME FriendsFit, NEW u \in Users
    PROVE  FriendsOf(u) # Hidden <=> friends = Users /\ Partner[u] \notin gone
<1>1. Partner[u] \in Users
  BY Pairs
<1>2. name[Partner[u]] \in Shown /\ name[Partner[u]] # Hidden
  BY <1>1, LimitsAssumption DEF FriendsFit, FriendsInv, TypeOK, Shown, Limits
<1>3. friends \in {{}, Users}
  BY DEF FriendsFit, RowsFit
<1>4. QED
  BY <1>2, <1>3 DEF FriendsOf, FriendView, Found

LEMMA SeenBoth ==
    ASSUME FriendsFit, NEW t \in Tabs, sock[t] = "up", FriendsOf(UserOf[t]) # Hidden
    PROVE  FriendEmails(UserOf[t]) = "yes" /\ FriendEmails(Partner[UserOf[t]]) = "yes"
<1>1. PICK u \in Users, p \in Users : u = UserOf[t] /\ p = Partner[u] /\ Partner[p] = u
  BY Pairs, LimitsAssumption DEF Limits
<1>2. u \notin gone /\ p \notin gone /\ friends = Users
  BY <1>1, Seen DEF FriendsFit, TabsFit
<1>3. Row(u) = "yes" /\ Row(p) = "yes"
  BY <1>2 DEF Row
<1>4. QED
  BY <1>1, <1>2, <1>3, Exact DEF FriendsFit

LEMMA DotKept ==
    ASSUME FriendsFit, NEW t \in Tabs, DotFits(t),
           sock'[t] = "up" => sock[t] = "up",
           FriendsOf(UserOf[t])' # Hidden => FriendsOf(UserOf[t]) # Hidden,
           UserOf[t] \in absent => UserOf[t] \in absent',
           Online(Partner[UserOf[t]])' <=> Online(Partner[UserOf[t]]),
           dot'[t] = dot[t],
           \/ down'[t] = down[t]
           \/ down'[t] = down[t] \o <<>>
           \/ down'[t] = down[t] \o <<"changed">>
    PROVE  DotFits(t)'
<1> SUFFICES ASSUME sock'[t] = "up", FriendsOf(UserOf[t])' # Hidden, UserOf[t] \notin absent'
             PROVE  Ends(down'[t], dot'[t], Online(Partner[UserOf[t]])')
  BY DEF DotFits
<1>1. Ends(down[t], dot[t], Online(Partner[UserOf[t]]))
  BY DEF DotFits
<1>2. PICK b \in BOOLEAN : b = Online(Partner[UserOf[t]])
  BY DEF Online
<1>3. PICK s \in Seq(Event) : s = down[t]
  BY DEF FriendsFit, FriendsInv, TypeOK
<1>4. Ends(s, dot[t], b) /\ Online(Partner[UserOf[t]])' = b
  BY <1>1, <1>2, <1>3 DEF Online
<1>5. Ends(s \o <<>>, dot[t], b) /\ Ends(s \o <<"changed">>, dot[t], b)
  BY <1>4, NothingMore, ChangedMore
<1>6. QED
  BY <1>3, <1>4, <1>5

\* The newest event says what is the case.
LEMMA DotTold ==
    ASSUME NEW t \in Tabs, NEW s \in Seq(Event), NEW e \in Event, e # "changed",
           down'[t] = s \o <<e>>, Says(e) <=> Online(Partner[UserOf[t]])'
    PROVE  DotFits(t)'
<1>1. PICK b \in BOOLEAN : b = Online(Partner[UserOf[t]])'
  BY DEF Online
<1>2. Ends(s \o <<e>>, dot'[t], b)
  BY <1>1, NewsLast
<1>3. QED
  BY <1>1, <1>2 DEF DotFits

LEMMA PresenceAddDots ==
    ASSUME FriendsFit, DotsFit, NEW t \in Tabs, PresenceAdd(t) PROVE DotsFit'
<1>1. SUFFICES ASSUME NEW x \in Tabs, sock'[x] = "up", FriendsOf(UserOf[x])' # Hidden,
                      UserOf[x] \notin absent'
               PROVE  DotFits(x)'
  BY DEF DotsFit, DotFits
<1>2. PICK u \in Users, p \in Users :
          u = UserOf[t] /\ p = Partner[u] /\ p # u /\ Partner[p] = u /\ Users = {u, p}
  BY Pairs, LimitsAssumption DEF Limits
<1>3. /\ sock[t] = "down" /\ sock' = [sock EXCEPT ![t] = "up"]
      /\ UNCHANGED <<friends, gone, name, ghosts, dot>>
      /\ absent' = IF Online(u) THEN absent ELSE absent \ {p}
  BY <1>2 DEF PresenceAdd, table
<1>4. /\ Online(p)' <=> Online(p)
      /\ Online(u)'
  BY <1>2, <1>3 DEF Online, TabsOf, FriendsFit, FriendsInv, TypeOK
<1>5. FriendsOf(UserOf[x]) # Hidden /\ UserOf[x] \in Users
  BY <1>1, <1>3, SameRows, LimitsAssumption DEF Limits
<1>6. DotFits(x)
  BY DEF DotsFit
<1>7. CASE x = t
  <2>1. PICK hello \in Event :
            hello = IF FriendEmails(u) = "yes" /\ Online(p) THEN "helloOn" ELSE "helloOff"
    BY DEF Event
  <2>2. down'[x] = <<hello>>
    BY <1>2, <1>7, <2>1 DEF PresenceAdd
  <2>3. <<>> \in Seq(Event) /\ <<>> \o <<hello>> = <<hello>>
    OBVIOUS
  <2>4. FriendEmails(u) = "yes"
    <3>1. u \notin gone
      BY <1>2, <1>3 DEF FriendsFit, TabsFit
    <3>2. friends = Users /\ p \notin gone
      BY <1>2, <1>5, <1>7, Seen
    <3>3. QED
      BY <1>2, <3>1, <3>2, Exact DEF FriendsFit, Row
  <2>5. hello # "changed" /\ (Says(hello) <=> Online(p)')
    BY <1>4, <2>1, <2>4 DEF Says
  <2>6. QED
    BY <1>2, <1>7, <2>2, <2>3, <2>5, DotTold
<1>8. CASE x # t /\ UserOf[x] = u
  <2>1. down'[x] = down[x] /\ sock[x] = "up"
    BY <1>1, <1>2, <1>3, <1>8 DEF PresenceAdd, FriendsFit, FriendsInv, TypeOK
  <2>2. u \in absent => u \in absent'
    BY <1>2, <1>3
  <2>3. dot'[x] = dot[x] /\ (Online(Partner[UserOf[x]])' <=> Online(Partner[UserOf[x]]))
    BY <1>2, <1>3, <1>4, <1>8
  <2>4. QED
    BY <1>5, <1>6, <1>8, <2>1, <2>2, <2>3, DotKept
<1>9. CASE x # t /\ UserOf[x] = p
  <2>1. sock[x] = "up"
    BY <1>1, <1>3, <1>9 DEF FriendsFit, FriendsInv, TypeOK
  <2>2. PICK news : news = IF ~Online(u) /\ FriendEmails(u) = "yes" THEN <<"online">> ELSE <<>>
    OBVIOUS
  <2>3. down'[x] = down[x] \o news
    BY <1>2, <1>9, <2>1, <2>2 DEF PresenceAdd
  <2>4. CASE Online(u)
    <3>1. down'[x] = down[x] \o <<>> /\ absent' = absent
      BY <1>3, <2>2, <2>3, <2>4
    <3>2. dot'[x] = dot[x] /\ (Online(Partner[UserOf[x]])' <=> Online(Partner[UserOf[x]]))
      BY <1>2, <1>3, <1>4, <1>9, <2>4
    <3>3. QED
      BY <1>5, <1>6, <2>1, <3>1, <3>2, DotKept
  <2>5. CASE ~Online(u)
    <3>1. FriendEmails(u) = "yes"
      BY <1>2, <1>5, <1>9, <2>1, SeenBoth
    <3>2. down'[x] = down[x] \o <<"online">>
      BY <2>2, <2>3, <2>5, <3>1
    <3>3. down[x] \in Seq(Event) /\ "online" \in Event /\ "online" # "changed" /\ Says("online")
      BY DEF FriendsFit, FriendsInv, TypeOK, Event, Says
    <3>4. Online(Partner[UserOf[x]])'
      BY <1>2, <1>4, <1>9
    <3>5. QED
      BY <3>2, <3>3, <3>4, DotTold
  <2>6. QED
    BY <2>4, <2>5
<1>10. QED
  BY <1>2, <1>5, <1>7, <1>8, <1>9

\* A broken connection counts until the server has noticed.
LEMMA BreakOrRestartDots ==
    ASSUME FriendsFit, DotsFit, Restart \/ \E t \in Tabs : Break(t) PROVE DotsFit'
<1>1. CASE Restart
  <2>1. \A x \in Tabs : sock'[x] # "up"
    BY <1>1 DEF Restart, FriendsFit, FriendsInv, TypeOK
  <2>2. QED
    BY <2>1 DEF DotsFit, DotFits
<1>2. ASSUME NEW t \in Tabs, Break(t), NEW x \in Tabs PROVE DotFits(x)'
  <2>1. /\ sock[t] = "up" /\ sock' = [sock EXCEPT ![t] = "down"] /\ ghosts' = ghosts \cup {t}
        /\ down' = [down EXCEPT ![t] = <<>>]
        /\ UNCHANGED <<friends, name, gone, dot, absent>>
    BY <1>2 DEF Break, table
  <2>2. CASE x = t
    <3>1. sock'[x] # "up"
      BY <2>1, <2>2 DEF FriendsFit, FriendsInv, TypeOK
    <3>2. QED
      BY <3>1 DEF DotFits
  <2>3. CASE x # t
    <3>1. sock'[x] = sock[x] /\ down'[x] = down[x]
      BY <2>1, <2>3 DEF FriendsFit, FriendsInv, TypeOK
    <3>2. ASSUME NEW v \in Users PROVE Online(v)' <=> Online(v)
      <4>1. \A y \in TabsOf[v] : sock'[y] = "up" \/ y \in ghosts' <=> sock[y] = "up" \/ y \in ghosts
        BY <2>1 DEF TabsOf, FriendsFit, FriendsInv, TypeOK
      <4>2. QED
        BY <4>1 DEF Online
    <3>3. Partner[UserOf[x]] \in Users /\ FriendsOf(UserOf[x])' = FriendsOf(UserOf[x])
      BY <2>1, Pairs, SameRows, LimitsAssumption DEF Limits
    <3>4. DotFits(x)
      BY DEF DotsFit
    <3>5. QED
      BY <2>1, <3>1, <3>2, <3>3, <3>4, DotKept
  <2>4. QED
    BY <2>2, <2>3
<1>3. QED
  BY <1>1, <1>2 DEF DotsFit

\* The last connection of a user makes the dots go out.
LEMMA PresenceRemoveDots ==
    ASSUME FriendsFit, DotsFit, NEW t \in Tabs, PresenceRemove(t) PROVE DotsFit'
<1>1. SUFFICES ASSUME NEW x \in Tabs, sock'[x] = "up", FriendsOf(UserOf[x])' # Hidden,
                      UserOf[x] \notin absent'
               PROVE  DotFits(x)'
  BY DEF DotsFit, DotFits
<1>2. PICK u \in Users, p \in Users :
          u = UserOf[t] /\ p = Partner[u] /\ p # u /\ Partner[p] = u /\ Users = {u, p}
  BY Pairs, LimitsAssumption DEF Limits
<1>3. PICK last \in BOOLEAN :
          /\ last <=> \A y \in TabsOf[u] : sock[y] # "up" /\ y \notin ghosts \ {t}
          /\ Removed(t, last)
  BY <1>2 DEF PresenceRemove
<1>4. /\ t \in ghosts /\ ghosts' = ghosts \ {t}
      /\ UNCHANGED <<friends, name, gone, sock, dot, absent>>
  BY <1>3 DEF Removed, table, history
<1>5. /\ Online(p)' <=> Online(p)
      /\ Online(u)
      /\ Online(u)' <=> ~last
  BY <1>2, <1>3, <1>4 DEF Online, TabsOf
<1>6. sock[x] = "up" /\ FriendsOf(UserOf[x])' = FriendsOf(UserOf[x]) /\ UserOf[x] \in Users /\ DotFits(x)
  BY <1>1, <1>4, SameRows, LimitsAssumption DEF DotsFit, Limits
<1>7. PICK what \in [Users -> Seq(Event)] :
          what = IF last /\ FriendEmails(u) = "yes" THEN To(p, "offline") ELSE Silence
  <2>1. "offline" \in Event
    BY DEF Event
  <2>2. QED
    BY <2>1, Messages
<1>8. EmitToUser(what)
  BY <1>2, <1>3, <1>7 DEF Removed
<1>9. down'[x] = down[x] \o what[UserOf[x]]
  BY <1>6, <1>8, Emitted DEF FriendsFit, FriendsInv
<1>10. CASE UserOf[x] = p /\ last
  <2>1. FriendEmails(u) = "yes"
    BY <1>1, <1>2, <1>6, <1>10, SeenBoth
  <2>2. "offline" \in Event /\ "offline" # "changed" /\ ~Says("offline")
    BY DEF Event, Says
  <2>3. what[p] = <<"offline">>
    BY <1>7, <1>10, <2>1, <2>2, Messages
  <2>4. down'[x] = down[x] \o <<"offline">> /\ down[x] \in Seq(Event)
    BY <1>9, <1>10, <2>3 DEF FriendsFit, FriendsInv, TypeOK
  <2>5. ~Online(Partner[UserOf[x]])'
    BY <1>2, <1>5, <1>10
  <2>6. QED
    BY <2>2, <2>4, <2>5, DotTold
<1>11. CASE ~(UserOf[x] = p /\ last)
  <2>1. what[UserOf[x]] = <<>>
    <3>1. "offline" \in Event
      BY DEF Event
    <3>2. CASE what = Silence
      BY <1>6, <3>2, Messages
    <3>3. CASE what = To(p, "offline") /\ last
      <4>1. PICK v \in Users : v = UserOf[x]
        BY <1>6
      <4>2. v # p
        BY <1>11, <3>3, <4>1
      <4>3. To(p, "offline")[v] = <<>>
        BY <3>1, <4>2, Messages
      <4>4. QED
        BY <3>3, <4>1, <4>3
    <3>4. QED
      BY <1>7, <3>2, <3>3
  <2>2. down'[x] = down[x] \o <<>>
    BY <1>9, <2>1
  <2>3. Online(Partner[UserOf[x]])' <=> Online(Partner[UserOf[x]])
    BY <1>2, <1>5, <1>6, <1>11
  <2>4. QED
    BY <1>4, <1>6, <2>2, <2>3, DotKept
<1>12. QED
  BY <1>10, <1>11

\* These change nothing the dots are about.
LEMMA QuietStepsDots ==
    ASSUME FriendsFit, DotsFit,
           \/ Meet \/ \E u \in Users : Expire(u)
           \/ \E t \in Tabs : \/ JoinDirect(t)
                              \/ \E i \in DOMAIN flights[t] : Answer(t, i) \/ Take(t, i) \/ Fail(t, i)
    PROVE  DotsFit'
<1>1. UNCHANGED <<friends, name, gone, ghosts, down, dot, absent>>
  BY DEF Meet, Expire, JoinDirect, Answer, Take, Fail, table, history
<1>2. \A x \in Tabs : sock'[x] = "up" <=> sock[x] = "up"
  BY DEF Meet, Expire, JoinDirect, Answer, Take, Fail, FriendsFit, FriendsInv, TypeOK
<1>3. SUFFICES ASSUME NEW x \in Tabs PROVE DotFits(x)'
  BY DEF DotsFit
<1>4. \A v \in Users : Online(v)' <=> Online(v)
  BY <1>1, <1>2 DEF Online, TabsOf
<1>5. Partner[UserOf[x]] \in Users /\ FriendsOf(UserOf[x])' = FriendsOf(UserOf[x]) /\ DotFits(x)
  BY <1>1, Pairs, SameRows, LimitsAssumption DEF Limits, DotsFit
<1>6. QED
  BY <1>1, <1>2, <1>4, <1>5, DotKept

\* Without the rows, or without the account, there is no dot.
LEMMA NoDots ==
    ASSUME friends' = {} PROVE DotsFit'
BY DEF DotsFit, DotFits, FriendsOf

LEMMA EndingDots ==
    ASSUME FriendsFit, DotsFit,
           \/ \E u \in Users : BlockInChat(u) \/ Report(u) \/ DeleteMe(u) \/ AdminDelete(u)
           \/ \E t \in Tabs, hard \in BOOLEAN : EndFriendship(t, hard)
    PROVE  DotsFit'
<1>1. friends' = {}
  BY DEF BlockInChat, Report, DeleteMe, AdminDelete, Deleted, EndFriendship, RemoveFriendship
<1>2. QED
  BY <1>1, NoDots

LEMMA RevealDots ==
    ASSUME FriendsFit, DotsFit, NEW u \in Users, Reveal(u) PROVE DotsFit'
<1>1. SUFFICES ASSUME NEW x \in Tabs, sock'[x] = "up", UserOf[x] \notin absent'
               PROVE  DotFits(x)'
  BY DEF DotsFit, DotFits
<1>2. /\ UNCHANGED <<sock, ghosts>> /\ absent' = {y \in Users : ~Online(Partner[y])}
      /\ UserOf[x] \in Users /\ down[x] \in Seq(Event)
  BY LimitsAssumption DEF Reveal, Limits, FriendsFit, FriendsInv, TypeOK
<1>3. Online(Partner[UserOf[x]]) /\ Online(Partner[UserOf[x]])'
  BY <1>1, <1>2 DEF Online
<1>4. PICK what : what = [y \in Users |-> IF Online(Partner[y]) THEN <<"changed", "online">> ELSE <<"changed">>]
  OBVIOUS
<1>5. what \in [Users -> Seq(Event)] /\ what[UserOf[x]] = <<"changed", "online">>
  BY <1>2, <1>3, <1>4, HasNone
<1>6. EmitToUser(what)
  BY <1>4 DEF Reveal
<1>7. down'[x] = down[x] \o <<"changed", "online">>
  BY <1>1, <1>2, <1>5, <1>6, Emitted DEF FriendsFit, FriendsInv
<1>8. PICK s \in Seq(Event) : s = down[x] \o <<"changed">>
  BY <1>2, HasMore, HasNone
<1>9. down'[x] = s \o <<"online">>
  BY <1>2, <1>7, <1>8
<1>10. "online" \in Event /\ "online" # "changed" /\ Says("online")
  BY DEF Event, Says
<1>11. QED
  BY <1>3, <1>9, <1>10, DotTold

LEMMA RevealOfDeletedDots ==
    ASSUME FriendsFit, DotsFit, NEW u \in Users, RevealOfDeleted(u) PROVE DotsFit'
<1>1. SUFFICES ASSUME NEW x \in Tabs, sock'[x] = "up", FriendsOf(UserOf[x])' # Hidden PROVE FALSE
  BY DEF DotsFit, DotFits
<1>2. Partner[u] \in gone /\ gone' = gone /\ sock' = sock
  BY DEF RevealOfDeleted
<1>3. UserOf[x] # u
  BY <1>1, <1>2 DEF FriendsOf, Found
<1>4. UserOf[x] = Partner[u]
  BY <1>3, Pairs, LimitsAssumption DEF Limits
<1>5. QED
  BY <1>1, <1>2, <1>4 DEF FriendsFit, TabsFit

LEMMA RenameDots ==
    ASSUME FriendsFit, DotsFit, FriendsFit', NEW u \in Users, Rename(u) PROVE DotsFit'
<1>1. SUFFICES ASSUME NEW x \in Tabs PROVE DotFits(x)'
  BY DEF DotsFit
<1>2. UNCHANGED <<friends, gone, sock, ghosts, dot, absent>> /\ UserOf[x] \in Users /\ DotFits(x)
  BY LimitsAssumption DEF Rename, DotsFit, Limits
<1>3. FriendsOf(UserOf[x])' # Hidden => FriendsOf(UserOf[x]) # Hidden
  <2>1. FriendsOf(UserOf[x])' # Hidden => UserOf[x] \in friends' /\ Partner[UserOf[x]] \notin gone'
    BY DEF FriendsOf, Found
  <2>2. friends \in {{}, Users}
    BY DEF FriendsFit, RowsFit
  <2>3. QED
    BY <1>2, <2>1, <2>2, Seen
<1>4. Online(Partner[UserOf[x]])' <=> Online(Partner[UserOf[x]])
  BY <1>2 DEF Online
<1>5. PICK p \in Users : p = Partner[u]
  BY Pairs
<1>6. PICK what \in [Users -> Seq(Event)] : what = IF u \in friends THEN FriendsChanged(p) ELSE Silence
  BY Messages
<1>7. EmitToUser(what)
  BY <1>5, <1>6 DEF Rename
<1>8. what[UserOf[x]] = <<>> \/ what[UserOf[x]] = <<"changed">>
  BY <1>2, <1>6, Messages
<1>9. down'[x] = down[x] \/ down'[x] = down[x] \o <<>> \/ down'[x] = down[x] \o <<"changed">>
  <2>1. \/ down'[x] = down[x] \o what[UserOf[x]]
        \/ down'[x] = down[x]
    <3>1. TypeOK
      BY DEF FriendsFit, FriendsInv
    <3>2. QED
      BY <1>7, <3>1, Emitted
  <2>2. QED
    BY <1>8, <2>1
<1>10. QED
  BY <1>2, <1>3, <1>4, <1>9, DotKept

LEMMA HearDots ==
    ASSUME FriendsFit, DotsFit, NEW t \in Tabs, Hear(t) PROVE DotsFit'
<1>1. SUFFICES ASSUME NEW x \in Tabs PROVE DotFits(x)'
  BY DEF DotsFit
<1>2. /\ UNCHANGED <<friends, name, gone, sock, ghosts, absent>>
      /\ sock[t] = "up" /\ down[t] # <<>> /\ down' = [down EXCEPT ![t] = Tail(@)]
  BY Hearing
<1>3. /\ FriendsOf(UserOf[x])' = FriendsOf(UserOf[x]) /\ DotFits(x)
      /\ Online(Partner[UserOf[x]])' <=> Online(Partner[UserOf[x]])
  BY <1>2, SameRows DEF DotsFit, Online
<1>4. CASE x # t
  <2>1. down'[x] = down[x] /\ dot'[x] = dot[x]
    BY <1>2, <1>4, Hearing DEF FriendsFit, FriendsInv, TypeOK
  <2>2. QED
    BY <1>2, <1>3, <2>1, DotKept
<1>5. CASE x = t
  <2>1. PICK s \in Seq(Event) : s = down[t] /\ s # <<>>
    BY Hearing
  <2>2. down'[t] = Tail(s)
    BY <1>2, <2>1 DEF FriendsFit, FriendsInv, TypeOK
  <2>3. dot'[t] = IF Head(s) = "changed" THEN dot[t] ELSE IF Says(Head(s)) THEN "on" ELSE "off"
    BY <2>1, Hearing DEF FriendsFit, FriendsInv, TypeOK
  <2>4. PICK b \in BOOLEAN : b = Online(Partner[UserOf[t]])
    BY DEF Online
  <2>5. b = Online(Partner[UserOf[t]])'
    BY <1>2, <2>4 DEF Online
  <2>6. ASSUME Ends(s, dot[t], b) PROVE Ends(down'[t], dot'[t], b)
    BY <2>1, <2>2, <2>3, <2>6, FirstHeard
  <2>7. QED
    BY <1>2, <1>3, <1>5, <2>1, <2>4, <2>5, <2>6 DEF DotFits
<1>6. QED
  BY <1>4, <1>5

LEMMA InitDots == ASSUME Init PROVE DotsFit
<1>1. SUFFICES ASSUME NEW t \in Tabs, sock[t] = "up", FriendsOf(UserOf[t]) # Hidden
               PROVE  DotFits(t)
  BY DEF DotsFit, DotFits
<1>2. t \notin Fresh /\ friends # {} /\ down[t] = <<>>
  BY <1>1 DEF Init, FriendsOf
<1>3. dot[t] = "on"
  BY <1>2 DEF Init
<1>4. Online(Partner[UserOf[t]])
  <2>1. PICK p \in Users : p = Partner[UserOf[t]]
    BY Pairs, LimitsAssumption DEF Limits
  <2>2. PICK y \in Tabs \ Fresh : UserOf[y] = p
    BY FreshAssumption
  <2>3. sock[y] = "up" /\ y \in TabsOf[p]
    BY <2>2 DEF Init, TabsOf
  <2>4. QED
    BY <2>1, <2>3 DEF Online
<1>5. QED
  BY <1>2, <1>3, <1>4 DEF DotFits, Ends

LEMMA DotsStep == FriendsFit /\ DotsFit /\ [Next]_vars => DotsFit'
<1> SUFFICES ASSUME FriendsFit, DotsFit, [Next]_vars PROVE DotsFit'
  OBVIOUS
<1>1. CASE UNCHANGED vars
  BY <1>1 DEF vars, table, history, DotsFit, DotFits, FriendsOf, Found, FriendView, Online
<1>2. FriendsFit'
  BY FitsStep
<1>3. CASE \E t \in Tabs :
              \/ PresenceAdd(t) \/ Break(t) \/ PresenceRemove(t)
              \/ \E hard \in BOOLEAN : EndFriendship(t, hard)
              \/ JoinDirect(t) \/ Hear(t)
              \/ \E i \in DOMAIN flights[t] : Answer(t, i) \/ Take(t, i) \/ Fail(t, i)
  BY <1>3, PresenceAddDots, BreakOrRestartDots, PresenceRemoveDots, EndingDots, QuietStepsDots, HearDots
<1>4. CASE \E u \in Users :
              \/ Expire(u) \/ Reveal(u) \/ RevealOfDeleted(u)
              \/ BlockInChat(u) \/ Report(u) \/ Rename(u)
              \/ DeleteMe(u) \/ AdminDelete(u)
  BY <1>2, <1>4, QuietStepsDots, RevealDots, RevealOfDeletedDots, EndingDots, RenameDots
<1>5. CASE Restart \/ Meet
  BY <1>5, BreakOrRestartDots, QuietStepsDots
<1>6. QED
  BY <1>1, <1>3, <1>4, <1>5 DEF Next

\* App.jsx:127: the dot of a friend in a settled tab is the presence the server
\* knows, but for those whose friend was away when the friendship was made.
THEOREM DotsAreAlwaysRight == Spec => []DotsAreRight
<1>1. Init => FriendsFit /\ DotsFit
  BY InitFits, InitDots
<1>2. FriendsFit /\ DotsFit /\ [Next]_vars => FriendsFit' /\ DotsFit'
  BY FitsStep, DotsStep
<1>3. FriendsFit /\ DotsFit => DotsAreRight
  <2>1. SUFFICES ASSUME DotsFit, NEW t \in Tabs, Quiet(t), FriendsOf(UserOf[t]) # Hidden,
                        UserOf[t] \notin absent
                 PROVE  dot[t] = "on" <=> Online(Partner[UserOf[t]])
    BY DEF DotsAreRight
  <2>2. down[t] = <<>> /\ Ends(down[t], dot[t], Online(Partner[UserOf[t]]))
    BY <2>1 DEF Quiet, DotsFit, DotFits
  <2>3. QED
    BY <2>2 DEF Ends
<1>4. QED
  BY <1>1, <1>2, <1>3, PTL DEF Spec

-----------------------------------------------------------------------------
(* Reports and suspensions (Moderation).                                   *)

LEMMA ModerationInitially == ModerationInit => ModerationHolds
<1>1. ModerationInit => ModerationTypeOK
    BY HoursAssumption, BoundAssumption DEF ModerationInit, ModerationTypeOK, Live, Both
<1>2. ModerationInit => SuspendedAreOut /\ ReportedAreBlocked
    BY DEF ModerationInit, SuspendedAreOut, ReportedAreBlocked
<1>3. QED
    BY <1>1, <1>2 DEF ModerationHolds

-----------------------------------------------------------------------------
(* Type correctness.                                                       *)

LEMMA SetBanType ==
    ASSUME ModerationTypeOK, NEW a \in Accounts, NEW n \in 0..Forever, SetBan(a, n)
    PROVE  /\ left' \in [Accounts -> 0..Forever]
           /\ deviceLeft' \in [Devices -> 0..Forever]
BY DEF ModerationTypeOK, SetBan

LEMMA LessType ==
    ASSUME NEW n \in 0..Forever
    PROVE  Less(n) \in 0..Forever /\ n - 1 <= Less(n) /\ Less(n) <= n
BY HoursAssumption DEF Less

LEMMA ModerationTypeStep == ModerationTypeOK /\ [ModerationNext]_moderationVars => ModerationTypeOK'
<1> SUFFICES ASSUME ModerationTypeOK, [ModerationNext]_moderationVars PROVE ModerationTypeOK'
    OBVIOUS
<1>0. AutoHours \in 0..Forever /\ Timeouts \cup {Forever} \subseteq 0..Forever /\ 0 \in 0..Forever
    BY HoursAssumption
<1>1. CASE UNCHANGED moderationVars
    BY <1>1 DEF moderationVars, bans, ModerationTypeOK, Live
<1>2. ASSUME NEW a \in Accounts, NEW d \in Devices \cup {NoDevice}, SignUp(a, d)
      PROVE  ModerationTypeOK'
    <2>1. lives[a] + 1 \in 0..MaxLives
        BY <1>2, BoundAssumption DEF SignUp, LivesOf, ModerationTypeOK
    <2>2. lives' \in [Accounts -> 0..MaxLives]
        BY <1>2, <2>1 DEF SignUp, ModerationTypeOK
    <2>3. QED
        BY <1>2, <2>2 DEF SignUp, bans, ModerationTypeOK, Live
<1>3. ASSUME NEW a \in Accounts, NEW d \in Devices \cup {NoDevice}, Login(a, d)
      PROVE  ModerationTypeOK'
    BY <1>3 DEF Login, bans, ModerationTypeOK, Live
<1>4. ASSUME NEW a \in Accounts, Connect(a) \/ Disconnect(a) PROVE ModerationTypeOK'
    BY <1>4 DEF Connect, Admitted, Disconnect, bans, ModerationTypeOK, Live
<1>5. ASSUME NEW a \in Accounts, Delete(a) PROVE ModerationTypeOK'
    <2>1. online' \subseteq Live'
        BY <1>5 DEF Delete, Authorised, ModerationTypeOK, Live
    <2>2. /\ status' \in [Accounts -> {"none", "live"}]
          /\ device' \in [Accounts -> Devices \cup {NoDevice}]
          /\ left' \in [Accounts -> 0..Forever]
          /\ acted' \subseteq Accounts /\ complained' \subseteq SUBSET Accounts
        BY <1>5, <1>0 DEF Delete, Authorised, ModerationTypeOK
    <2>3. blocks' \subseteq Both
        BY <1>5 DEF Delete, Authorised, Erase, ModerationTypeOK
    <2>4. reports' \in [Filed -> 0..Window]
        BY <1>5, HoursAssumption DEF Delete, Authorised, ModerationTypeOK
    <2>5. QED
        BY <1>5, <2>1, <2>2, <2>3, <2>4 DEF Delete, Authorised, ModerationTypeOK
<1>6. ASSUME NEW a \in Accounts, NEW n \in Timeouts \cup {Forever}, Suspend(a, n)
      PROVE  ModerationTypeOK'
    BY <1>6, <1>0, SetBanType DEF Suspend, Kick, ModerationTypeOK, Live
<1>7. ASSUME NEW a \in Accounts, Unban(a) PROVE ModerationTypeOK'
    BY <1>7, <1>0, SetBanType DEF Unban, ModerationTypeOK, Live
<1>8. ASSUME NEW r \in Accounts, NEW a \in Accounts, Pair(r, a) PROVE ModerationTypeOK'
    BY <1>8 DEF Pair, bans, ModerationTypeOK, Live, Both
<1>9. ASSUME NEW r \in Accounts, NEW a \in Accounts, FileReport(r, a) PROVE ModerationTypeOK'
    <2>1. /\ left' \in [Accounts -> 0..Forever]
          /\ deviceLeft' \in [Devices -> 0..Forever]
          /\ online' \subseteq online
        <3>1. CASE SetBan(a, AutoHours) /\ Kick(a)
            BY <3>1, <1>0, SetBanType DEF Kick
        <3>2. CASE UNCHANGED <<bans, online>>
            BY <3>2 DEF bans, ModerationTypeOK
        <3>3. QED
            BY <1>9, <3>1, <3>2 DEF FileReport
    <2>2. /\ met' \subseteq Both /\ blocks' \subseteq Both
          /\ complained' \subseteq SUBSET Accounts
        BY <1>9 DEF FileReport, BlockPair, ModerationTypeOK, Both
    <2>3. reports' \in [Filed -> 0..Window]
        <3>1. 0 \in 0..Window
            BY HoursAssumption
        <3>2. reports' = [reports EXCEPT ![<<<<r, lives[r]>>, a>>] = 0]
            BY <1>9 DEF FileReport
        <3>3. QED
            BY <3>1, <3>2 DEF ModerationTypeOK
    <2>4. QED
        BY <1>9, <2>1, <2>2, <2>3 DEF FileReport, ModerationTypeOK, Live
<1>10. CASE Tick
    <2>1. left' \in [Accounts -> 0..Forever] /\ deviceLeft' \in [Devices -> 0..Forever]
        BY <1>10, LessType DEF Tick, ModerationTypeOK
    <2>2. reports' \in [Filed -> 0..Window]
        BY <1>10, HoursAssumption DEF Tick, ModerationTypeOK
    <2>3. met' \subseteq Both
        BY <1>10 DEF Tick, ModerationTypeOK
    <2>4. QED
        BY <1>10, <2>1, <2>2, <2>3 DEF Tick, ModerationTypeOK, Live
<1>11. ASSUME NEW n \in Thresholds, SetThreshold(n) PROVE ModerationTypeOK'
    BY <1>11 DEF SetThreshold, bans, ModerationTypeOK, Live
<1>12. QED
    BY <1>1, <1>2, <1>3, <1>4, <1>5, <1>6, <1>7, <1>8, <1>9, <1>10, <1>11 DEF ModerationNext, Google, VerifyOtp, Register

-----------------------------------------------------------------------------
(* Who is suspended is out.                                                *)

LEMMA OutStep == ModerationHolds /\ [ModerationNext]_moderationVars => SuspendedAreOut'
<1> SUFFICES ASSUME ModerationTypeOK, SuspendedAreOut, [ModerationNext]_moderationVars PROVE SuspendedAreOut'
    BY DEF ModerationHolds
<1> USE DEF SuspendedAreOut
<1>1. CASE UNCHANGED moderationVars
    BY <1>1 DEF moderationVars, bans
<1>2. ASSUME NEW a \in Accounts, NEW d,
             SignUp(a, d) \/ Login(a, d) \/ Connect(a) \/ Disconnect(a)
      PROVE  SuspendedAreOut'
    BY <1>2 DEF SignUp, Login, Connect, Disconnect, Admitted, Banned, bans, ModerationTypeOK
<1>3. ASSUME NEW a \in Accounts, Delete(a) PROVE SuspendedAreOut'
    BY <1>3 DEF Delete, Authorised, ModerationTypeOK, Live
<1>4. ASSUME NEW a \in Accounts, NEW n \in Timeouts \cup {Forever}, Suspend(a, n)
      PROVE  SuspendedAreOut'
    BY <1>4 DEF Suspend, SetBan, Kick, ModerationTypeOK, Live
<1>5. ASSUME NEW a \in Accounts, Unban(a) PROVE SuspendedAreOut'
    BY <1>5 DEF Unban, SetBan, ModerationTypeOK, Live
<1>6. ASSUME NEW r \in Accounts, NEW a \in Accounts, Pair(r, a) PROVE SuspendedAreOut'
    BY <1>6 DEF Pair, bans
<1>7. ASSUME NEW r \in Accounts, NEW a \in Accounts, FileReport(r, a) PROVE SuspendedAreOut'
    <2>1. CASE SetBan(a, AutoHours) /\ Kick(a)
        BY <2>1 DEF SetBan, Kick, ModerationTypeOK, Live
    <2>2. CASE UNCHANGED <<bans, online>>
        BY <2>2 DEF bans
    <2>3. QED
        BY <1>7, <2>1, <2>2 DEF FileReport
<1>8. CASE Tick
    BY <1>8 DEF Tick, Less, ModerationTypeOK, Live
<1>9. ASSUME NEW n \in Thresholds, SetThreshold(n) PROVE SuspendedAreOut'
    BY <1>9 DEF SetThreshold, bans
<1>10. QED
    BY <1>1, <1>2, <1>3, <1>4, <1>5, <1>6, <1>7, <1>8, <1>9 DEF ModerationNext, Google, VerifyOtp, Register

-----------------------------------------------------------------------------
(* A reported pair does not meet again, while both keep the account.       *)

LEMMA BlockedStep == ModerationHolds /\ [ModerationNext]_moderationVars => ReportedAreBlocked'
<1> SUFFICES ASSUME ModerationTypeOK, ReportedAreBlocked, [ModerationNext]_moderationVars PROVE ReportedAreBlocked'
    BY DEF ModerationHolds
<1> USE DEF ReportedAreBlocked, Apart
<1>1. CASE UNCHANGED <<blocks, complained>>
    BY <1>1
<1>2. ASSUME NEW a \in Accounts, NEW d, SignUp(a, d) PROVE ReportedAreBlocked'
    BY <1>2 DEF SignUp
<1>3. ASSUME NEW a \in Accounts, Delete(a) PROVE ReportedAreBlocked'
    BY <1>3 DEF Delete, Authorised, Erase, ModerationTypeOK
<1>4. ASSUME NEW r \in Accounts, NEW a \in Accounts, FileReport(r, a) PROVE ReportedAreBlocked'
    <2>1. blocks \subseteq blocks' /\ <<r, a>> \in blocks'
        BY <1>4 DEF FileReport, BlockPair
    <2>2. complained' = complained \cup {{r, a}}
        BY <1>4 DEF FileReport
    <2>3. SUFFICES ASSUME NEW x \in Accounts, NEW y \in Accounts, {x, y} = {r, a}
                   PROVE  Apart(x, y)'
        BY <2>1, <2>2
    <2>4. (x = r /\ y = a) \/ (x = a /\ y = r)
        BY <2>3
    <2>5. QED
        BY <2>1, <2>4
<1>5. ASSUME NEW a \in Accounts, NEW r \in Accounts, NEW d, NEW n,
             \/ Login(a, d) \/ Connect(a) \/ Disconnect(a) \/ Suspend(a, n)
             \/ Unban(a) \/ Pair(r, a) \/ SetThreshold(n)
      PROVE  UNCHANGED <<blocks, complained>>
    BY <1>5 DEF Login, Connect, Disconnect, Suspend, Unban, Pair, SetThreshold
<1>6. Tick => UNCHANGED <<blocks, complained>>
    BY DEF Tick
<1>7. UNCHANGED moderationVars => UNCHANGED <<blocks, complained>>
    BY DEF moderationVars
<1>8. QED
    BY <1>1, <1>2, <1>3, <1>4, <1>5, <1>6, <1>7 DEF ModerationNext, Google, VerifyOtp, Register

\* Suspensions and blocks hold whatever order reports, admins, logins and deletions
\* come in.
THEOREM ModerationAlwaysHolds == ModerationSpec => []ModerationHolds
<1>1. ModerationHolds /\ [ModerationNext]_moderationVars => ModerationHolds'
    BY ModerationTypeStep, OutStep, BlockedStep DEF ModerationHolds
<1>2. QED
    BY ModerationInitially, <1>1, PTL DEF ModerationSpec

\* ModerationTypeOK is an invariant.
THEOREM ModerationTypeCorrect == ModerationSpec => []ModerationTypeOK
BY ModerationAlwaysHolds, PTL DEF ModerationHolds

\* index.js:50: nobody suspended has a connected socket.
THEOREM SuspendedAreAlwaysOut == ModerationSpec => []SuspendedAreOut
BY ModerationAlwaysHolds, PTL DEF ModerationHolds

\* README:39: two of whom one reported the other do not meet again while neither
\* deletes the account of then, whoever else is deleted and signs up again.
THEOREM ReportedAlwaysStayApart == ModerationSpec => ReportedStayApart
<1>1. ASSUME ModerationHolds, [ModerationNext]_moderationVars, NEW m \in met' \ met
      PROVE  {m[1], m[2]} \notin complained
    <2>1. PICK r \in Accounts, a \in Accounts : Pair(r, a)
        <3>1. ASSUME NEW x \in Accounts, NEW y \in Accounts, NEW d, NEW n,
                     \/ SignUp(x, d) \/ Login(x, d) \/ Connect(x) \/ Disconnect(x)
                     \/ Delete(x) \/ Unban(x) \/ Suspend(x, n) \/ FileReport(x, y)
              PROVE  met' \subseteq met
            BY <3>1 DEF SignUp, Login, Connect, Disconnect, Delete, Unban, Suspend, FileReport
        <3>2. Tick => met' \subseteq met
            BY DEF Tick
        <3>3. ASSUME NEW n, SetThreshold(n) PROVE met' \subseteq met
            BY <3>3 DEF SetThreshold
        <3>4. QED
            BY <1>1, <3>1, <3>2, <3>3 DEF ModerationNext, Google, VerifyOtp, Register, moderationVars
    <2>2. {m[1], m[2]} = {r, a}
        BY <1>1, <2>1 DEF Pair
    <2>3. ~Apart(r, a)
        BY <2>1 DEF Pair
    <2>4. QED
        BY <1>1, <2>2, <2>3 DEF ModerationHolds, ReportedAreBlocked
<1>2. ModerationHolds /\ [ModerationNext]_moderationVars =>
        [\A m \in met' \ met : {m[1], m[2]} \notin complained]_moderationVars
    BY <1>1
<1>3. QED
    BY <1>2, ModerationAlwaysHolds, PTL DEF ModerationSpec, ReportedStayApart

\* A running suspension ends by the clock or by an admin, whatever is reported.
THEOREM ReportsAlwaysKeepSuspensions == ModerationSpec => ReportsKeepSuspensions
<1> DEFINE Kept == \A a \in Accounts :
                left'[a] < left[a] - 1 \/ (left[a] > 0 /\ left'[a] > left[a]) => a \in acted'
<1>1. ASSUME ModerationTypeOK, ModerationNext PROVE Kept
    <2>0. \A a \in Accounts : left[a] \in 0..Forever /\ left[a] \in Int
        BY <1>1 DEF ModerationTypeOK
    <2>1. CASE left' = left
        BY <2>0, <2>1
    <2>2. ASSUME NEW a \in Accounts, NEW n, Suspend(a, n) \/ Unban(a) \/ Delete(a)
          PROVE  Kept
        <3>1. a \in acted' /\ \A b \in Accounts : b # a => left'[b] = left[b]
            BY <1>1, <2>2 DEF Suspend, Unban, Delete, SetBan, ModerationTypeOK
        <3>2. QED
            BY <2>0, <3>1
    <2>3. ASSUME NEW r \in Accounts, NEW a \in Accounts, FileReport(r, a) PROVE Kept
        <3>1. CASE Due(a) /\ SetBan(a, AutoHours)
            <4>1. left[a] = 0 /\ left'[a] = AutoHours
                BY <1>1, <3>1 DEF Due, SetBan, ModerationTypeOK
            <4>2. \A b \in Accounts : b # a => left'[b] = left[b]
                BY <1>1, <3>1 DEF SetBan, ModerationTypeOK
            <4>3. AutoHours \in Nat
                BY HoursAssumption
            <4>4. QED
                BY <2>0, <4>1, <4>2, <4>3
        <3>2. CASE left' = left
            BY <2>1, <3>2
        <3>3. QED
            BY <2>3, <3>1, <3>2 DEF FileReport, bans
    <2>4. CASE Tick
        <3>1. \A a \in Accounts : left'[a] \in Int /\ left[a] - 1 <= left'[a] /\ left'[a] <= left[a]
            BY <2>0, <2>4, LessType DEF Tick
        <3>2. QED
            BY <2>0, <3>1
    <2>5. ASSUME NEW a \in Accounts, NEW r \in Accounts, NEW d,
                 \/ SignUp(a, d) \/ Login(a, d) \/ Connect(a) \/ Disconnect(a) \/ Pair(r, a)
          PROVE  Kept
        BY <2>1, <2>5 DEF SignUp, Login, Connect, Disconnect, Pair, bans
    <2>6. ASSUME NEW n, SetThreshold(n) PROVE Kept
        BY <2>1, <2>6 DEF SetThreshold, bans
    <2>7. QED
        BY <1>1, <2>2, <2>3, <2>4, <2>5, <2>6 DEF ModerationNext, Google, VerifyOtp, Register
<1>2. ModerationTypeOK /\ [ModerationNext]_moderationVars => [Kept]_moderationVars
    BY <1>1
<1>3. QED
    BY <1>2, ModerationTypeCorrect, PTL DEF ModerationSpec, ReportsKeepSuspensions
=============================================================================
