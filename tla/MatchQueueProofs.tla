--------------------------- MODULE MatchQueueProofs ---------------------------
(***************************************************************************)
(* Machine-checked proofs about MatchQueue: every invariant the runs check *)
(* and both action properties, for any users, sockets, filters and delays. *)
(***************************************************************************)
EXTENDS MatchQueue, TLAPS

\* The pair of owners of two sockets of different users is a pair.
LEMMA OwnersArePair ==
    ASSUME NEW s \in Sockets, NEW t \in Sockets, OwnerOf[s] # OwnerOf[t]
    PROVE  OwnersOf({s, t}) \in Pairs
<1>1. OwnersOf({s, t}) = {OwnerOf[s], OwnerOf[t]}
  BY DEF OwnersOf
<1>2. OwnerOf[s] \in Users /\ OwnerOf[t] \in Users
  BY OwnerAssumption
<1> QED
  BY <1>1, <1>2 DEF Pairs

LEMMA MaxAgeType == MaxAge \in Nat /\ PrefFallback <= MaxAge
  BY DelayAssumption DEF MaxAge

LEMMA AgedType ==
    ASSUME NEW e \in Entry
    PROVE  /\ Aged(e) \in Entry
           /\ Aged(e).sock = e.sock /\ Aged(e).interests = e.interests
           /\ Aged(e).age = Older(e.age, MaxAge)
  BY MaxAgeType DEF Aged, Entry, Older

\* Every step leaves the queue alone or shrinks it, except the two that
\* append a new search and let time pass.
Shrinks == \E S \in SUBSET Queued : Keep(S)
Appends ==
    \E s \in Sockets, i \in InterestSets, S \in SUBSET Queued :
        /\ \A t \in S : OwnerOf[t] # OwnerOf[s]
        /\ waiting' = [t \in S \cup {s} |->
                 IF t = s THEN NewEntry(s, i)
                          ELSE waiting[t]]
        /\ before' = (before \cap (S \X S)) \cup (S \X {s})

LEMMA AddSteps ==
    ASSUME NEW s \in Sockets, NEW i \in InterestSets, Add(s, i)
    PROVE  Shrinks \/ Appends
<1> DEFINE e == NewEntry(s, i)
           own == EntriesOf(OwnerOf[s])
           kept == Queued \ (own \cup Dead(e))
<1>1. CASE \E p \in Queued : Drop(own \cup {p} \cup DeadBefore(e, p))
  BY <1>1 DEF Shrinks, Drop
<1>2. CASE /\ waiting' = [t \in kept \cup {s} |-> IF t = s THEN e ELSE waiting[t]]
           /\ before' = (before \cap (kept \X kept)) \cup (kept \X {s})
  <2>1. kept \in SUBSET Queued /\ \A t \in kept : OwnerOf[t] # OwnerOf[s]
    BY DEF EntriesOf
  <2> QED
    BY <1>2, <2>1 DEF Appends
<1> QED
  BY <1>1, <1>2 DEF Add

LEMMA SweepSteps ==
    ASSUME NEW s \in Sockets, SweepVisit(s)
    PROVE  Shrinks
  BY DEF SweepVisit, VisitLive, Shrinks, Drop

-----------------------------------------------------------------------------
\* Every variable keeps its type; in particular an entry is filed under its
\* own socket and the order relates queued sockets only.
THEOREM TypeCorrect == Spec => []TypeOK
<1>1. Init => TypeOK
  BY DEF Init, TypeOK, Queued
<1>2. ASSUME TypeOK, [Next]_vars
      PROVE  TypeOK'
  <2> USE <1>2 DEF TypeOK, Queued
  <2>1. ASSUME Shrinks
        PROVE  /\ Queued' \subseteq Queued
               /\ waiting' \in [Queued' -> Entry]
               /\ \A s \in Queued' : waiting'[s].sock = s
               /\ before' \subseteq Queued' \X Queued'
    BY <2>1 DEF Shrinks, Keep
  <2>2. ASSUME NoPair
        PROVE  /\ DOMAIN recent' \subseteq Pairs /\ recent' \in [DOMAIN recent' -> 0..RecentPair]
               /\ DOMAIN made' \subseteq Pairs /\ made' \in [DOMAIN made' -> 0..RecentPair]
               /\ matched' \subseteq Sockets
    BY <2>2 DEF NoPair
  <2>3. ASSUME NEW s \in Sockets, NEW t \in Sockets, OwnerOf[s] # OwnerOf[t], Pair(s, t)
        PROVE  /\ DOMAIN recent' \subseteq Pairs /\ recent' \in [DOMAIN recent' -> 0..RecentPair]
               /\ DOMAIN made' \subseteq Pairs /\ made' \in [DOMAIN made' -> 0..RecentPair]
               /\ matched' \subseteq Sockets
    <3> DEFINE p == OwnersOf({s, t})
    <3>1. p \in Pairs
      BY <2>3, OwnersArePair
    <3>2. 0 \in 0..RecentPair
      BY DelayAssumption
    <3>3. /\ recent' = [q \in DOMAIN recent \cup {p} |-> IF q = p THEN 0 ELSE recent[q]]
          /\ made' = [q \in DOMAIN made \cup {p} |-> IF q = p THEN 0 ELSE made[q]]
          /\ matched' = {s, t}
      BY <2>3 DEF Pair
    <3> HIDE DEF p
    <3>4. /\ DOMAIN recent' = DOMAIN recent \cup {p}
          /\ \A q \in DOMAIN recent' : recent'[q] \in 0..RecentPair
      BY <3>2, <3>3
    <3>5. /\ DOMAIN made' = DOMAIN made \cup {p}
          /\ \A q \in DOMAIN made' : made'[q] \in 0..RecentPair
      BY <3>2, <3>3
    <3> QED
      BY <3>1, <3>3, <3>4, <3>5
  <2>4. ASSUME NEW s \in Sockets, NEW i \in InterestSets, Add(s, i)
        PROVE  TypeOK'
    <3> DEFINE e == NewEntry(s, i)
    <3>0. e \in Entry /\ e.sock = s
      BY MaxAgeType DEF Entry, NewEntry
    <3>1. /\ Queued' \subseteq Sockets
          /\ waiting' \in [Queued' -> Entry]
          /\ \A t \in Queued' : waiting'[t].sock = t
          /\ before' \subseteq Queued' \X Queued'
      <4>1. CASE Shrinks
        BY <4>1, <2>1
      <4>2. CASE Appends
        BY <4>2, MaxAgeType DEF Appends, Entry, NewEntry
      <4> QED
        BY <4>1, <4>2, <2>4, AddSteps
    <3>2. NoPair \/ \E p \in Queued : OwnerOf[s] # OwnerOf[p] /\ Pair(s, p)
      BY <2>4 DEF Add, NewEntry, IsPartner, Candidates, Compatible
    <3>3. /\ DOMAIN recent' \subseteq Pairs /\ recent' \in [DOMAIN recent' -> 0..RecentPair]
          /\ DOMAIN made' \subseteq Pairs /\ made' \in [DOMAIN made' -> 0..RecentPair]
          /\ matched' \subseteq Sockets
      BY <3>2, <2>2, <2>3
    <3> QED
      BY <2>4, <3>1, <3>3 DEF Add
  <2>5. ASSUME NEW s \in Sockets, SweepVisit(s)
        PROVE  TypeOK'
    <3>1. NoPair \/ \E p \in Queued : OwnerOf[s] # OwnerOf[p] /\ Pair(s, p)
      BY <2>5 DEF SweepVisit, VisitLive, IsPartner, Candidates, Compatible
    <3>2. /\ DOMAIN recent' \subseteq Pairs /\ recent' \in [DOMAIN recent' -> 0..RecentPair]
          /\ DOMAIN made' \subseteq Pairs /\ made' \in [DOMAIN made' -> 0..RecentPair]
          /\ matched' \subseteq Sockets
      BY <3>1, <2>2, <2>3
    <3>3. todo' \subseteq Queued'
      BY <2>5 DEF SweepVisit, TodoAfter
    <3>4. UNCHANGED <<connected, refused>> /\ sweeping' = TRUE
      BY <2>5 DEF SweepVisit
    <3> QED
      BY <2>5, SweepSteps, <2>1, <3>2, <3>3, <3>4
  <2>6. ASSUME NEW s \in Sockets, Remove(s)
        PROVE  TypeOK'
    BY <2>6, <2>1, <2>2 DEF Remove, Shrinks, Drop
  <2>7. ASSUME NEW u \in Users, RemoveEmail(u)
        PROVE  TypeOK'
    BY <2>7, <2>1, <2>2 DEF RemoveEmail, Shrinks, Drop
  <2>8. ASSUME SweepStart
        PROVE  TypeOK'
    BY <2>8, <2>2 DEF SweepStart
  <2>9. ASSUME SweepEnd
        PROVE  TypeOK'
    BY <2>9 DEF SweepEnd, Pruned
  <2>10. ASSUME NEW s \in Sockets, Disconnect(s) \/ Connect(s)
         PROVE  TypeOK'
    BY <2>10, <2>2 DEF Disconnect, Connect
  <2>11. ASSUME NEW p \in Pairs, Refuse(p)
         PROVE  TypeOK'
    BY <2>11, <2>2 DEF Refuse
  <2>12. ASSUME Tick
         PROVE  TypeOK'
    <3>1. waiting' \in [Queued' -> Entry] /\ \A t \in Queued' : waiting'[t].sock = t
      BY <2>12, AgedType DEF Tick
    <3>2. recent' \in [DOMAIN recent' -> 0..RecentPair] /\ DOMAIN recent' \subseteq Pairs
      BY <2>12, DelayAssumption DEF Tick, Older
    <3>3. made' \in [DOMAIN made' -> 0..RecentPair] /\ DOMAIN made' \subseteq Pairs
      BY <2>12, DelayAssumption DEF Tick
    <3> QED
      BY <2>12, <3>1, <3>2, <3>3 DEF Tick
  <2>13. CASE UNCHANGED vars
    BY <2>13 DEF vars
  <2> QED
    BY <2>4, <2>5, <2>6, <2>7, <2>8, <2>9, <2>10, <2>11, <2>12, <2>13, ContestedAssumption
       DEF Next, Sweep
<1> QED
  BY <1>1, <1>2, PTL DEF Spec

-----------------------------------------------------------------------------
(* The queue and its order.                                                *)

LEMMA QueueSteps ==
    ASSUME TypeOK, [Next]_vars
    PROVE  Shrinks \/ Appends \/ Tick \/ UNCHANGED <<waiting, before>>
<1>1. ASSUME NEW s \in Sockets, Remove(s) PROVE Shrinks
  BY <1>1 DEF Remove, Drop, Shrinks
<1>2. ASSUME NEW u \in Users, RemoveEmail(u) PROVE Shrinks
  BY <1>2 DEF RemoveEmail, Drop, Shrinks
<1> QED
  BY <1>1, <1>2, AddSteps, SweepSteps
     DEF Next, Sweep, SweepStart, SweepEnd, Disconnect, Connect, Refuse, NoPair, vars

\* No step of any handler or of the sweep gives a user a second entry.
THEOREM OneEntryPerUserAlways == Spec => []OneEntryPerUser
<1>1. Init => OneEntryPerUser
  BY DEF Init, OneEntryPerUser, Queued
<1>2. ASSUME TypeOK, OneEntryPerUser, [Next]_vars
      PROVE  OneEntryPerUser'
  <2> USE <1>2 DEF OneEntryPerUser, Queued
  <2>1. CASE Shrinks
    BY <2>1 DEF Shrinks, Keep
  <2>2. CASE Appends
    BY <2>2 DEF Appends
  <2>3. CASE Tick
    BY <2>3 DEF Tick
  <2> QED
    BY <2>1, <2>2, <2>3, QueueSteps
<1> QED
  BY <1>1, <1>2, TypeCorrect, PTL DEF Spec

\* The iteration order of the Map stays total and sorted by waiting time.
THEOREM LongestWaiterFirstAlways == Spec => []LongestWaiterFirst
<1>1. Init => LongestWaiterFirst
  BY DEF Init, LongestWaiterFirst, Queued
<1>2. ASSUME TypeOK, LongestWaiterFirst, [Next]_vars
      PROVE  LongestWaiterFirst'
  <2> USE <1>2 DEF LongestWaiterFirst, Queued
  <2>1. CASE Shrinks
    BY <2>1 DEF Shrinks, Keep
  <2>2. CASE Appends
    <3>1. PICK s \in Sockets, i \in InterestSets, S \in SUBSET Queued :
            /\ \A t \in S : OwnerOf[t] # OwnerOf[s]
            /\ waiting' = [t \in S \cup {s} |->
                    IF t = s THEN NewEntry(s, i)
                             ELSE waiting[t]]
            /\ before' = (before \cap (S \X S)) \cup (S \X {s})
      BY <2>2 DEF Appends
    <3>2. s \notin S
      BY <3>1
    <3>3. \A t \in S : waiting'[t] = waiting[t] /\ waiting'[t].age >= 0
      BY <3>1, <3>2, MaxAgeType DEF TypeOK, Entry
    <3>4. waiting'[s].age = 0 /\ Queued' = S \cup {s}
      BY <3>1 DEF NewEntry
    <3> QED
      BY <3>1, <3>2, <3>3, <3>4
  <2>3. CASE Tick
    <3>1. Queued' = Queued /\ before' = before
      BY <2>3 DEF Tick
    <3>2. \A t \in Queued : waiting[t].age \in Nat /\ waiting'[t].age = Older(waiting[t].age, MaxAge)
      BY <2>3, AgedType, MaxAgeType DEF Tick, TypeOK, Entry
    <3>3. \A m, n \in Nat : m >= n => Older(m, MaxAge) >= Older(n, MaxAge)
      BY MaxAgeType DEF Older
    <3> QED
      BY <3>1, <3>2, <3>3
  <2> QED
    BY <2>1, <2>2, <2>3, QueueSteps
<1> QED
  BY <1>1, <1>2, TypeCorrect, PTL DEF Spec

-----------------------------------------------------------------------------
(* Matches.                                                                *)

\* The step pairs entry e of socket s with p and leaves neither user queued.
Meets(s, e, p) ==
    /\ e.sock = s /\ s \in connected
    /\ p \in Queued /\ p \in Candidates(e)
    /\ Pair(s, p)
    /\ \A t \in Queued' : t \in Queued /\ OwnerOf[t] \notin {OwnerOf[s], OwnerOf[p]}
    /\ UNCHANGED <<connected, refused>>

LEMMA AddMatch ==
    ASSUME TypeOK, OneEntryPerUser, NEW s \in Sockets, NEW i \in InterestSets, Add(s, i)
    PROVE  matched' = {} \/ \E p \in Sockets, e \in Entry : Meets(s, e, p)
<1> DEFINE e == NewEntry(s, i)
           own == EntriesOf(OwnerOf[s])
<1>1. e \in Entry /\ e.sock = s
  BY MaxAgeType DEF Entry, NewEntry
<1>2. CASE NoPair
  BY <1>2 DEF NoPair
<1>3. ASSUME NEW p \in Queued, IsPartner(e, p), Pair(s, p),
             Drop(own \cup {p} \cup DeadBefore(e, p))
      PROVE  Meets(s, e, p)
  <2>1. s \in connected /\ UNCHANGED <<connected, refused>>
    BY DEF Add
  <2>2. p \in Candidates(e)
    BY <1>3 DEF IsPartner
  <2>3. \A t \in Queued' : t \in Queued /\ t \notin own /\ t # p
    BY <1>3 DEF Drop, Keep, Queued
  <2> QED
    BY <1>1, <1>3, <2>1, <2>2, <2>3 DEF Meets, EntriesOf, OneEntryPerUser
<1> QED
  BY <1>1, <1>2, <1>3 DEF Add, TypeOK

LEMMA SweepMatch ==
    ASSUME TypeOK, OneEntryPerUser, NEW s \in Sockets, SweepVisit(s)
    PROVE  matched' = {} \/ \E p \in Sockets, e \in Entry : Meets(s, e, p)
<1>1. s \in Queued /\ waiting[s] \in Entry /\ waiting[s].sock = s
  BY DEF SweepVisit, VisitLive, TypeOK
<1>2. CASE NoPair
  BY <1>2 DEF NoPair
<1>3. ASSUME NEW p \in Queued, s \in connected, IsPartner(waiting[s], p), Pair(s, p),
             Drop({s, p} \cup DeadBefore(waiting[s], p))
      PROVE  Meets(s, waiting[s], p)
  <2>1. UNCHANGED <<connected, refused>>
    BY DEF SweepVisit
  <2>2. p \in Candidates(waiting[s])
    BY <1>3 DEF IsPartner
  <2>3. \A t \in Queued' : t \in Queued /\ t # s /\ t # p
    BY <1>3 DEF Drop, Keep, Queued
  <2> QED
    BY <1>1, <1>3, <2>1, <2>2, <2>3 DEF Meets, OneEntryPerUser
<1> QED
  BY <1>1, <1>2, <1>3 DEF SweepVisit, VisitLive, TypeOK

\* Only a new search and the sweep make matches.
LEMMA MatchSteps ==
    ASSUME TypeOK, OneEntryPerUser, [Next]_vars
    PROVE  \/ matched' = {}
           \/ UNCHANGED vars
           \/ \E s, p \in Sockets, e \in Entry : Meets(s, e, p)
  BY AddMatch, SweepMatch
     DEF Next, Remove, RemoveEmail, Sweep, SweepStart, SweepEnd,
         Disconnect, Connect, Refuse, Tick, NoPair

LEMMA RecentSteps ==
    ASSUME TypeOK, OneEntryPerUser, [Next]_vars
    PROVE  \/ UNCHANGED <<recent, made>> \/ SweepEnd \/ Tick
           \/ \E s, p \in Sockets, e \in Entry : Meets(s, e, p)
<1>1. ASSUME NEW s \in Sockets, NEW i \in InterestSets, Add(s, i)
      PROVE  UNCHANGED <<recent, made>> \/ matched' # {}
  BY <1>1 DEF Add, NoPair, Pair
<1>2. ASSUME NEW s \in Sockets, SweepVisit(s)
      PROVE  UNCHANGED <<recent, made>> \/ matched' # {}
  BY <1>2 DEF SweepVisit, VisitLive, NoPair, Pair
<1> QED
  BY <1>1, <1>2, MatchSteps
     DEF Next, Remove, RemoveEmail, Sweep, SweepStart, Disconnect, Connect,
         Refuse, NoPair, vars

\* Every match is between two connected people whom nothing keeps apart,
\* and takes both of them off the queue.
THEOREM MatchesAreSoundAlways == Spec => []MatchesAreSound
<1>1. Init => MatchesAreSound
  BY DEF Init, MatchesAreSound
<1>2. ASSUME TypeOK, OneEntryPerUser, MatchesAreSound, [Next]_vars
      PROVE  MatchesAreSound'
  <2>1. CASE matched' = {}
    BY <2>1 DEF MatchesAreSound
  <2>2. CASE UNCHANGED vars
    BY <2>2, <1>2 DEF vars, MatchesAreSound, Queued
  <2>3. ASSUME NEW s \in Sockets, NEW p \in Sockets, NEW e \in Entry, Meets(s, e, p)
        PROVE  MatchesAreSound'
    <3>1. matched' = {s, p} /\ UNCHANGED <<connected, refused>>
      BY <2>3 DEF Meets, Pair
    <3>2. waiting[p].sock = p
      BY <2>3, <1>2 DEF Meets, TypeOK
    <3>3. Compatible(e, waiting[p])
      BY <2>3 DEF Meets, Candidates
    <3>4. /\ OwnerOf[s] # OwnerOf[p]
          /\ {s, p} \subseteq connected
          /\ OwnersOf({s, p}) \notin refused
      BY <2>3, <3>2, <3>3 DEF Compatible, Meets
    <3>5. OwnersOf({s, p}) = {OwnerOf[s], OwnerOf[p]}
      BY DEF OwnersOf
    <3>6. OwnersOf({s, p}) \cap OwnersOf(Queued') = {}
      BY <2>3, <3>5 DEF Meets, OwnersOf
    <3> QED
      BY <3>1, <3>4, <3>6 DEF MatchesAreSound, OwnersOf
  <2> QED
    BY <1>2, <2>1, <2>2, <2>3, MatchSteps
<1> QED
  BY <1>1, <1>2, TypeCorrect, OneEntryPerUserAlways, PTL DEF Spec

\* The memory of recent pairs forgets nothing early and nothing late.
THEOREM RecentIsExactAlways == Spec => []RecentIsExact
<1>1. Init => RecentIsExact
  BY DEF Init, RecentIsExact
<1>2. ASSUME TypeOK, OneEntryPerUser, RecentIsExact, [Next]_vars
      PROVE  RecentIsExact'
  <2> USE <1>2 DEF RecentIsExact
  <2>1. CASE UNCHANGED <<recent, made>>
    BY <2>1
  <2>2. CASE SweepEnd
    BY <2>2 DEF SweepEnd, Pruned
  <2>3. CASE Tick
    BY <2>3, DelayAssumption DEF Tick, Older, TypeOK
  <2>4. ASSUME NEW s \in Sockets, NEW p \in Sockets, NEW e \in Entry, Meets(s, e, p)
        PROVE  RecentIsExact'
    BY <2>4, DelayAssumption DEF Meets, Pair
  <2> QED
    BY <2>1, <2>2, <2>3, <2>4, RecentSteps
<1> QED
  BY <1>1, <1>2, TypeCorrect, OneEntryPerUserAlways, PTL DEF Spec

\* No pair is matched twice within RecentPair.
THEOREM NoEarlyRematchAlways == Spec => NoEarlyRematch
<1>1. ASSUME TypeOK, OneEntryPerUser, RecentIsExact, [Next]_vars
      PROVE  [matched' # {} => OwnersOf(matched') \notin DOMAIN made]_vars
  <2>1. ASSUME NEW s \in Sockets, NEW p \in Sockets, NEW e \in Entry, Meets(s, e, p)
        PROVE  OwnersOf(matched') \notin DOMAIN made
    <3>1. matched' = {s, p} /\ waiting[p].sock = p /\ e.sock = s
      BY <1>1, <2>1 DEF Meets, Pair, TypeOK
    <3>2. ~PairedRecently(OwnersOf({s, p}))
      BY <2>1, <3>1 DEF Meets, Candidates, Compatible
    <3> QED
      BY <1>1, <3>1, <3>2 DEF PairedRecently, RecentIsExact
  <2> QED
    BY <1>1, <2>1, MatchSteps
<1> QED
  BY <1>1, TypeCorrect, OneEntryPerUserAlways, RecentIsExactAlways, PTL
     DEF Spec, NoEarlyRematch

-----------------------------------------------------------------------------
(* The loop of sweep().                                                    *)

\* An iteration adds to the memory of recent pairs and takes nothing away.
LEMMA VisitForgetsNoPair ==
    ASSUME NEW s \in Sockets, SweepVisit(s), NEW q, PairedRecently(q)
    PROVE  PairedRecently(q)'
<1>1. CASE NoPair
  BY <1>1 DEF NoPair, PairedRecently
<1>2. ASSUME NEW p, Pair(s, p)
      PROVE  PairedRecently(q)'
  BY <1>2, DelayAssumption DEF Pair, PairedRecently
<1> QED
  BY <1>1, <1>2 DEF SweepVisit, VisitLive

\* The loop invariant: an entry already visited fits none that is left.
THEOREM VisitedAreUnpairedAlways == Spec => []VisitedAreUnpaired
<1>1. Init => VisitedAreUnpaired
  BY DEF Init, VisitedAreUnpaired
<1>2. ASSUME TypeOK, VisitedAreUnpaired, [Next]_vars
      PROVE  VisitedAreUnpaired'
  <2>1. ASSUME NEW s \in Sockets, SweepVisit(s)
        PROVE  VisitedAreUnpaired'
    <3> SUFFICES ASSUME NEW x \in Queued', x \notin todo', NEW y \in Queued', x # y,
                        Compatible(waiting[x], waiting[y])'
                 PROVE  FALSE
      BY DEF VisitedAreUnpaired
    <3>1. /\ x \in Queued /\ waiting'[x] = waiting[x]
          /\ y \in Queued /\ waiting'[y] = waiting[y]
      BY <2>1 DEF SweepVisit, VisitLive, Drop, Keep, Queued
    <3>2. Compatible(waiting[x], waiting[y])
      <4>1. UNCHANGED <<connected, refused>>
        BY <2>1 DEF SweepVisit
      <4>2. \A q : PairedRecently(q) => PairedRecently(q)'
        BY <2>1, VisitForgetsNoPair
      <4> QED
        BY <3>1, <4>1, <4>2 DEF Compatible, InterestsAllow
    <3>3. x \in todo
      BY <1>2, <2>1, <3>1, <3>2 DEF VisitedAreUnpaired, SweepVisit, TodoAfter
    <3>4. x = s
      BY <2>1, <3>3 DEF SweepVisit, TodoAfter, Queued
    <3>5. Candidates(waiting[s]) = {}
      BY <2>1, <3>4 DEF SweepVisit, VisitLive, Drop, Keep, Queued
    <3> QED
      BY <1>2, <3>1, <3>2, <3>4, <3>5 DEF Candidates, TypeOK
  <2>2. CASE ~sweeping'
    BY <2>2 DEF VisitedAreUnpaired
  <2>3. CASE SweepStart
    BY <2>3 DEF SweepStart, VisitedAreUnpaired, Queued
  <2>4. CASE UNCHANGED vars
    BY <2>4, <1>2 DEF vars, VisitedAreUnpaired, Queued, Compatible, InterestsAllow,
                      PairedRecently, OwnersOf
  <2>5. ASSUME NEW s \in Sockets, NEW i \in InterestSets, Add(s, i)
        PROVE  ~sweeping'
    BY <2>5 DEF Add
  <2>6. ASSUME NEW s \in Sockets, Remove(s) \/ Disconnect(s) \/ Connect(s)
        PROVE  ~sweeping'
    BY <2>6 DEF Remove, Disconnect, Connect
  <2>7. ASSUME NEW u \in Users, RemoveEmail(u)
        PROVE  ~sweeping'
    BY <2>7 DEF RemoveEmail
  <2>8. ASSUME NEW p \in Contested, Refuse(p)
        PROVE  ~sweeping'
    BY <2>8 DEF Refuse
  <2>9. Tick \/ SweepEnd => ~sweeping'
    BY DEF Tick, SweepEnd
  <2> QED
    BY <1>2, <2>1, <2>2, <2>3, <2>4, <2>5, <2>6, <2>7, <2>8, <2>9 DEF Next, Sweep
<1> QED
  BY <1>1, <1>2, TypeCorrect, PTL DEF Spec

\* When a sweep ends, nobody it leaves could have been paired.
THEOREM SweepLeavesNoPairAlways == Spec => SweepLeavesNoPair
<1>1. ASSUME TypeOK, RecentIsExact, VisitedAreUnpaired, [Next]_vars
      PROVE  [sweeping /\ ~sweeping' => ~\E s, t \in Queued : CouldPair(s, t)]_vars
  <2> SUFFICES ASSUME sweeping, ~sweeping', NEW s \in Queued, NEW t \in Queued,
                      CouldPair(s, t)
               PROVE  FALSE
    OBVIOUS
  <2>1. todo = {}
    BY <1>1 DEF Next, Sweep, Add, Remove, RemoveEmail, SweepStart, SweepVisit, SweepEnd,
                Disconnect, Connect, Refuse, Tick, vars
  <2>2. s # t /\ waiting[s].sock = s /\ waiting[t].sock = t
    BY <1>1 DEF CouldPair, TypeOK
  <2>3. Compatible(waiting[s], waiting[t])
    BY <1>1, <2>2 DEF CouldPair, Compatible, InterestsAllow, PairedRecently, RecentIsExact
  <2> QED
    BY <1>1, <2>1, <2>2, <2>3 DEF VisitedAreUnpaired
<1> QED
  BY <1>1, TypeCorrect, RecentIsExactAlways, VisitedAreUnpairedAlways, PTL
     DEF Spec, SweepLeavesNoPair

-----------------------------------------------------------------------------
\* The invariant of the queue: one entry per user, in the order of waiting, and
\* onMatch() called for people who may meet and search no longer.
THEOREM QueueIsAlwaysSound == Spec => []QueueIsSound
BY TypeCorrect, OneEntryPerUserAlways, LongestWaiterFirstAlways, MatchesAreSoundAlways, PTL
   DEF QueueIsSound

===============================================================================
