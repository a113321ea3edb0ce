----------------------------- MODULE RealtimeProofs ------------------------------
(***************************************************************************)
(* Machine-checked proofs about Realtime, for any users, tabs, sockets and *)
(* rooms.  What RoomsProofs shows of a step of the rooms is taken from     *)
(* there: every step here is one of theirs, leaves the rooms alone, or is  *)
(* the restart.                                                            *)
(***************************************************************************)
EXTENDS Realtime, FiniteSetTheorems, TLAPS

RP == INSTANCE RoomsProofs

-----------------------------------------------------------------------------
(* The inductive invariant.                                                *)

\* sock and up of a tab: the connection it believes in is one of its own, it
\* calls only on a connection, and rejoin is the first call of a connection
\* that has not searched yet.
TabsFit ==
    \A t \in Tabs :
        /\ sock[t] \in Sockets => TabOf[sock[t]] = t
        /\ sock[t] = NoSocket => up[t] = <<>>
        /\ \A i \in DOMAIN up[t] :
              up[t][i].op = "rejoin" => i = 1 /\ sock[t] \notin queue

\* A suspended user's connections are those kickUser() has not reached yet.
BannedAreGone ==
    \A s \in connected : OwnerOf[s] \in banned => OwnerOf[s] = kicking

RealtimeInv ==
    /\ TypeOK
    /\ R!RoomsInv
    /\ R!SeatedIsPresent
    /\ SearchersAreFree
    /\ TabsFit
    /\ BannedAreGone

-----------------------------------------------------------------------------
(* Constants, and the two names of module Rooms.                           *)

LEMMA OwnersAreUsers == OwnerOf \in [Sockets -> Users]
  BY TabAssumption DEF OwnerOf

LEMMA NonesAreNone == NoSocket \notin Sockets /\ NoRoom \notin RoomIds
  BY NoneAssumption

LEMMA SameTypes == R!TypeOK <=> RP!TypeOK
  BY DEF R!TypeOK, RP!TypeOK, R!Pairs, RP!Pairs, R!Reasons, RP!Reasons

LEMMA SameInv == R!RoomsInv <=> RP!RoomsInv
<1>1. R!Seating <=> RP!Seating
  BY DEF R!Seating, RP!Seating, R!EmptySeats, RP!EmptySeats, R!Members, RP!Members
<1>2. R!IndexMatchesSeats <=> RP!IndexMatchesSeats
  BY DEF R!IndexMatchesSeats, RP!IndexMatchesSeats, R!Access, RP!Access
<1>3. R!PresentIsConnected <=> RP!PresentIsConnected
  BY DEF R!PresentIsConnected, RP!PresentIsConnected
<1>4. R!AbsentIsTimed <=> RP!AbsentIsTimed
  BY DEF R!AbsentIsTimed, RP!AbsentIsTimed, R!Members, RP!Members
<1>5. R!DirectIsExact <=> RP!DirectIsExact
  BY DEF R!DirectIsExact, RP!DirectIsExact, R!Pairs, RP!Pairs, R!Members, RP!Members
<1> QED
  BY <1>1, <1>2, <1>3, <1>4, <1>5, SameTypes DEF R!RoomsInv, RP!RoomsInv

LEMMA SameSeated == R!SeatedIsPresent <=> RP!SeatedIsPresent
  BY DEF R!SeatedIsPresent, RP!SeatedIsPresent

LEMMA SameCloseAll ==
    ASSUME NEW C, NEW reason
    PROVE  R!CloseAll(C, reason) <=> RP!CloseAll(C, reason)
  BY DEF R!CloseAll, RP!CloseAll, R!EmptySeats, RP!EmptySeats, R!Unindexed, RP!Unindexed,
         R!SeatsOf, RP!SeatsOf, R!Undirected, RP!Undirected, R!Pairs, RP!Pairs

LEMMA SameCreateMatch ==
    ASSUME NEW C, NEW r, NEW s, NEW t
    PROVE  R!CreateMatch(C, r, s, t) <=> RP!CreateMatch(C, r, s, t)
  BY DEF R!CreateMatch, RP!CreateMatch, R!EmptySeats, RP!EmptySeats, R!Unindexed, RP!Unindexed,
         R!SeatsOf, RP!SeatsOf, R!Undirected, RP!Undirected, R!Pairs, RP!Pairs,
         R!Fresh, RP!Fresh

LEMMA SameTakeSeat ==
    ASSUME NEW r, NEW u, NEW s
    PROVE  R!TakeSeat(r, u, s) <=> RP!TakeSeat(r, u, s)
  BY DEF R!TakeSeat, RP!TakeSeat

LEMMA SameDisconnect ==
    ASSUME NEW s
    PROVE  R!Disconnect(s) <=> RP!Disconnect(s)
  BY DEF R!Disconnect, RP!Disconnect, R!DropSocket, RP!DropSocket, R!RoomsOf, RP!RoomsOf,
         R!Members, RP!Members, R!EmptySeats, RP!EmptySeats, R!StartGrace, RP!StartGrace,
         R!Undirected, RP!Undirected, R!Pairs, RP!Pairs

LEMMA SameNext == R!Next <=> RP!Next
<1>1. ASSUME NEW s \in Sockets
      PROVE  /\ R!Search(s) <=> RP!Search(s)
             /\ R!Connect(s) <=> RP!Connect(s)
  BY SameCloseAll DEF R!Search, RP!Search, R!Connect, RP!Connect, R!RoomsOf, RP!RoomsOf
<1>2. ASSUME NEW s \in Sockets, NEW t \in Sockets, NEW r \in RoomIds
      PROVE  R!Match(s, t, r) <=> RP!Match(s, t, r)
  BY SameCreateMatch DEF R!Match, RP!Match, R!RoomsOf, RP!RoomsOf
<1>3. ASSUME NEW r \in RoomIds, NEW s \in Sockets
      PROVE  /\ R!Leave(r, s) <=> RP!Leave(r, s)
             /\ R!Rejoin(r, s) <=> RP!Rejoin(r, s)
             /\ \A f \in Users : R!JoinDirect(s, f, r) <=> RP!JoinDirect(s, f, r)
  <2>1. R!Leave(r, s) <=> RP!Leave(r, s)
    BY SameCloseAll DEF R!Leave, RP!Leave, R!Access, RP!Access, R!Members, RP!Members
  <2>2. R!Rejoin(r, s) <=> RP!Rejoin(r, s)
    BY SameTakeSeat DEF R!Rejoin, RP!Rejoin, R!Members, RP!Members, R!ClearGrace, RP!ClearGrace
  <2>3. \A f \in Users : R!JoinDirect(s, f, r) <=> RP!JoinDirect(s, f, r)
    BY SameTakeSeat DEF R!JoinDirect, RP!JoinDirect, R!Fresh, RP!Fresh
  <2> QED
    BY <2>1, <2>2, <2>3
<1>4. ASSUME NEW r \in RoomIds
      PROVE  /\ R!Expire(r) <=> RP!Expire(r)
             /\ \A u \in Users : /\ R!GraceEnds(r, u) <=> RP!GraceEnds(r, u)
                                 /\ R!OrphanEnds(r, u) <=> RP!OrphanEnds(r, u)
  BY SameCloseAll DEF R!Expire, RP!Expire, R!GraceEnds, RP!GraceEnds, R!OrphanEnds, RP!OrphanEnds
<1> QED
  BY <1>1, <1>2, <1>3, <1>4, SameDisconnect DEF R!Next, RP!Next

-----------------------------------------------------------------------------
(* What a step may do to the rooms.                                        *)

Emptied ==
    /\ open = {} /\ ended = {}
    /\ key = [r \in RoomIds |-> {}]
    /\ seat = [r \in RoomIds |-> R!EmptySeats]
    /\ on = [r \in RoomIds |-> {}]
    /\ grace = [r \in RoomIds |-> {}]
    /\ orphan = [r \in RoomIds |-> {}]
    /\ bySocket = [s \in Sockets |-> {}]
    /\ direct = [p \in R!Pairs |-> NoRoom]

RoomsKept == UNCHANGED roomMaps /\ ended' \in {ended, {}}

StepOfRooms == R!Next \/ RoomsKept \/ (connected' = {} /\ Emptied')

LEMMA EmptiedInv == Emptied /\ connected \subseteq Sockets => R!RoomsInv /\ R!SeatedIsPresent
<1> SUFFICES ASSUME Emptied, connected \subseteq Sockets
             PROVE  R!RoomsInv /\ R!SeatedIsPresent
  OBVIOUS
<1>1. R!TypeOK
  BY DEF Emptied, R!TypeOK, R!EmptySeats
<1>2. R!Seating
  BY NoneAssumption DEF Emptied, R!Seating, R!EmptySeats, R!Members
<1>3. R!IndexMatchesSeats /\ R!PresentIsConnected /\ R!AbsentIsTimed /\ R!SeatedIsPresent
  BY DEF Emptied, R!IndexMatchesSeats, R!PresentIsConnected, R!AbsentIsTimed, R!Access,
         R!SeatedIsPresent
<1>4. R!DirectIsExact
  BY NoneAssumption DEF Emptied, R!DirectIsExact
<1> QED
  BY <1>1, <1>2, <1>3, <1>4 DEF R!RoomsInv

LEMMA KeptInv ==
    ASSUME R!RoomsInv, R!SeatedIsPresent, RoomsKept
    PROVE  R!RoomsInv' /\ R!SeatedIsPresent'
<1>1. /\ UNCHANGED <<connected, open, key, seat, on, grace, orphan, bySocket, direct>>
      /\ ended' \in {ended, {}}
  BY DEF RoomsKept, roomMaps
<1>2. \A r \in RoomIds : R!Members(r)' = R!Members(r)
  BY <1>1 DEF R!Members
<1>3. R!TypeOK' /\ R!Seating'
  BY <1>1, <1>2 DEF R!RoomsInv, R!TypeOK, R!Seating
<1>4. R!DirectIsExact' /\ R!AbsentIsTimed'
  BY <1>1, <1>2 DEF R!RoomsInv, R!DirectIsExact, R!AbsentIsTimed, R!TypeOK
<1>5. R!IndexMatchesSeats' /\ R!PresentIsConnected' /\ R!SeatedIsPresent'
  BY <1>1 DEF R!RoomsInv, R!IndexMatchesSeats, R!PresentIsConnected, R!Access,
              R!SeatedIsPresent
<1> QED
  BY <1>3, <1>4, <1>5 DEF R!RoomsInv

\* The rooms of the running system keep their invariant.
LEMMA StepKeepsRooms ==
    R!RoomsInv /\ R!SeatedIsPresent /\ StepOfRooms => R!RoomsInv' /\ R!SeatedIsPresent'
<1>1. R!RoomsInv /\ R!SeatedIsPresent /\ R!Next => R!RoomsInv' /\ R!SeatedIsPresent'
  <2>1. (R!RoomsInv <=> RP!RoomsInv)' /\ (R!SeatedIsPresent <=> RP!SeatedIsPresent)'
    BY SameInv, SameSeated, PTL
  <2>2. RP!RoomsInv /\ RP!Next => RP!RoomsInv'
    BY RP!NextInv, OwnersAreUsers, NonesAreNone
  <2>3. RP!RoomsInv /\ RP!SeatedIsPresent /\ RP!Next => RP!SeatedIsPresent'
    BY RP!SeatedNext, OwnersAreUsers, NonesAreNone
  <2> QED
    BY <2>1, <2>2, <2>3, SameInv, SameSeated, SameNext
<1>2. (Emptied /\ connected \subseteq Sockets => R!RoomsInv /\ R!SeatedIsPresent)'
  BY EmptiedInv, PTL
<1> QED
  BY <1>1, <1>2, KeptInv DEF StepOfRooms

\* Closing no room changes nothing.
LEMMA CloseNothing ==
    ASSUME R!TypeOK, NEW reason, R!CloseAll({}, reason), UNCHANGED <<connected, orphan>>
    PROVE  RoomsKept
<1>1. bySocket' = bySocket
  BY DEF R!CloseAll, R!Unindexed, R!TypeOK
<1>2. direct' = direct
  BY DEF R!CloseAll, R!Undirected, R!TypeOK
<1>3. /\ open' = open /\ ended' = {}
      /\ key' = key /\ seat' = seat /\ on' = on /\ grace' = grace
  BY DEF R!CloseAll, R!TypeOK
<1> QED
  BY <1>1, <1>2, <1>3 DEF RoomsKept, roomMaps

-----------------------------------------------------------------------------
(* Calls, events and screens.                                              *)

Named == {"matched", "direct_matched", "partner_left", "waiting", "gone"}

LEMMA EventsAreFinite == IsFiniteSet(Event)
<1> DEFINE about == [ev : Named, room : RoomIds]
           pairs == Named \X RoomIds
           f == [p \in pairs |-> [ev |-> p[1], room |-> p[2]]]
<1>1. IsFiniteSet(Named)
  <2>1. IsFiniteSet({"matched"} \cup {"direct_matched"})
    BY FS_Singleton, FS_Union
  <2>2. IsFiniteSet({"matched"} \cup {"direct_matched"} \cup {"partner_left"})
    BY <2>1, FS_Singleton, FS_Union
  <2>3. IsFiniteSet({"matched"} \cup {"direct_matched"} \cup {"partner_left"} \cup {"waiting"})
    BY <2>2, FS_Singleton, FS_Union
  <2>4. IsFiniteSet({"matched"} \cup {"direct_matched"} \cup {"partner_left"} \cup {"waiting"}
                      \cup {"gone"})
    BY <2>3, FS_Singleton, FS_Union
  <2>5. Named = {"matched"} \cup {"direct_matched"} \cup {"partner_left"} \cup {"waiting"}
                  \cup {"gone"}
    BY DEF Named
  <2> QED
    BY <2>4, <2>5
<1>2. IsFiniteSet(pairs)
  BY <1>1, SizeAssumption, FS_Product
<1>3. f \in Surjection(pairs, about)
  <2>1. f \in [pairs -> about]
    OBVIOUS
  <2>2. ASSUME NEW e \in about
        PROVE  \E p \in pairs : f[p] = e
    <3>1. <<e.ev, e.room>> \in pairs /\ e = [ev |-> e.ev, room |-> e.room]
      OBVIOUS
    <3> QED
      BY <3>1
  <2> QED
    BY <2>1, <2>2 DEF Surjection
<1>4. IsFiniteSet(about)
  BY <1>2, <1>3, FS_Surjection DEF ExistsSurjection
<1> DEFINE bare == {"search_timeout", "refused"}
           given == [ev : bare]
           g == [x \in bare |-> [ev |-> x]]
<1>5. g \in Surjection(bare, given)
  <2>1. g \in [bare -> given]
    OBVIOUS
  <2>2. ASSUME NEW e \in given
        PROVE  \E x \in bare : g[x] = e
    <3>1. e.ev \in bare /\ e = [ev |-> e.ev]
      OBVIOUS
    <3> QED
      BY <3>1
  <2> QED
    BY <2>1, <2>2 DEF Surjection
<1>6. IsFiniteSet(given)
  <2>1. IsFiniteSet({"search_timeout"} \cup {"refused"})
    BY FS_Singleton, FS_Union
  <2>2. bare = {"search_timeout"} \cup {"refused"}
    OBVIOUS
  <2> QED
    BY <1>5, <2>1, <2>2, FS_Surjection DEF ExistsSurjection
<1>7. Event = given \cup about
  BY DEF Event, Named
<1> QED
  BY <1>4, <1>6, <1>7, FS_Union

LEMMA HearsEvents ==
    ASSUME NEW t, NEW sent, \A m \in sent : m.what \in Event
    PROVE  Hears(t, sent) \in Seq(Event)
<1> DEFINE S == {m.what : m \in {x \in sent : x.to = sock[t]}}
           n == Cardinality(S)
<1>1. S \subseteq Event /\ IsFiniteSet(S)
  BY EventsAreFinite, FS_Subset
<1>2. n \in Nat /\ \E f : f \in Bijection(1..n, S)
  BY <1>1, FS_CardinalityType DEF ExistsBijection
<1>3. \E f \in [1..n -> S] : IsInjective(f)
  BY <1>2 DEF Bijection, Injection, IsInjective
<1>4. SetToSeq(S) \in [1..n -> S]
  BY <1>3 DEF SetToSeq
<1>5. SetToSeq(S) \in Seq(Event)
  <2> HIDE DEF S, n
  <2>1. SetToSeq(S) \in [1..n -> Event]
    BY <1>1, <1>4
  <2> QED
    BY <1>2, <2>1
<1> QED
  BY <1>5 DEF Hears

LEMMA TellEvents ==
    ASSUME down \in [Tabs -> Seq(Event)], NEW sent, \A m \in sent : m.what \in Event,
           Tell(sent)
    PROVE  down' \in [Tabs -> Seq(Event)]
<1>1. \A t \in Tabs : down[t] \o Hears(t, sent) \in Seq(Event)
  BY HearsEvents
<1> QED
  BY <1>1 DEF Tell

LEMMA MsgEvents ==
    ASSUME NEW s, NEW ev \in Named, NEW r \in RoomIds
    PROVE  Msg(s, ev, r).what \in Event
  BY DEF Msg, Event, Named

LEMMA LeftEvents ==
    ASSUME NEW C \in SUBSET RoomIds, NEW actor
    PROVE  \A m \in Left(C, actor) : m.what \in Event
<1> SUFFICES ASSUME NEW m \in Left(C, actor)
             PROVE  m.what \in Event
  OBVIOUS
<1>1. PICK r \in C : m \in {Msg(seat[r][u], "partner_left", r) : u \in on[r] \ {actor}}
  BY DEF Left
<1>2. PICK u \in on[r] \ {actor} : m = Msg(seat[r][u], "partner_left", r)
  BY <1>1
<1>3. r \in RoomIds /\ "partner_left" \in Named
  BY DEF Named
<1> QED
  BY <1>2, <1>3, MsgEvents

\* What a screen or a reconnection calls: at most one call, a rejoin only
\* from Resume.
LEMMA CallsOf ==
    ASSUME NEW scr \in Screen
    PROVE  /\ CallOf(scr) \in Seq(Call)
           /\ \A i \in DOMAIN CallOf(scr) : CallOf(scr)[i].op # "rejoin"
           /\ Resume(scr) \in Seq(Call)
           /\ DOMAIN Resume(scr) \subseteq {1}
<1>1. Start \in Seq(Call) /\ DOMAIN Start = {1} /\ Start[1].op = "start_chat"
  BY DEF Start, Call
<1>2. /\ scr.name = "direct" => scr.friend \in Users
      /\ scr.name = "chat" => scr.room \in RoomIds
  BY DEF Screen
<1>3. /\ CallOf(scr) \in Seq(Call) /\ DOMAIN CallOf(scr) \subseteq {1}
      /\ \A i \in DOMAIN CallOf(scr) : CallOf(scr)[i].op # "rejoin"
  <2>1. CASE scr.name = "matching"
    BY <1>1, <2>1 DEF CallOf
  <2>2. CASE scr.name = "direct"
    <3>1. CallOf(scr) = <<[op |-> "join_direct", friend |-> scr.friend]>>
      BY <2>2 DEF CallOf
    <3>2. [op |-> "join_direct", friend |-> scr.friend] \in Call
      BY <1>2, <2>2 DEF Call
    <3> QED
      BY <3>1, <3>2
  <2>3. CASE scr.name \notin {"matching", "direct"}
    BY <2>3 DEF CallOf
  <2> QED
    BY <2>1, <2>2, <2>3
<1>4. Resume(scr) \in Seq(Call) /\ DOMAIN Resume(scr) \subseteq {1}
  <2>1. CASE scr.name \in {"timedOut", "again"}
    BY <1>1, <2>1 DEF Resume
  <2>2. CASE scr.name = "chat"
    <3>1. Resume(scr) = <<[op |-> "rejoin", room |-> scr.room]>>
      BY <2>2 DEF Resume
    <3>2. [op |-> "rejoin", room |-> scr.room] \in Call
      BY <1>2, <2>2 DEF Call
    <3> QED
      BY <3>1, <3>2
  <2>3. CASE scr.name = "loading"
    <3>1. CASE scr.type = "match"
      BY <1>1, <2>3, <3>1 DEF Resume
    <3>2. CASE scr.type # "match"
      <4>1. Resume(scr) = <<[op |-> "join_direct", friend |-> scr.friend]>>
        BY <2>3, <3>2 DEF Resume
      <4>2. scr.friend \in Users
        BY <2>3, <3>2 DEF Screen
      <4>3. [op |-> "join_direct", friend |-> scr.friend] \in Call
        BY <4>2 DEF Call
      <4> QED
        BY <4>1, <4>3
    <3> QED
      BY <3>1, <3>2
  <2>4. CASE scr.name \notin {"timedOut", "again", "chat", "loading"}
    BY <1>3, <2>4 DEF Resume
  <2> QED
    BY <2>1, <2>2, <2>3, <2>4
<1> QED
  BY <1>3, <1>4

-----------------------------------------------------------------------------
(* Seats, as RoomsProofs counts them.                                      *)

LEMMA CloseAllSeats ==
    ASSUME R!TypeOK, NEW C \in SUBSET open, NEW reason, R!CloseAll(C, reason),
           NEW x \in Sockets
    PROVE  R!SeatsOf(x)' = R!SeatsOf(x) \ C
<1>1. RP!SeatsOf(x)' = RP!SeatsOf(x) \ C
  BY RP!SeatsOfCloseAll, SameTypes, SameCloseAll, OwnersAreUsers, NonesAreNone
<1> QED
  BY <1>1 DEF R!SeatsOf, RP!SeatsOf

LEMMA CreateMatchSeats ==
    ASSUME R!TypeOK, NEW C \in SUBSET open, NEW r \in RoomIds, NEW s \in Sockets,
           NEW p \in Sockets, OwnerOf[s] # OwnerOf[p], R!CreateMatch(C, r, s, p),
           NEW x \in Sockets, x \notin {s, p}
    PROVE  R!SeatsOf(x)' = R!SeatsOf(x) \ C
<1>1. RP!SeatsOf(x)' = (RP!SeatsOf(x) \ C) \cup {q \in {r} : x \in {s, p}}
  BY RP!SeatsOfCreateMatch, SameTypes, SameCreateMatch, OwnersAreUsers, NonesAreNone
<1> QED
  BY <1>1 DEF R!SeatsOf, RP!SeatsOf

LEMMA TakeSeatSeats ==
    ASSUME R!TypeOK, NEW r \in RoomIds, NEW s \in Sockets, R!TakeSeat(r, OwnerOf[s], s),
           open' = open \cup {r}, r \in open \/ seat[r] = R!EmptySeats,
           NEW x \in Sockets, x # s
    PROVE  R!SeatsOf(x)' \subseteq R!SeatsOf(x)
<1>1. RP!SeatsOf(x)' \subseteq RP!SeatsOf(x)
  <2>1. R!EmptySeats = RP!EmptySeats
    BY DEF R!EmptySeats, RP!EmptySeats
  <2> QED
    BY <2>1, RP!SeatsOfTakeSeat, SameTypes, SameTakeSeat, OwnersAreUsers, NonesAreNone
<1> QED
  BY <1>1 DEF R!SeatsOf, RP!SeatsOf

LEMMA DisconnectSeats ==
    ASSUME R!TypeOK, NEW s \in Sockets, R!Disconnect(s), NEW x \in Sockets
    PROVE  R!SeatsOf(x)' \subseteq R!SeatsOf(x)
<1>1. RP!SeatsOf(x)' \subseteq RP!SeatsOf(x)
  BY RP!SeatsOfDisconnect, SameTypes, SameDisconnect, OwnersAreUsers, NonesAreNone
<1> QED
  BY <1>1 DEF R!SeatsOf, RP!SeatsOf

LEMMA KeptSeats ==
    ASSUME RoomsKept, NEW x
    PROVE  R!SeatsOf(x)' = R!SeatsOf(x)
  BY DEF RoomsKept, roomMaps, R!SeatsOf

\* start_chat closes every room the socket has a seat in.
LEMMA ConnectedRooms ==
    ASSUME R!RoomsInv, R!SeatedIsPresent, NEW s \in connected
    PROVE  R!RoomsOf(s) = R!SeatsOf(s) /\ R!RoomsOf(s) \in SUBSET open
  BY DEF R!RoomsInv, R!TypeOK, R!IndexMatchesSeats, R!SeatedIsPresent, R!RoomsOf, R!SeatsOf,
         R!Access

-----------------------------------------------------------------------------
(* The handlers.                                                           *)

\* What every handler of a call does to the rest of the state, s calling.
Handled(s) ==
    /\ StepOfRooms
    /\ connected' = connected
    /\ queue' \subseteq queue \cup {s}
    /\ down' \in [Tabs -> Seq(Event)]
    /\ displaced' \subseteq Tabs
    /\ SearchersAreFree'

LEMMA OustedTabs ==
    ASSUME NEW t \in Tabs, NEW s, NEW places, displaced \subseteq Tabs,
           displaced' = (displaced \ {t}) \cup Ousted(s, places)
    PROVE  displaced' \subseteq Tabs
  BY TabAssumption DEF Ousted, Others

LEMMA StartChatHandled ==
    ASSUME RealtimeInv, NEW t \in Tabs, NEW s \in connected, StartChat(t, s)
    PROVE  Handled(s)
<1> DEFINE mine == {q \in queue : OwnerOf[q] = OwnerOf[s]}
           C == LeftBehind(s)
<1>1. /\ R!RoomsInv /\ R!SeatedIsPresent /\ R!TypeOK
      /\ connected \subseteq Sockets /\ queue \subseteq connected
      /\ open \subseteq RoomIds
      /\ down \in [Tabs -> Seq(Event)] /\ displaced \subseteq Tabs
      /\ \A x \in queue : R!SeatsOf(x) = {}
  BY DEF RealtimeInv, TypeOK, SearchersAreFree, R!TypeOK
<1>2. C = R!SeatsOf(s) /\ C \in SUBSET open /\ C \in SUBSET RoomIds
  BY <1>1, ConnectedRooms DEF LeftBehind
<1>3. displaced' \subseteq Tabs
  BY <1>1, OustedTabs DEF StartChat
<1>4. UNCHANGED <<connected, orphan>>
  BY DEF StartChat
<1>5. ASSUME NEW p \in queue \ mine, NEW r \in RoomIds,
             R!CreateMatch(C, r, s, p), queue' = queue \ (mine \cup {p}),
             Tell(Left(C, OwnerOf[s]) \cup {Msg(s, "matched", r), Msg(p, "matched", r)})
      PROVE  Handled(s)
  <2>1. s \in Sockets /\ p \in Sockets /\ p \in connected /\ OwnerOf[s] # OwnerOf[p]
    BY <1>1
  <2>2. R!Match(s, p, r)
    BY <1>4, <1>5, <2>1 DEF R!Match, LeftBehind
  <2>3. StepOfRooms
    BY <2>1, <2>2 DEF StepOfRooms, R!Next
  <2>4. \A m \in Left(C, OwnerOf[s]) \cup {Msg(s, "matched", r), Msg(p, "matched", r)} :
           m.what \in Event
    BY <1>2, LeftEvents, MsgEvents DEF Named
  <2>5. down' \in [Tabs -> Seq(Event)]
    BY <1>1, <1>5, <2>4, TellEvents
  <2>6. ASSUME NEW x \in queue'
        PROVE  R!SeatsOf(x)' = {}
    <3>1. x \in queue /\ x \in Sockets /\ x \notin {s, p}
      BY <1>1, <1>5
    <3>2. R!CreateMatch(C, r, s, p) /\ R!TypeOK /\ C \in SUBSET open
      BY <1>1, <1>2, <1>5
    <3> HIDE DEF C
    <3>3. R!SeatsOf(x)' = R!SeatsOf(x) \ C
      BY <2>1, <3>1, <3>2, CreateMatchSeats
    <3> QED
      BY <1>1, <3>1, <3>3
  <2> QED
    BY <1>3, <1>4, <1>5, <2>3, <2>5, <2>6 DEF Handled, SearchersAreFree
<1>6. ASSUME R!CloseAll(C, "skip"), queue' = (queue \ mine) \cup {s},
             Tell(Left(C, OwnerOf[s]))
      PROVE  Handled(s)
  <2>1. StepOfRooms
    <3>1. CASE C = {}
      BY <1>1, <1>4, <1>6, <3>1, CloseNothing DEF StepOfRooms
    <3>2. CASE C # {}
      <4>1. R!Search(s)
        BY <1>4, <1>6, <3>2 DEF R!Search, LeftBehind
      <4> QED
        BY <1>1, <4>1 DEF StepOfRooms, R!Next
    <3> QED
      BY <3>1, <3>2
  <2>2. down' \in [Tabs -> Seq(Event)]
    BY <1>1, <1>2, <1>6, LeftEvents, TellEvents
  <2>3. ASSUME NEW x \in queue'
        PROVE  R!SeatsOf(x)' = {}
    <3>1. x \in Sockets /\ (x = s \/ x \in queue)
      BY <1>1, <1>6
    <3>2. R!SeatsOf(x)' = R!SeatsOf(x) \ C
      BY <1>1, <1>2, <1>6, <3>1, CloseAllSeats
    <3> QED
      BY <1>1, <1>2, <3>1, <3>2
  <2> QED
    BY <1>3, <1>4, <1>6, <2>1, <2>2, <2>3 DEF Handled, SearchersAreFree
<1> QED
  BY <1>5, <1>6 DEF StartChat

LEMMA CancelMatchHandled ==
    ASSUME RealtimeInv, NEW s \in connected, CancelMatch(s)
    PROVE  Handled(s)
<1>1. RoomsKept /\ queue' = queue \ {s} /\ UNCHANGED <<down, displaced>>
  BY DEF CancelMatch, RoomsKept, roomMaps
<1>2. SearchersAreFree'
  BY <1>1, KeptSeats DEF RealtimeInv, SearchersAreFree
<1> QED
  BY <1>1, <1>2 DEF Handled, StepOfRooms, RoomsKept, roomMaps, RealtimeInv, TypeOK

LEMMA JoinDirectHandled ==
    ASSUME RealtimeInv, NEW t \in Tabs, NEW s \in connected, NEW friend \in Users,
           JoinDirect(t, s, friend)
    PROVE  Handled(s)
<1> DEFINE u == OwnerOf[s]
<1>1. PICK r \in RoomIds :
         /\ R!JoinDirect(s, friend, r)
         /\ queue' = QueueWithout(s)
         /\ Tell(IF friend \in on[r]
                 THEN {Msg(s, "direct_matched", r), Msg(seat[r][friend], "direct_matched", r)}
                 ELSE {Msg(s, "waiting", r)})
         /\ displaced' = (displaced \ {t}) \cup Ousted(s, {seat[r][u]})
  BY DEF JoinDirect
<1>2. /\ R!TypeOK /\ R!Seating /\ R!DirectIsExact
      /\ s \in Sockets /\ connected \subseteq Sockets /\ queue \subseteq connected
      /\ down \in [Tabs -> Seq(Event)] /\ displaced \subseteq Tabs
      /\ \A x \in queue : R!SeatsOf(x) = {}
  BY DEF RealtimeInv, TypeOK, SearchersAreFree, R!TypeOK, R!RoomsInv
<1>3. StepOfRooms /\ connected' = connected
  BY <1>1, <1>2 DEF StepOfRooms, R!Next, R!JoinDirect
<1>4. down' \in [Tabs -> Seq(Event)]
  <2>1. \A m \in (IF friend \in on[r]
                  THEN {Msg(s, "direct_matched", r), Msg(seat[r][friend], "direct_matched", r)}
                  ELSE {Msg(s, "waiting", r)}) : m.what \in Event
    BY MsgEvents DEF Named
  <2> QED
    BY <1>1, <1>2, <2>1, TellEvents
<1>5. displaced' \subseteq Tabs
  BY <1>1, <1>2, OustedTabs
<1>6. ASSUME NEW x \in queue'
      PROVE  R!SeatsOf(x)' = {}
  <2>1. x \in queue /\ x # s /\ x \in Sockets
    BY <1>1, <1>2 DEF QueueWithout
  <2>2. R!TakeSeat(r, u, s) /\ open' = open \cup {r}
    BY <1>1 DEF R!JoinDirect
  <2>3. r \in open \/ seat[r] = R!EmptySeats
    BY <1>2 DEF R!Seating
  <2> QED
    BY <1>2, <2>1, <2>2, <2>3, TakeSeatSeats
<1> QED
  BY <1>1, <1>3, <1>4, <1>5, <1>6 DEF Handled, SearchersAreFree, QueueWithout

LEMMA SkipHandled ==
    ASSUME RealtimeInv, NEW s \in connected, NEW r \in RoomIds, Skip(s, r)
    PROVE  Handled(s)
<1>1. /\ R!TypeOK /\ s \in Sockets /\ connected \subseteq Sockets
      /\ queue \subseteq connected /\ down \in [Tabs -> Seq(Event)] /\ displaced \subseteq Tabs
      /\ \A x \in queue : R!SeatsOf(x) = {}
  BY DEF RealtimeInv, TypeOK, SearchersAreFree, R!TypeOK
<1>2. ASSUME R!Access(r, s), NEW reason, reason = IF key[r] = {} THEN "skip" ELSE "left",
             R!CloseAll({r}, reason), Tell(Left({r}, OwnerOf[s])),
             UNCHANGED <<connected, orphan, queue, displaced>>
      PROVE  Handled(s)
  <2>1. R!Leave(r, s)
    BY <1>2 DEF R!Leave
  <2>2. StepOfRooms
    BY <1>1, <2>1 DEF StepOfRooms, R!Next
  <2>3. down' \in [Tabs -> Seq(Event)]
    BY <1>1, <1>2, LeftEvents, TellEvents
  <2>4. {r} \in SUBSET open
    BY <1>2 DEF R!Access
  <2>5. \A x \in queue : R!SeatsOf(x)' = R!SeatsOf(x) \ {r}
    BY <1>1, <1>2, <2>4, CloseAllSeats
  <2> QED
    BY <1>1, <1>2, <2>2, <2>3, <2>5 DEF Handled, SearchersAreFree
<1>3. CASE UNCHANGED <<roomVars, queue, down, displaced>>
  <2>1. RoomsKept
    BY <1>3 DEF RoomsKept, roomMaps, roomVars
  <2> QED
    BY <1>1, <1>3, <2>1, KeptSeats DEF Handled, StepOfRooms, SearchersAreFree, roomVars
<1> QED
  BY <1>2, <1>3 DEF Skip

\* That rejoin is never called from the queue is what TabsFit says of it.
LEMMA RejoinHandled ==
    ASSUME RealtimeInv, NEW t \in Tabs, NEW s \in connected, NEW r \in RoomIds,
           s \notin queue, Rejoin(t, s, r)
    PROVE  Handled(s)
<1>1. /\ R!TypeOK /\ s \in Sockets /\ connected \subseteq Sockets
      /\ queue \subseteq connected /\ down \in [Tabs -> Seq(Event)] /\ displaced \subseteq Tabs
      /\ \A x \in queue : R!SeatsOf(x) = {}
  BY DEF RealtimeInv, TypeOK, SearchersAreFree, R!TypeOK
<1>2. ASSUME R!Rejoin(r, s), UNCHANGED <<queue, down>>,
             displaced' = (displaced \ {t}) \cup Ousted(s, {seat[r][OwnerOf[s]]})
      PROVE  Handled(s)
  <2>1. StepOfRooms /\ connected' = connected
    BY <1>1, <1>2 DEF StepOfRooms, R!Next, R!Rejoin
  <2>2. displaced' \subseteq Tabs
    BY <1>1, <1>2, OustedTabs
  <2>3. R!TakeSeat(r, OwnerOf[s], s) /\ r \in open /\ open' = open \cup {r}
    BY <1>2 DEF R!Rejoin
  <2>4. \A x \in queue : R!SeatsOf(x)' \subseteq R!SeatsOf(x)
    BY <1>1, <2>3, TakeSeatSeats
  <2> QED
    BY <1>1, <1>2, <2>1, <2>2, <2>4 DEF Handled, SearchersAreFree
<1>3. ASSUME Tell({Msg(s, "gone", r)}), UNCHANGED <<roomVars, queue, displaced>>
      PROVE  Handled(s)
  <2>1. RoomsKept
    BY <1>3 DEF RoomsKept, roomMaps, roomVars
  <2>2. \A m \in {Msg(s, "gone", r)} : m.what \in Event
    BY MsgEvents DEF Named
  <2>3. down' \in [Tabs -> Seq(Event)]
    BY <1>1, <1>3, <2>2, TellEvents
  <2> QED
    BY <1>1, <1>3, <2>1, <2>3, KeptSeats DEF Handled, StepOfRooms, SearchersAreFree, roomVars
<1> QED
  BY <1>2, <1>3 DEF Rejoin

LEMMA RefusalEvents ==
    ASSUME NEW s, NEW c \in Call
    PROVE  \A m \in (CASE c.op = "join_direct" -> {[to |-> s, what |-> [ev |-> "refused"]]}
                       [] c.op = "rejoin" -> {Msg(s, "gone", c.room)}
                       [] OTHER -> {}) : m.what \in Event
<1> DEFINE sent == CASE c.op = "join_direct" -> {[to |-> s, what |-> [ev |-> "refused"]]}
                     [] c.op = "rejoin" -> {Msg(s, "gone", c.room)}
                     [] OTHER -> {}
<1>1. CASE c.op = "join_direct"
  BY <1>1 DEF Event
<1>2. CASE c.op = "rejoin"
  <2>1. c.room \in RoomIds /\ "gone" \in Named
    BY <1>2 DEF Call, Named
  <2>2. sent = {Msg(s, "gone", c.room)}
    BY <1>2
  <2>3. \A m \in sent : m.what \in Event
    <3> HIDE DEF sent
    <3> QED
      BY <2>1, <2>2, MsgEvents
  <2> QED
    BY <2>3
<1>3. CASE c.op \notin {"join_direct", "rejoin"}
  BY <1>3
<1> QED
  BY <1>1, <1>2, <1>3

\* A call the limiter drops leaves the rooms and the queue as they are.
LEMMA RefuseHandled ==
    ASSUME RealtimeInv, NEW s \in connected, NEW c \in Call, Refuse(s, c)
    PROVE  Handled(s)
<1> DEFINE sent == CASE c.op = "join_direct" -> {[to |-> s, what |-> [ev |-> "refused"]]}
                     [] c.op = "rejoin" -> {Msg(s, "gone", c.room)}
                     [] OTHER -> {}
<1>1. /\ queue \subseteq connected
      /\ down \in [Tabs -> Seq(Event)] /\ displaced \subseteq Tabs
      /\ \A x \in queue : R!SeatsOf(x) = {}
  BY DEF RealtimeInv, TypeOK, SearchersAreFree
<1>2. Tell(sent) /\ UNCHANGED <<roomVars, queue, displaced>>
  BY DEF Refuse
<1>3. RoomsKept
  BY <1>2 DEF RoomsKept, roomMaps, roomVars
<1>4. \A m \in sent : m.what \in Event
  BY RefusalEvents
<1> HIDE DEF sent
<1>5. down' \in [Tabs -> Seq(Event)]
  BY <1>1, <1>2, <1>4, TellEvents
<1>6. SearchersAreFree'
  BY <1>1, <1>2, <1>3, KeptSeats DEF SearchersAreFree
<1> QED
  BY <1>1, <1>2, <1>3, <1>5, <1>6 DEF Handled, StepOfRooms, roomVars

-----------------------------------------------------------------------------
(* Steps of the whole state: each keeps the invariant, and is for the      *)
(* rooms one of theirs.                                                    *)

Kept == RealtimeInv' /\ StepOfRooms

\* The parts of TypeOK beside the rooms.
QueueTypes == queue \subseteq connected /\ banned \subseteq Users
                /\ kicking \in Users \cup {Nobody}
TabTypes == /\ screen \in [Tabs -> Screen]
            /\ sock \in [Tabs -> Sockets \cup {NoSocket}]
            /\ up \in [Tabs -> Seq(Call)] /\ strayed \subseteq Tabs
            /\ clicks \in 0..MaxClicks
EventTypes == /\ down \in [Tabs -> Seq(Event)] /\ displaced \subseteq Tabs
              /\ faults \in 0..MaxFaults

LEMMA InvParts ==
    ASSUME RealtimeInv
    PROVE  /\ R!RoomsInv /\ R!SeatedIsPresent /\ R!TypeOK /\ R!Seating
           /\ connected \subseteq Sockets /\ open \subseteq RoomIds
           /\ QueueTypes /\ TabTypes /\ EventTypes
           /\ SearchersAreFree /\ TabsFit /\ BannedAreGone
  BY DEF RealtimeInv, TypeOK, R!RoomsInv, R!TypeOK, QueueTypes, TabTypes, EventTypes

LEMMA KeptParts ==
    ASSUME RealtimeInv, StepOfRooms, QueueTypes', TabTypes', EventTypes',
           SearchersAreFree', TabsFit', BannedAreGone'
    PROVE  Kept
<1>1. R!RoomsInv' /\ R!SeatedIsPresent'
  BY InvParts, StepKeepsRooms
<1>2. TypeOK'
  BY <1>1 DEF TypeOK, R!RoomsInv, QueueTypes, TabTypes, EventTypes
<1> QED
  BY <1>1, <1>2 DEF Kept, RealtimeInv

\* A step of the server that changes no tab.
LEMMA TabsKept ==
    ASSUME RealtimeInv, UNCHANGED tabVars, queue' \subseteq queue
    PROVE  TabTypes' /\ TabsFit'
<1>1. UNCHANGED <<screen, sock, up, strayed, clicks>>
  BY DEF tabVars
<1>2. TabTypes'
  BY <1>1, InvParts DEF TabTypes
<1>3. TabsFit'
  BY <1>1, InvParts DEF TabsFit
<1> QED
  BY <1>2, <1>3

LEMMA FaultCounted ==
    ASSUME RealtimeInv, Fault
    PROVE  faults' \in 0..MaxFaults
  BY InvParts, SizeAssumption DEF Fault, EventTypes

LEMMA StillGone ==
    ASSUME RealtimeInv, connected' \subseteq connected, UNCHANGED <<banned, kicking>>
    PROVE  BannedAreGone'
  BY InvParts DEF BannedAreGone

LEMMA HandleKept ==
    ASSUME RealtimeInv, NEW t \in Tabs, Handle(t)
    PROVE  Kept
<1> DEFINE s == sock[t]
           c == Head(up[t])
<1>1. /\ QueueTypes /\ TabTypes /\ EventTypes /\ TabsFit /\ connected \subseteq Sockets
      /\ s \in connected /\ up[t] # <<>>
      /\ up' = [up EXCEPT ![t] = Tail(@)]
      /\ UNCHANGED <<banned, kicking, screen, sock, clicks>>
  BY InvParts DEF Handle, Received
<1>2. up[t] \in Seq(Call)
  BY <1>1 DEF TabTypes
<1>3. c \in Call /\ 1 \in DOMAIN up[t] /\ c = up[t][1]
  BY <1>1, <1>2
<1>4. /\ c.op = "join_direct" => c.friend \in Users
      /\ c.op \in {"skip", "rejoin"} => c.room \in RoomIds
      /\ c.op = "rejoin" => s \notin queue
  <2>1. c.op = "rejoin" => s \notin queue
    BY <1>1, <1>3 DEF TabsFit
  <2> QED
    BY <1>3, <2>1 DEF Call
<1>5. Handled(s)
  <2> HIDE DEF c, s
  <2>1. Answer(t, s, c) \/ Refuse(s, c)
    BY DEF Handle, c, s
  <2>2. CASE Answer(t, s, c)
    BY <1>1, <1>4, <2>2, StartChatHandled, CancelMatchHandled, JoinDirectHandled,
       SkipHandled, RejoinHandled DEF Answer
  <2>3. CASE Refuse(s, c)
    BY <1>1, <1>3, <2>3, RefuseHandled
  <2> QED
    BY <2>1, <2>2, <2>3
<1>6. strayed' \subseteq Tabs /\ faults' \in 0..MaxFaults
  <2>1. CASE UNCHANGED faults
    BY <1>1, <2>1 DEF Handle, TabTypes, EventTypes
  <2>2. CASE Refuse(s, c)
    BY <1>1, <2>2, FaultCounted DEF Handle, Refuse, TabTypes
  <2> QED
    BY <1>1, <2>1, <2>2, FaultCounted DEF Handle, TabTypes
<1>7. /\ StepOfRooms /\ connected' = connected /\ queue' \subseteq queue \cup {s}
      /\ down' \in [Tabs -> Seq(Event)] /\ displaced' \subseteq Tabs /\ SearchersAreFree'
  BY <1>5 DEF Handled
<1>8. QueueTypes' /\ EventTypes'
  BY <1>1, <1>7, <1>6 DEF QueueTypes, EventTypes
<1>9. /\ Tail(up[t]) \in Seq(Call)
      /\ \A i \in DOMAIN Tail(up[t]) : Tail(up[t])[i].op # "rejoin"
  <2>1. \A i \in DOMAIN up[t] : up[t][i].op = "rejoin" => i = 1
    BY <1>1 DEF TabsFit
  <2>2. \A i \in DOMAIN Tail(up[t]) :
           i + 1 \in DOMAIN up[t] /\ Tail(up[t])[i] = up[t][i + 1] /\ i + 1 # 1
    BY <1>1, <1>2
  <2>3. Tail(up[t]) \in Seq(Call)
    BY <1>1, <1>2
  <2> QED
    BY <2>1, <2>2, <2>3
<1>10. TabTypes'
  BY <1>1, <1>9, <1>6 DEF TabTypes
<1>11. TabsFit'
  <2> SUFFICES ASSUME NEW x \in Tabs
               PROVE  /\ sock[x] \in Sockets => TabOf[sock[x]] = x
                      /\ sock[x] = NoSocket => up'[x] = <<>>
                      /\ \A i \in DOMAIN up'[x] :
                            up'[x][i].op = "rejoin" => i = 1 /\ sock[x] \notin queue'
    BY <1>1 DEF TabsFit
  <2>1. CASE x = t
    <3>1. up'[x] = Tail(up[t]) /\ sock[x] # NoSocket
      BY <1>1, <2>1, NoneAssumption DEF TabTypes
    <3> QED
      BY <1>1, <1>9, <2>1, <3>1 DEF TabsFit
  <2>2. CASE x # t
    <3>1. up'[x] = up[x]
      BY <1>1, <2>2 DEF TabTypes
    <3>2. sock[x] # s
      BY <1>1, <2>2 DEF TabsFit
    <3> QED
      BY <1>1, <1>7, <3>1, <3>2 DEF TabsFit
  <2> QED
    BY <2>1, <2>2
<1>12. BannedAreGone'
  BY <1>1, <1>7, StillGone
<1> QED
  BY <1>7, <1>8, <1>10, <1>11, <1>12, KeptParts

LEMMA SweepPairsKept ==
    ASSUME RealtimeInv, NEW s \in Sockets, NEW p \in Sockets, SweepPairs(s, p)
    PROVE  Kept
<1>1. /\ R!TypeOK /\ QueueTypes /\ EventTypes /\ SearchersAreFree
      /\ connected \subseteq Sockets
      /\ {s, p} \subseteq queue /\ OwnerOf[s] # OwnerOf[p]
      /\ queue' = queue \ {s, p}
      /\ UNCHANGED <<connected, orphan, banned, kicking, displaced, faults>>
      /\ UNCHANGED tabVars
  BY InvParts DEF SweepPairs
<1>2. PICK r \in RoomIds : /\ R!CreateMatch({}, r, s, p)
                           /\ Tell({Msg(s, "matched", r), Msg(p, "matched", r)})
  BY DEF SweepPairs
<1>3. StepOfRooms
  <2>1. R!Match(s, p, r)
    BY <1>1, <1>2 DEF R!Match, QueueTypes
  <2> QED
    BY <2>1 DEF StepOfRooms, R!Next
<1>4. down' \in [Tabs -> Seq(Event)]
  <2>1. \A m \in {Msg(s, "matched", r), Msg(p, "matched", r)} : m.what \in Event
    BY MsgEvents DEF Named
  <2> QED
    BY <1>1, <1>2, <2>1, TellEvents DEF EventTypes
<1>5. SearchersAreFree'
  <2> SUFFICES ASSUME NEW x \in queue' PROVE R!SeatsOf(x)' = {}
    BY DEF SearchersAreFree
  <2>1. x \in queue /\ x \in Sockets /\ x \notin {s, p}
    BY <1>1 DEF QueueTypes
  <2>2. R!SeatsOf(x)' = R!SeatsOf(x) \ {}
    <3> DEFINE none == {}
    <3>1. none \in SUBSET open /\ R!CreateMatch(none, r, s, p) /\ R!TypeOK
      BY <1>1, <1>2
    <3>2. OwnerOf[s] # OwnerOf[p]
      BY <1>1
    <3> HIDE DEF none
    <3>3. R!SeatsOf(x)' = R!SeatsOf(x) \ none
      BY <2>1, <3>1, <3>2, CreateMatchSeats
    <3> QED
      BY <3>3 DEF none
  <2> QED
    BY <1>1, <2>1, <2>2 DEF SearchersAreFree
<1>6. QueueTypes' /\ EventTypes'
  BY <1>1, <1>4 DEF QueueTypes, EventTypes
<1>7. TabTypes' /\ TabsFit'
  BY <1>1, TabsKept
<1>8. BannedAreGone'
  BY <1>1, StillGone
<1> QED
  BY <1>3, <1>5, <1>6, <1>7, <1>8, KeptParts

LEMMA SweepGivesUpKept ==
    ASSUME RealtimeInv, NEW s \in Sockets, SweepGivesUp(s)
    PROVE  Kept
<1>1. /\ QueueTypes /\ EventTypes /\ SearchersAreFree
      /\ queue' = queue \ {s}
      /\ Tell({[to |-> s, what |-> [ev |-> "search_timeout"]]})
      /\ UNCHANGED <<banned, kicking, displaced>> /\ UNCHANGED tabVars /\ RoomsKept
      /\ UNCHANGED connected
  BY InvParts DEF SweepGivesUp, RoomsKept, roomMaps, roomVars
<1>2. down' \in [Tabs -> Seq(Event)]
  <2>1. \A m \in {[to |-> s, what |-> [ev |-> "search_timeout"]]} : m.what \in Event
    BY DEF Event
  <2> QED
    BY <1>1, <2>1, TellEvents DEF EventTypes
<1>3. faults' \in 0..MaxFaults
  BY FaultCounted DEF SweepGivesUp
<1>4. QueueTypes' /\ EventTypes'
  BY <1>1, <1>2, <1>3 DEF QueueTypes, EventTypes
<1>5. SearchersAreFree'
  BY <1>1, KeptSeats DEF SearchersAreFree
<1>6. TabTypes' /\ TabsFit' /\ BannedAreGone'
  BY <1>1, TabsKept, StillGone
<1> QED
  BY <1>1, <1>4, <1>5, <1>6, KeptParts DEF StepOfRooms

\* The disconnect handler, whoever broke the connection.
LEMMA GoneFrees ==
    ASSUME RealtimeInv, NEW s \in Sockets, Gone(s)
    PROVE  /\ StepOfRooms /\ SearchersAreFree'
           /\ connected' = connected \ {s} /\ queue' = queue \ {s}
           /\ queue' \subseteq connected'
<1>1. R!TypeOK /\ SearchersAreFree /\ QueueTypes /\ connected \subseteq Sockets
  BY InvParts
<1>2. R!Disconnect(s) /\ connected' = connected \ {s} /\ queue' = queue \ {s}
  BY DEF Gone, R!Disconnect
<1>3. StepOfRooms
  BY <1>2 DEF StepOfRooms, R!Next
<1>4. SearchersAreFree'
  <2> SUFFICES ASSUME NEW x \in queue' PROVE R!SeatsOf(x)' = {}
    BY DEF SearchersAreFree
  <2>1. x \in queue /\ x \in Sockets
    BY <1>1, <1>2 DEF QueueTypes
  <2>2. R!SeatsOf(x)' \subseteq R!SeatsOf(x)
    BY <1>1, <1>2, <2>1, DisconnectSeats
  <2> QED
    BY <1>1, <2>1, <2>2 DEF SearchersAreFree
<1> QED
  BY <1>1, <1>2, <1>3, <1>4 DEF QueueTypes

LEMMA PingTimeoutKept ==
    ASSUME RealtimeInv, NEW s \in Sockets, PingTimeout(s)
    PROVE  Kept
<1>1. /\ Gone(s) /\ QueueTypes /\ EventTypes
      /\ UNCHANGED <<banned, kicking, down, displaced, faults>> /\ UNCHANGED tabVars
  BY InvParts DEF PingTimeout
<1>2. /\ StepOfRooms /\ SearchersAreFree' /\ connected' \subseteq connected
      /\ queue' \subseteq queue /\ queue' \subseteq connected'
  BY <1>1, GoneFrees
<1>3. QueueTypes' /\ EventTypes'
  BY <1>1, <1>2 DEF QueueTypes, EventTypes
<1>4. TabTypes' /\ TabsFit' /\ BannedAreGone'
  BY <1>1, <1>2, TabsKept, StillGone
<1> QED
  BY <1>2, <1>3, <1>4, KeptParts

\* A tab whose connection is gone, by a break or a kick.
LEMMA TabCut ==
    ASSUME RealtimeInv, NEW t \in Tabs, queue' \subseteq queue,
           sock' = [sock EXCEPT ![t] = NoSocket], up' = [up EXCEPT ![t] = <<>>],
           strayed' = strayed \ {t}, screen' \in [Tabs -> Screen], UNCHANGED clicks
    PROVE  TabTypes' /\ TabsFit'
<1>1. TabTypes /\ TabsFit
  BY InvParts
<1>2. <<>> \in Seq(Call)
  OBVIOUS
<1>3. TabTypes'
  BY <1>1, <1>2 DEF TabTypes
<1>4. ASSUME NEW x \in Tabs
      PROVE  /\ sock'[x] = IF x = t THEN NoSocket ELSE sock[x]
             /\ up'[x] = IF x = t THEN <<>> ELSE up[x]
  BY <1>1 DEF TabTypes
<1>5. DOMAIN <<>> = {}
  OBVIOUS
<1>6. TabsFit'
  BY <1>1, <1>4, <1>5, NoneAssumption DEF TabsFit
<1> QED
  BY <1>3, <1>6

LEMMA KickSocketKept ==
    ASSUME RealtimeInv, NEW s \in Sockets, KickSocket(s)
    PROVE  Kept
<1> DEFINE t == TabOf[s]
<1>1. /\ Gone(s) /\ QueueTypes /\ EventTypes /\ TabTypes /\ TabsFit /\ BannedAreGone
      /\ connected \subseteq Sockets
      /\ kicking # Nobody /\ s \in Kicked(kicking)
      /\ kicking' = IF Kicked(kicking) = {s} THEN Nobody ELSE kicking
      /\ UNCHANGED <<banned, displaced, clicks, faults>>
      /\ t \in Tabs
  BY InvParts, TabAssumption DEF KickSocket
<1>2. /\ StepOfRooms /\ SearchersAreFree' /\ connected' = connected \ {s}
      /\ queue' \subseteq queue /\ queue' \subseteq connected'
  BY <1>1, GoneFrees
<1>3. TabTypes' /\ TabsFit' /\ down' \in [Tabs -> Seq(Event)]
  <2>1. CASE sock[t] = s
    <3>1. /\ screen' = [screen EXCEPT ![t] = [name |-> "out"]]
          /\ sock' = [sock EXCEPT ![t] = NoSocket] /\ up' = [up EXCEPT ![t] = <<>>]
          /\ down' = [down EXCEPT ![t] = <<>>] /\ strayed' = strayed \ {t}
      BY <2>1 DEF KickSocket
    <3>2. screen' \in [Tabs -> Screen]
      BY <1>1, <3>1 DEF TabTypes, Screen
    <3>3. <<>> \in Seq(Event)
      OBVIOUS
    <3>4. down' \in [Tabs -> Seq(Event)]
      BY <1>1, <3>1, <3>3 DEF EventTypes
    <3> QED
      BY <1>1, <1>2, <3>1, <3>2, <3>4, TabCut
  <2>2. CASE sock[t] # s
    <3>1. UNCHANGED <<screen, sock, up, strayed, down>>
      BY <2>2 DEF KickSocket
    <3>2. UNCHANGED tabVars
      BY <1>1, <3>1 DEF tabVars
    <3> QED
      BY <1>1, <1>2, <3>1, <3>2, TabsKept DEF EventTypes
  <2> QED
    BY <2>1, <2>2
<1>4. QueueTypes' /\ EventTypes'
  BY <1>1, <1>2, <1>3 DEF QueueTypes, EventTypes
<1>5. BannedAreGone'
  <2> SUFFICES ASSUME NEW x \in connected', OwnerOf[x] \in banned
               PROVE  OwnerOf[x] = kicking'
    BY <1>1 DEF BannedAreGone
  <2>1. x \in connected /\ x # s /\ OwnerOf[x] = kicking
    BY <1>1, <1>2 DEF BannedAreGone
  <2>2. x \in Kicked(kicking)
    BY <2>1 DEF Kicked
  <2> QED
    BY <1>1, <2>1, <2>2
<1> QED
  BY <1>2, <1>3, <1>4, <1>5, KeptParts

LEMMA TimerKept ==
    ASSUME RealtimeInv, NEW r \in RoomIds, Timer(r)
    PROVE  Kept
<1>1. /\ R!TypeOK /\ R!Seating /\ QueueTypes /\ EventTypes /\ SearchersAreFree
      /\ connected \subseteq Sockets /\ open \subseteq RoomIds
      /\ UNCHANGED <<queue, banned, kicking>> /\ UNCHANGED tabVars
  BY InvParts DEF Timer
<1>2. \A x \in queue : x \in Sockets /\ R!SeatsOf(x) = {}
  BY <1>1 DEF QueueTypes, SearchersAreFree
<1>3. ASSUME NEW reason, NEW actor, r \in open, R!CloseAll({r}, reason),
             Tell(Left({r}, actor))
      PROVE  SearchersAreFree' /\ down' \in [Tabs -> Seq(Event)]
  <2>1. {r} \in SUBSET open
    BY <1>3
  <2>2. \A x \in queue : R!SeatsOf(x)' = R!SeatsOf(x) \ {r}
    BY <1>1, <1>2, <1>3, <2>1, CloseAllSeats
  <2>3. down' \in [Tabs -> Seq(Event)]
    BY <1>1, <1>3, LeftEvents, TellEvents DEF EventTypes
  <2> QED
    BY <1>1, <1>2, <2>2, <2>3 DEF SearchersAreFree
<1>4. /\ StepOfRooms /\ SearchersAreFree' /\ connected' = connected
      /\ down' \in [Tabs -> Seq(Event)] /\ displaced' \subseteq Tabs /\ faults' \in 0..MaxFaults
  <2>1. CASE R!Expire(r) /\ Fault /\ Tell(Left({r}, Nobody)) /\ UNCHANGED displaced
    <3>1. R!CloseAll({r}, "timeout") /\ r \in open /\ connected' = connected
      BY <2>1 DEF R!Expire
    <3>2. StepOfRooms
      BY <2>1 DEF StepOfRooms, R!Next
    <3>3. SearchersAreFree' /\ down' \in [Tabs -> Seq(Event)]
      BY <1>3, <2>1, <3>1
    <3> QED
      BY <1>1, <2>1, <3>1, <3>2, <3>3, FaultCounted DEF EventTypes
  <2>2. ASSUME NEW u \in Users, UNCHANGED faults,
               R!GraceEnds(r, u), Tell(Left({r}, u)), UNCHANGED displaced
        PROVE  <1>4
    <3>1. R!CloseAll({r}, "disconnect") /\ connected' = connected /\ r \in open
      BY <1>1, <2>2 DEF R!GraceEnds, R!Seating
    <3>2. StepOfRooms
      BY <2>2 DEF StepOfRooms, R!Next
    <3>3. SearchersAreFree' /\ down' \in [Tabs -> Seq(Event)]
      BY <1>3, <2>2, <3>1
    <3> QED
      BY <1>1, <2>2, <3>1, <3>2, <3>3 DEF EventTypes
  <2>3. ASSUME NEW u \in Users, UNCHANGED faults,
               R!OrphanEnds(r, u), Tell(Left({r} \cap open, u)),
               displaced' = displaced \cup {TabOf[s] : s \in {seat[r][u]} \ {NoSocket}}
        PROVE  <1>4
    <3>1. StepOfRooms /\ connected' = connected
      BY <2>3 DEF StepOfRooms, R!Next, R!OrphanEnds
    <3>2. displaced' \subseteq Tabs
      BY <1>1, <2>3, TabAssumption DEF EventTypes, R!TypeOK
    <3>3. SearchersAreFree' /\ down' \in [Tabs -> Seq(Event)]
      <4>1. CASE r \in open /\ R!CloseAll({r}, "disconnect")
        <5>1. {r} \cap open = {r}
          BY <4>1
        <5> QED
          BY <1>3, <2>3, <4>1, <5>1
      <4>2. CASE UNCHANGED <<open, key, seat, on, grace, bySocket, direct>>
        <5>1. {r} \cap open \in SUBSET RoomIds
          OBVIOUS
        <5>2. down' \in [Tabs -> Seq(Event)]
          BY <1>1, <2>3, <5>1, LeftEvents, TellEvents DEF EventTypes
        <5> QED
          BY <1>1, <4>2, <5>2 DEF SearchersAreFree, R!SeatsOf
      <4> QED
        BY <2>3, <4>1, <4>2 DEF R!OrphanEnds
    <3> QED
      BY <1>1, <2>3, <3>1, <3>2, <3>3 DEF EventTypes
  <2> QED
    BY <2>1, <2>2, <2>3 DEF Timer
<1>5. QueueTypes' /\ EventTypes'
  BY <1>1, <1>4 DEF QueueTypes, EventTypes
<1>6. TabTypes' /\ TabsFit' /\ BannedAreGone'
  BY <1>1, <1>4, TabsKept, StillGone
<1> QED
  BY <1>4, <1>5, <1>6, KeptParts

\* From here on every connection of the suspended user is kickUser()'s to
\* close, and no other user's is.
LEMMA KickKept ==
    ASSUME RealtimeInv, NEW u \in Users, Kick(u)
    PROVE  Kept
<1>1. /\ QueueTypes /\ EventTypes /\ SearchersAreFree /\ BannedAreGone
      /\ connected \subseteq Sockets
      /\ kicking = Nobody
      /\ banned' = banned \cup {u}
      /\ queue' = {s \in queue : OwnerOf[s] # u}
      /\ kicking' = IF Kicked(u) = {} THEN Nobody ELSE u
      /\ UNCHANGED <<down, displaced>> /\ UNCHANGED tabVars
      /\ RoomsKept /\ UNCHANGED connected
  BY InvParts DEF Kick, Running, RoomsKept, roomMaps, roomVars
<1>2. faults' \in 0..MaxFaults
  BY FaultCounted DEF Kick
<1>3. QueueTypes' /\ EventTypes'
  BY <1>1, <1>2 DEF QueueTypes, EventTypes
<1>4. SearchersAreFree'
  BY <1>1, KeptSeats DEF SearchersAreFree
<1>5. BannedAreGone'
  <2> SUFFICES ASSUME NEW s \in connected, OwnerOf[s] \in banned \cup {u}
               PROVE  OwnerOf[s] = kicking'
    BY <1>1 DEF BannedAreGone
  <2>1. OwnerOf[s] # Nobody
    BY <1>1, OwnersAreUsers, NoneAssumption
  <2>2. OwnerOf[s] = u
    BY <1>1, <2>1 DEF BannedAreGone
  <2>3. s \in Kicked(u)
    BY <2>2 DEF Kicked
  <2> QED
    BY <1>1, <2>2, <2>3
<1>6. TabTypes' /\ TabsFit'
  BY <1>1, TabsKept
<1> QED
  BY <1>1, <1>3, <1>4, <1>5, <1>6, KeptParts DEF StepOfRooms

\* What a tab shows whose connection has gone.
LEMMA CutOffScreens ==
    ASSUME screen \in [Tabs -> Screen], NEW t \in Tabs
    PROVE  CutOff(t) \in Screen
<1>1. Dashboard \in Screen /\ Matching \in Screen
  BY DEF Dashboard, Matching, Screen
<1> QED
  BY <1>1 DEF CutOff, AfterEnd

LEMMA RestartKept ==
    ASSUME RealtimeInv, Restart
    PROVE  Kept
<1>1. /\ QueueTypes /\ EventTypes /\ TabTypes
      /\ connected' = {} /\ Emptied' /\ queue' = {}
      /\ sock' = [t \in Tabs |-> NoSocket]
      /\ up' = [t \in Tabs |-> <<>>] /\ down' = [t \in Tabs |-> <<>>]
      /\ strayed' = {} /\ screen' = [t \in Tabs |-> CutOff(t)]
      /\ UNCHANGED <<banned, kicking, displaced, clicks>>
  BY InvParts DEF Restart, Emptied, R!EmptySeats, R!Pairs
<1>2. faults' \in 0..MaxFaults
  BY FaultCounted DEF Restart
<1>3. <<>> \in Seq(Call) /\ <<>> \in Seq(Event) /\ DOMAIN <<>> = {}
  OBVIOUS
<1>4. screen' \in [Tabs -> Screen]
  BY <1>1, CutOffScreens DEF TabTypes
<1>5. QueueTypes' /\ EventTypes' /\ TabTypes'
  BY <1>1, <1>2, <1>3, <1>4 DEF QueueTypes, EventTypes, TabTypes
<1>6. TabsFit' /\ SearchersAreFree' /\ BannedAreGone'
  BY <1>1, <1>3, NoneAssumption DEF TabsFit, SearchersAreFree, BannedAreGone
<1> QED
  BY <1>1, <1>5, <1>6, KeptParts DEF StepOfRooms

-----------------------------------------------------------------------------
(* The tabs.                                                               *)

NoRejoin(calls) == \A i \in DOMAIN calls : calls[i].op # "rejoin"

LEMMA JoinedCalls ==
    ASSUME NEW a \in Seq(Call), NEW b \in Seq(Call), NoRejoin(b)
    PROVE  /\ a \o b \in Seq(Call)
           /\ \A i \in DOMAIN (a \o b) :
                 (a \o b)[i].op = "rejoin" => i \in DOMAIN a /\ a[i].op = "rejoin"
<1>1. a \o b \in Seq(Call)
  OBVIOUS
<1>2. ASSUME NEW i \in DOMAIN (a \o b)
      PROVE  \/ i \in DOMAIN a /\ (a \o b)[i] = a[i]
             \/ i - Len(a) \in DOMAIN b /\ (a \o b)[i] = b[i - Len(a)]
  OBVIOUS
<1> QED
  BY <1>1, <1>2 DEF NoRejoin

\* A screen that is entered calls after what the tab has called before, and
\* never rejoins.
LEMMA ShowFits ==
    ASSUME RealtimeInv, NEW t \in Tabs, NEW first \in Seq(Call), NoRejoin(first),
           NEW scr \in Screen, Show(t, first, scr), UNCHANGED <<sock, queue>>
    PROVE  /\ screen' \in [Tabs -> Screen] /\ strayed' \subseteq Tabs
           /\ up' \in [Tabs -> Seq(Call)] /\ TabsFit'
<1> DEFINE before == up[t] \o first
           own == CallOf(scr)
           calls == before \o own
<1>1. /\ TabTypes /\ TabsFit
      /\ screen' = [screen EXCEPT ![t] = scr] /\ strayed' = strayed \ {t}
      /\ up' = [up EXCEPT ![t] = IF sock[t] = NoSocket THEN <<>> ELSE calls]
  BY InvParts DEF Show
<1>2. up[t] \in Seq(Call)
  BY <1>1 DEF TabTypes
<1>3. own \in Seq(Call) /\ NoRejoin(own)
  BY CallsOf DEF NoRejoin
<1>4. /\ before \in Seq(Call)
      /\ \A i \in DOMAIN before :
            before[i].op = "rejoin" => i \in DOMAIN up[t] /\ up[t][i].op = "rejoin"
  BY <1>2, JoinedCalls
<1> HIDE DEF before, own
<1>5. /\ calls \in Seq(Call)
      /\ \A i \in DOMAIN calls :
            calls[i].op = "rejoin" => i \in DOMAIN up[t] /\ up[t][i].op = "rejoin"
  <2>1. \A i \in DOMAIN calls :
            calls[i].op = "rejoin" => i \in DOMAIN before /\ before[i].op = "rejoin"
    BY <1>3, <1>4, JoinedCalls
  <2>2. calls \in Seq(Call)
    BY <1>3, <1>4
  <2> QED
    BY <1>4, <2>1, <2>2
<1> HIDE DEF calls
<1>6. <<>> \in Seq(Call) /\ DOMAIN <<>> = {}
  OBVIOUS
<1>7. up' \in [Tabs -> Seq(Call)]
  BY <1>1, <1>5, <1>6 DEF TabTypes
<1>8. ASSUME NEW x \in Tabs
      PROVE  up'[x] = IF x = t THEN IF sock[t] = NoSocket THEN <<>> ELSE calls ELSE up[x]
  BY <1>1 DEF TabTypes
<1>9. TabsFit'
  BY <1>1, <1>5, <1>6, <1>8 DEF TabsFit
<1> QED
  BY <1>1, <1>7, <1>9 DEF TabTypes

\* A step of a tab that leaves the server's state alone.
LEMMA TabStepKept ==
    ASSUME RealtimeInv, UNCHANGED <<roomVars, queue, banned, kicking>>,
           TabTypes', EventTypes', TabsFit'
    PROVE  Kept
<1>1. RoomsKept /\ UNCHANGED connected
  BY DEF RoomsKept, roomMaps, roomVars
<1>2. QueueTypes' /\ BannedAreGone'
  BY <1>1, InvParts DEF QueueTypes, BannedAreGone
<1>3. SearchersAreFree'
  BY <1>1, KeptSeats, InvParts DEF SearchersAreFree
<1> QED
  BY <1>1, <1>2, <1>3, KeptParts DEF StepOfRooms

LEMMA ClickKept ==
    ASSUME RealtimeInv, NEW t \in Tabs, NEW from, NEW first \in Seq(Call), NoRejoin(first),
           NEW scr \in Screen, Click(t, from, first, scr)
    PROVE  Kept
<1>1. /\ TabTypes /\ EventTypes /\ faults \in Nat
      /\ clicks + faults < MaxClicks /\ clicks' = clicks + 1
      /\ Show(t, first, scr)
      /\ UNCHANGED <<roomVars, queue, banned, kicking, sock, down, displaced, faults>>
  BY InvParts, SizeAssumption DEF Click, EventTypes
<1>2. clicks' \in 0..MaxClicks
  BY <1>1, SizeAssumption DEF TabTypes
<1>3. TabTypes' /\ TabsFit'
  BY <1>1, <1>2, ShowFits DEF TabTypes
<1>4. EventTypes'
  BY <1>1 DEF EventTypes
<1> QED
  BY <1>1, <1>3, <1>4, TabStepKept

LEMMA ClicksKept ==
    ASSUME RealtimeInv, NEW t \in Tabs,
           \/ StepIn(t) \/ Retry(t) \/ Cancel(t) \/ HangUp(t) \/ ClickSkip(t)
           \/ \E f \in Users : CallFriend(t, f) \/ TakeInvite(t, f)
    PROVE  Kept
<1>1. screen[t] \in Screen
  BY InvParts DEF TabTypes
<1>2. Dashboard \in Screen /\ Matching \in Screen
  BY DEF Dashboard, Matching, Screen
<1>3. <<>> \in Seq(Call) /\ NoRejoin(<<>>)
  BY DEF NoRejoin
<1>4. ASSUME NEW f \in Users
      PROVE  Calling(f) \in Screen
  BY DEF Calling, Screen
<1>5. ASSUME NEW r \in RoomIds
      PROVE  <<[op |-> "skip", room |-> r]>> \in Seq(Call)
               /\ NoRejoin(<<[op |-> "skip", room |-> r]>>)
  <2>1. [op |-> "skip", room |-> r] \in Call
    BY DEF Call
  <2>2. <<[op |-> "skip", room |-> r]>> \in Seq(Call)
    BY <2>1
  <2>3. NoRejoin(<<[op |-> "skip", room |-> r]>>)
    BY DEF NoRejoin
  <2> QED
    BY <2>2, <2>3
<1>6. CASE StepIn(t)
  BY <1>2, <1>3, <1>6, ClickKept DEF StepIn
<1>7. CASE Retry(t)
  BY <1>2, <1>3, <1>7, ClickKept DEF Retry
<1>8. CASE Cancel(t)
  <2>1. <<[op |-> "cancel_match"]>> \in Seq(Call) /\ NoRejoin(<<[op |-> "cancel_match"]>>)
    BY DEF Call, NoRejoin
  <2> QED
    BY <1>2, <1>8, <2>1, ClickKept DEF Cancel
<1>9. CASE HangUp(t)
  <2> DEFINE first == IF screen[t].room = NoRoom THEN <<>>
                      ELSE <<[op |-> "skip", room |-> screen[t].room]>>
  <2>1. screen[t].room \in RoomIds \cup {NoRoom}
    BY <1>1, <1>9 DEF HangUp, Screen
  <2>2. first \in Seq(Call) /\ NoRejoin(first)
    BY <1>3, <1>5, <2>1
  <2>3. Click(t, {"direct"}, first, Dashboard)
    BY <1>9 DEF HangUp
  <2> HIDE DEF first
  <2> QED
    BY <1>2, <2>2, <2>3, ClickKept
<1>10. CASE ClickSkip(t)
  <2> DEFINE first == <<[op |-> "skip", room |-> screen[t].room]>>
  <2>1. screen[t].room \in RoomIds
    BY <1>1, <1>10 DEF ClickSkip, Screen
  <2>2. first \in Seq(Call) /\ NoRejoin(first)
    BY <1>5, <2>1
  <2>3. Click(t, {"chat"}, first, AfterEnd(screen[t]))
    BY <1>10 DEF ClickSkip
  <2>4. AfterEnd(screen[t]) \in Screen
    BY <1>2 DEF AfterEnd
  <2> HIDE DEF first
  <2> QED
    BY <2>2, <2>3, <2>4, ClickKept
<1>11. ASSUME NEW f \in Users, CallFriend(t, f) \/ TakeInvite(t, f)
       PROVE  Kept
  <2>1. Called(screen[t], f) \in Screen
    <3>1. CASE screen[t].name = "direct"
      <4>1. [screen[t] EXCEPT !.friend = f] \in Screen
        BY <1>1, <3>1 DEF Screen
      <4> QED
        BY <3>1, <4>1 DEF Called
    <3> QED
      BY <1>4, <3>1 DEF Called
  <2> QED
    BY <1>3, <1>4, <1>11, <2>1, ClickKept DEF CallFriend, TakeInvite
<1> QED
  BY <1>6, <1>7, <1>8, <1>9, <1>10, <1>11

\* A suspended user is turned away at the door; what a tab calls first on its
\* new connection is the only place of a rejoin.
LEMMA ConnectKept ==
    ASSUME RealtimeInv, NEW t \in Tabs, Connect(t)
    PROVE  Kept
<1>1. /\ R!TypeOK /\ QueueTypes /\ TabTypes /\ EventTypes /\ TabsFit /\ SearchersAreFree
      /\ BannedAreGone /\ connected \subseteq Sockets
      /\ sock[t] = NoSocket /\ screen[t] \in Screen
      /\ UNCHANGED <<queue, banned, kicking, down, displaced, clicks, faults>>
  BY InvParts DEF Connect, TabTypes
<1>2. EventTypes'
  BY <1>1 DEF EventTypes
<1>3. CASE UserOf[t] \in banned
  <2>1. /\ screen' = [screen EXCEPT ![t] = [name |-> "out"]]
        /\ UNCHANGED <<roomVars, sock, up, strayed>>
    BY <1>3 DEF Connect
  <2>2. TabTypes' /\ TabsFit'
    BY <1>1, <2>1 DEF TabTypes, TabsFit, Screen
  <2> QED
    BY <1>1, <1>2, <2>1, <2>2, TabStepKept
<1>4. CASE UserOf[t] \notin banned
  <2>1. PICK s \in Sockets : /\ TabOf[s] = t /\ R!Connect(s)
                             /\ sock' = [sock EXCEPT ![t] = s]
    BY <1>4 DEF Connect
  <2>2. /\ up' = [up EXCEPT ![t] = Resume(screen[t])]
        /\ screen' = IF screen[t].name = "timedOut"
                     THEN [screen EXCEPT ![t] = [name |-> "again"]] ELSE screen
        /\ strayed' \subseteq Tabs
    BY <1>1, <1>4 DEF Connect, TabTypes
  <2>3. /\ s \notin connected /\ connected' = connected \cup {s}
        /\ open' = open /\ seat' = seat /\ OwnerOf[s] \notin banned
    BY <1>4, <2>1 DEF R!Connect, OwnerOf
  <2>4. StepOfRooms
    BY <2>1 DEF StepOfRooms, R!Next
  <2>5. QueueTypes' /\ SearchersAreFree' /\ BannedAreGone'
    BY <1>1, <2>3 DEF QueueTypes, SearchersAreFree, BannedAreGone, R!SeatsOf
  <2>6. Resume(screen[t]) \in Seq(Call) /\ DOMAIN Resume(screen[t]) \subseteq {1}
    BY <1>1, CallsOf
  <2>7. TabTypes'
    <3>1. [name |-> "again"] \in Screen
      BY DEF Screen
    <3> QED
      BY <1>1, <2>1, <2>2, <2>6, <3>1 DEF TabTypes
  <2>8. TabsFit'
    <3>1. ASSUME NEW x \in Tabs
          PROVE  /\ sock'[x] = IF x = t THEN s ELSE sock[x]
                 /\ up'[x] = IF x = t THEN Resume(screen[t]) ELSE up[x]
      BY <1>1, <2>1, <2>2 DEF TabTypes
    <3>2. s \notin queue
      BY <1>1, <2>3 DEF QueueTypes
    <3> QED
      BY <1>1, <2>1, <2>6, <3>1, <3>2, NoneAssumption DEF TabsFit
  <2> QED
    BY <1>2, <2>4, <2>5, <2>7, <2>8, KeptParts
<1> QED
  BY <1>3, <1>4

LEMMA BreakKept ==
    ASSUME RealtimeInv, NEW t \in Tabs, Break(t)
    PROVE  Kept
<1>1. /\ TabTypes /\ EventTypes
      /\ sock' = [sock EXCEPT ![t] = NoSocket] /\ up' = [up EXCEPT ![t] = <<>>]
      /\ down' = [down EXCEPT ![t] = <<>>] /\ strayed' = strayed \ {t}
      /\ screen' = [screen EXCEPT ![t] = CutOff(t)]
      /\ UNCHANGED <<roomVars, queue, banned, kicking, displaced, clicks>>
  BY InvParts DEF Break
<1>2. faults' \in 0..MaxFaults
  BY FaultCounted DEF Break
<1>3. screen' \in [Tabs -> Screen]
  BY <1>1, CutOffScreens DEF TabTypes
<1>4. TabTypes' /\ TabsFit'
  BY <1>1, <1>3, TabCut
<1>5. <<>> \in Seq(Event)
  OBVIOUS
<1>6. EventTypes'
  BY <1>1, <1>2, <1>5 DEF EventTypes
<1> QED
  BY <1>1, <1>4, <1>6, TabStepKept

LEMMA MountKept ==
    ASSUME RealtimeInv, NEW t \in Tabs, Mount(t)
    PROVE  Kept
<1>1. /\ TabTypes /\ EventTypes /\ TabsFit /\ screen[t].name = "loading"
      /\ screen' = [screen EXCEPT ![t] = [name |-> "chat", room |-> @.room, type |-> @.type]]
      /\ UNCHANGED <<roomVars, queue, banned, kicking, sock, up, down, displaced, strayed,
                     clicks, faults>>
  BY InvParts DEF Mount
<1>2. screen[t].room \in RoomIds /\ screen[t].type \in {"match", "direct"}
  BY <1>1 DEF TabTypes, Screen
<1>3. [name |-> "chat", room |-> screen[t].room, type |-> screen[t].type] \in Screen
  BY <1>2 DEF Screen
<1>4. TabTypes' /\ TabsFit' /\ EventTypes'
  BY <1>1, <1>3 DEF TabTypes, TabsFit, EventTypes
<1> QED
  BY <1>1, <1>4, TabStepKept

LEMMA DeliverKept ==
    ASSUME RealtimeInv, NEW t \in Tabs, Deliver(t)
    PROVE  Kept
<1> DEFINE m == Head(down[t])
           scr == screen[t]
<1>1. /\ TabTypes /\ EventTypes /\ TabsFit /\ down[t] # <<>>
      /\ down' = [down EXCEPT ![t] = Tail(@)]
      /\ displaced' = IF m.ev = "partner_left" /\ scr.name = "direct"
                      THEN displaced \cup {t} ELSE displaced
      /\ UNCHANGED <<roomVars, queue, banned, kicking, sock, clicks, faults>>
  BY InvParts DEF Deliver
<1>2. down[t] \in Seq(Event) /\ scr \in Screen
  BY <1>1 DEF EventTypes, TabTypes
<1>3. m \in Event /\ Tail(down[t]) \in Seq(Event)
  BY <1>1, <1>2
<1>4. m.ev \in Named => m.room \in RoomIds
  BY <1>3 DEF Named, Event
<1>5. EventTypes'
  BY <1>1, <1>3 DEF EventTypes
<1>6. ASSUME UNCHANGED up, screen' \in [Tabs -> Screen], strayed' \subseteq strayed \cup {t}
      PROVE  TabTypes' /\ TabsFit'
  BY <1>1, <1>6 DEF TabTypes, TabsFit
<1>7. TabTypes' /\ TabsFit'
  <2>1. ASSUME NEW chat \in Screen, EnterChat(t, chat)
        PROVE  TabTypes' /\ TabsFit'
    BY <1>1, <1>6, <2>1 DEF EnterChat, TabTypes
  <2>2. ASSUME NEW to \in {Dashboard, AfterEnd(scr)}, Show(t, <<>>, to)
        PROVE  TabTypes' /\ TabsFit'
    <3>1. to \in Screen
      BY DEF AfterEnd, Dashboard, Matching, Screen
    <3>2. <<>> \in Seq(Call) /\ NoRejoin(<<>>)
      BY DEF NoRejoin
    <3>3. UNCHANGED <<sock, queue, clicks>>
      BY <1>1
    <3>4. /\ screen' \in [Tabs -> Screen] /\ strayed' \subseteq Tabs
          /\ up' \in [Tabs -> Seq(Call)] /\ TabsFit'
      BY <2>2, <3>1, <3>2, <3>3, ShowFits
    <3> QED
      BY <1>1, <3>3, <3>4 DEF TabTypes
  <2>3. CASE /\ m.ev = "matched"
             /\ EnterChat(t, [name |-> "loading", room |-> m.room, type |-> "match"])
    <3>1. [name |-> "loading", room |-> m.room, type |-> "match"] \in Screen
      BY <1>4, <2>3 DEF Screen, Named
    <3> QED
      BY <2>1, <2>3, <3>1
  <2>4. CASE /\ m.ev = "direct_matched" /\ Behind(scr) = "direct"
             /\ EnterChat(t, [name |-> "loading", room |-> m.room, type |-> "direct",
                              friend |-> scr.friend])
    <3>1. scr.friend \in Users
      BY <1>2, <2>4 DEF Behind, Searching, Screen
    <3>2. [name |-> "loading", room |-> m.room, type |-> "direct", friend |-> scr.friend]
            \in Screen
      BY <1>4, <2>4, <3>1 DEF Screen, Named
    <3> QED
      BY <2>1, <2>4, <3>2
  <2>5. CASE /\ m.ev = "waiting" /\ scr.name = "direct"
             /\ screen' = [screen EXCEPT ![t].room = m.room]
             /\ UNCHANGED <<up, strayed>>
    <3>1. [scr EXCEPT !.room = m.room] \in Screen
      BY <1>2, <1>4, <2>5 DEF Screen, Named
    <3> QED
      BY <1>1, <1>6, <2>5, <3>1 DEF TabTypes
  <2>6. CASE /\ screen' = [screen EXCEPT ![t] = [name |-> "timedOut"]]
             /\ UNCHANGED <<up, strayed>>
    <3>1. [name |-> "timedOut"] \in Screen
      BY DEF Screen
    <3> QED
      BY <1>1, <1>6, <2>6, <3>1 DEF TabTypes
  <2>7. CASE UNCHANGED <<screen, up>> /\ strayed' \subseteq strayed \cup {t}
    BY <1>1, <1>6, <2>7 DEF TabTypes
  <2> QED
    BY <2>2, <2>3, <2>4, <2>5, <2>6, <2>7 DEF Deliver
<1> QED
  BY <1>1, <1>5, <1>7, TabStepKept

-----------------------------------------------------------------------------
(* The theorems.                                                           *)

LEMMA InitFits == Init => RealtimeInv
<1> SUFFICES ASSUME Init PROVE RealtimeInv
  OBVIOUS
<1>1. /\ sock = [t \in Tabs |-> CHOOSE s \in Sockets : TabOf[s] = t]
      /\ connected = {sock[t] : t \in Tabs} /\ Emptied
      /\ queue = {} /\ banned = {} /\ kicking = Nobody
      /\ screen = [t \in Tabs |-> Dashboard]
      /\ up = [t \in Tabs |-> <<>>] /\ down = [t \in Tabs |-> <<>>]
      /\ displaced = {} /\ strayed = {} /\ clicks = 0 /\ faults = 0
  BY DEF Init, Emptied, R!EmptySeats, R!Pairs
<1>2. \A t \in Tabs : sock[t] \in Sockets /\ TabOf[sock[t]] = t
  BY <1>1, SizeAssumption
<1>3. connected \subseteq Sockets /\ sock \in [Tabs -> Sockets \cup {NoSocket}]
  BY <1>1, <1>2
<1>4. R!RoomsInv /\ R!SeatedIsPresent
  BY <1>1, <1>3, EmptiedInv
<1>5. <<>> \in Seq(Call) /\ <<>> \in Seq(Event) /\ DOMAIN <<>> = {}
  OBVIOUS
<1>6. Dashboard \in Screen
  BY DEF Dashboard, Screen
<1>7. TypeOK
  BY <1>1, <1>3, <1>4, <1>5, <1>6, SizeAssumption DEF TypeOK, R!RoomsInv
<1>8. TabsFit /\ SearchersAreFree /\ BannedAreGone
  BY <1>1, <1>2, <1>5 DEF TabsFit, SearchersAreFree, BannedAreGone
<1> QED
  BY <1>4, <1>7, <1>8 DEF RealtimeInv

LEMMA NextKept == RealtimeInv /\ Next => Kept
  BY HandleKept, SweepPairsKept, SweepGivesUpKept, PingTimeoutKept, KickSocketKept,
     TimerKept, KickKept, RestartKept, ConnectKept, BreakKept, MountKept, DeliverKept,
     ClicksKept DEF Next, Server, Client

LEMMA StutterKept == RealtimeInv /\ UNCHANGED vars => RealtimeInv'
<1> SUFFICES ASSUME RealtimeInv, UNCHANGED vars PROVE RealtimeInv'
  OBVIOUS
<1>1. UNCHANGED <<roomVars, queue, banned, kicking>> /\ UNCHANGED tabVars
        /\ UNCHANGED <<down, displaced, faults>>
  BY DEF vars
<1>2. queue' \subseteq queue
  BY <1>1
<1>3. TabTypes' /\ TabsFit'
  BY <1>1, <1>2, TabsKept
<1>4. EventTypes'
  BY <1>1, InvParts DEF EventTypes
<1> QED
  BY <1>1, <1>3, <1>4, TabStepKept DEF Kept

\* The whole invariant, from which the theorems below are read off.
THEOREM RealtimeAlwaysFits == Spec => []RealtimeInv
<1>1. RealtimeInv /\ [Next]_vars => RealtimeInv'
  BY NextKept, StutterKept DEF Kept
<1> QED
  BY <1>1, InitFits, PTL DEF Spec

\* Types, and: whoever is in the queue is connected (index.js, the disconnect
\* handler and kickUser take them out), for any number of users and tabs.
THEOREM TypeCorrect == Spec => []TypeOK
<1>1. RealtimeInv => TypeOK
  BY DEF RealtimeInv
<1> QED
  BY <1>1, RealtimeAlwaysFits, PTL

\* Nobody searches from a seat, so nobody is matched out of a chat.
THEOREM SearchersAlwaysFree == Spec => []SearchersAreFree
<1>1. RealtimeInv => SearchersAreFree
  BY DEF RealtimeInv
<1> QED
  BY <1>1, RealtimeAlwaysFits, PTL

\* Once kickUser() has run, a suspended user has no connection, no entry in
\* the queue and no seat taken for present.
THEOREM BannedAlwaysNowhere == Spec => []BannedAreNowhere
<1>1. RealtimeInv => BannedAreNowhere
  <2> SUFFICES ASSUME RealtimeInv, kicking = Nobody, NEW u \in banned
               PROVE  /\ \A s \in connected \cup queue : OwnerOf[s] # u
                      /\ \A r \in open : u \notin on[r]
    BY DEF BannedAreNowhere
  <2>1. /\ QueueTypes /\ BannedAreGone /\ R!Seating /\ R!RoomsInv
        /\ connected \subseteq Sockets /\ open \subseteq RoomIds
    BY InvParts
  <2>2. u \in Users /\ u # Nobody
    BY <2>1, NoneAssumption DEF QueueTypes
  <2>3. \A s \in connected : OwnerOf[s] # u
    BY <2>1, <2>2 DEF BannedAreGone
  <2>4. \A s \in queue : OwnerOf[s] # u
    BY <2>1, <2>3 DEF QueueTypes
  <2>5. ASSUME NEW r \in open, u \in on[r]
        PROVE  FALSE
    <3>1. seat[r][u] \in connected
      BY <2>1, <2>5 DEF R!RoomsInv, R!PresentIsConnected
    <3>2. OwnerOf[seat[r][u]] = u
      BY <2>1, <2>2, <3>1, NoneAssumption DEF R!Seating
    <3> QED
      BY <2>3, <3>1, <3>2
  <2> QED
    BY <2>3, <2>4, <2>5
<1> QED
  BY <1>1, RealtimeAlwaysFits, PTL

\* Every step of queue, rooms and tabs together is, for the rooms, a step of
\* module Rooms or the restart.
THEOREM RoomsStayRooms == Spec => RoomsAreRooms
<1>1. RealtimeInv /\ [Next]_vars =>
        [UNCHANGED roomMaps \/ (open' = {} /\ connected' = {}) \/ R!Next]_roomMaps
  <2>1. RealtimeInv /\ Next => StepOfRooms
    BY NextKept DEF Kept
  <2>2. UNCHANGED vars => UNCHANGED roomMaps
    BY DEF vars, roomVars, roomMaps
  <2> QED
    BY <2>1, <2>2 DEF StepOfRooms, RoomsKept, roomMaps, Emptied
<1> QED
  BY <1>1, RealtimeAlwaysFits, PTL DEF Spec, RoomsAreRooms

\* What RoomsProofs shows of the rooms alone holds of the rooms in the running
\* system, restarts included: index, seats, timers and the Map direct never
\* contradict one another, and nobody who is connected is taken for gone.
THEOREM RoomsHoldHere == Spec => [](R!RoomsInv /\ R!SeatedIsPresent)
<1>1. RealtimeInv => R!RoomsInv /\ R!SeatedIsPresent
  BY DEF RealtimeInv
<1> QED
  BY <1>1, RealtimeAlwaysFits, PTL

-----------------------------------------------------------------------------
(* What a screen shows: the invariant behind ScreensAreTrue.  The last     *)
(* call on its way fits the screen; once it has been handled, either the   *)
(* server holds what the screen shows, or an event that will change the    *)
(* screen is on its way.                                                   *)

\* A tab that believes in a connection has it.
Live == \A t \in Tabs : sock[t] # NoSocket => sock[t] \in connected

EndsIn(calls, c) == calls = <<>> \/ calls[Len(calls)] = c

CallsFitTab(t) ==
    LET scr == screen[t]
    IN  /\ scr.name \in {"matching", "again"} => EndsIn(up[t], [op |-> "start_chat"])
        /\ scr.name = "direct" =>
              /\ scr.friend # UserOf[t]
              /\ EndsIn(up[t], [op |-> "join_direct", friend |-> scr.friend])
        /\ scr.name \in {"loading", "chat"} /\ t \notin strayed =>
              up[t] \in {<<>>, <<[op |-> "rejoin", room |-> scr.room]>>}
CallsFit == \A t \in Tabs : CallsFitTab(t)

Coming(t, evs) == \E i \in DOMAIN down[t] : down[t][i].ev \in evs
EndComing(t, r) == \E i \in DOMAIN down[t] : down[t][i] = [ev |-> "partner_left", room |-> r]

Settled(t) == sock[t] # NoSocket /\ up[t] = <<>> /\ UserOf[t] # kicking /\ t \notin displaced

Searches(t) == sock[t] \in queue \/ Coming(t, {"matched", "search_timeout", "gone"})
Calls(t) ==
    \/ R!Access(direct[{UserOf[t], screen[t].friend}], sock[t])
    \/ Coming(t, {"partner_left", "refused"})
Chats(t) ==
    \/ R!Access(screen[t].room, sock[t])
    \/ EndComing(t, screen[t].room) \/ Coming(t, {"gone"})

ScreenFits(t) ==
    Settled(t) =>
        /\ screen[t].name \in {"matching", "again"} /\ t \notin strayed => Searches(t)
        /\ screen[t].name = "direct" => Calls(t)
        /\ screen[t].name \in {"loading", "chat"} /\ t \notin strayed => Chats(t)
ScreensFit == \A t \in Tabs : ScreenFits(t)

ScreensInv == RealtimeInv /\ Live /\ CallsFit /\ ScreensFit

-----------------------------------------------------------------------------
(* Who may act in a room, and the rooms of the pairs, under each kind of   *)
(* step of the rooms.                                                      *)

DirectKept == \A p \in R!Pairs : direct[p] \in open \cap open' => direct'[p] = direct[p]

LEMMA AccessClose ==
    ASSUME R!RoomsInv, NEW C \in SUBSET open, NEW reason, R!CloseAll(C, reason)
    PROVE  /\ \A r \in open \ C, x \in Sockets : R!Access(r, x) => R!Access(r, x)'
           /\ DirectKept
<1>1. open \subseteq RoomIds
  BY DEF R!RoomsInv, R!TypeOK
<1>2. /\ open' = open \ C
      /\ \A r \in RoomIds \ C : seat'[r] = seat[r] /\ on'[r] = on[r]
      /\ \A p \in R!Pairs : direct'[p] = IF \E r \in C : key[r] = p THEN NoRoom ELSE direct[p]
  BY DEF R!CloseAll, R!Undirected
<1>3. \A r \in open \ C, x \in Sockets : R!Access(r, x) => R!Access(r, x)'
  BY <1>1, <1>2 DEF R!Access
<1>4. DirectKept
  BY <1>1, <1>2 DEF DirectKept, R!RoomsInv, R!DirectIsExact
<1> QED
  BY <1>3, <1>4

LEMMA AccessMatch ==
    ASSUME R!RoomsInv, NEW C \in SUBSET open, NEW q \in RoomIds, NEW s, NEW p,
           R!CreateMatch(C, q, s, p)
    PROVE  /\ \A r \in open \ C, x \in Sockets : R!Access(r, x) => R!Access(r, x)'
           /\ DirectKept
<1>1. open \subseteq RoomIds /\ q \notin open
  BY DEF R!RoomsInv, R!TypeOK, R!CreateMatch, R!Fresh
<1>2. /\ open' = (open \ C) \cup {q}
      /\ \A r \in RoomIds \ C : r # q => seat'[r] = seat[r] /\ on'[r] = on[r]
      /\ \A d \in R!Pairs : direct'[d] = IF \E r \in C : key[r] = d THEN NoRoom ELSE direct[d]
  BY DEF R!CreateMatch, R!Undirected
<1>3. \A r \in open \ C, x \in Sockets : R!Access(r, x) => R!Access(r, x)'
  BY <1>1, <1>2 DEF R!Access
<1>4. DirectKept
  BY <1>1, <1>2 DEF DirectKept, R!RoomsInv, R!DirectIsExact
<1> QED
  BY <1>3, <1>4

LEMMA AccessTaken ==
    ASSUME R!RoomsInv, NEW q \in RoomIds, NEW s \in Sockets, R!TakeSeat(q, OwnerOf[s], s),
           open \subseteq open'
    PROVE  /\ \A r \in open, x \in Sockets :
                 R!Access(r, x) /\ (r = q /\ OwnerOf[x] = OwnerOf[s] => x = s)
                    => R!Access(r, x)'
           /\ q \in open' => R!Access(q, s)'
<1>1. /\ open \subseteq RoomIds /\ OwnerOf[s] \in Users
      /\ \A x \in Sockets : OwnerOf[x] \in Users
  BY OwnersAreUsers DEF R!RoomsInv, R!TypeOK
<1>2. /\ \A r \in RoomIds, v \in Users :
            seat'[r][v] = IF r = q /\ v = OwnerOf[s] THEN s ELSE seat[r][v]
      /\ \A r \in RoomIds : on'[r] = IF r = q THEN on[r] \cup {OwnerOf[s]} ELSE on[r]
  BY <1>1 DEF R!TakeSeat, R!RoomsInv, R!TypeOK
<1> QED
  BY ZenonT(60), <1>1, <1>2 DEF R!Access

LEMMA AccessGone ==
    ASSUME R!RoomsInv, NEW s \in Sockets, R!Disconnect(s)
    PROVE  /\ \A r \in open, x \in Sockets \ {s} : R!Access(r, x) => R!Access(r, x)'
           /\ DirectKept
<1> DEFINE a == OwnerOf[s]
           mine == {r \in R!RoomsOf(s) : seat[r][a] = s}
           alone == {r \in mine : key[r] # {} /\ R!Members(r) = {a}}
<1>1. open \subseteq RoomIds /\ alone \subseteq open
  BY DEF R!RoomsInv, R!TypeOK, R!RoomsOf
<1>2. /\ open' = open \ alone
      /\ \A r \in RoomIds \ alone : seat'[r] = seat[r]
      /\ \A r \in RoomIds \ alone : on'[r] = IF r \in mine \ alone THEN on[r] \ {a} ELSE on[r]
      /\ \A p \in R!Pairs : direct'[p] = IF \E r \in alone : key[r] = p THEN NoRoom ELSE direct[p]
  BY DEF R!Disconnect, R!DropSocket, R!Undirected
<1>3. \A r \in alone : R!Members(r) = {a} /\ seat[r][a] = s
  OBVIOUS
<1>4. \A r \in mine : seat[r][a] = s
  OBVIOUS
<1> HIDE DEF alone, mine
<1>5. ASSUME NEW r \in open, NEW x \in Sockets \ {s}, R!Access(r, x)
      PROVE  R!Access(r, x)'
  <2>1. seat[r][OwnerOf[x]] = x /\ OwnerOf[x] \in on[r] /\ OwnerOf[x] \in R!Members(r)
    BY <1>1, <1>5 DEF R!Access, R!RoomsInv, R!Seating
  <2>2. r \notin alone
    BY <1>3, <2>1
  <2>3. r \in mine => OwnerOf[x] # a
    BY <1>4, <2>1
  <2> QED
    BY <1>1, <1>2, <2>1, <2>2, <2>3 DEF R!Access
<1>6. DirectKept
  BY <1>1, <1>2 DEF DirectKept, R!RoomsInv, R!DirectIsExact
<1> QED
  BY <1>5, <1>6

-----------------------------------------------------------------------------
(* Events on their way stay on their way, and what is told arrives.        *)

Extends(t) ==
    \A i \in DOMAIN down[t] : i \in DOMAIN down'[t] /\ down'[t][i] = down[t][i]

LEMMA HearsAll ==
    ASSUME NEW t, NEW sent, \A m \in sent : m.what \in Event,
           NEW m \in sent, m.to = sock[t]
    PROVE  \E i \in DOMAIN Hears(t, sent) : Hears(t, sent)[i] = m.what
<1> DEFINE S == {x.what : x \in {y \in sent : y.to = sock[t]}}
           n == Cardinality(S)
           f == SetToSeq(S)
<1>1. S \subseteq Event /\ IsFiniteSet(S) /\ m.what \in S
  BY EventsAreFinite, FS_Subset
<1>2. f = Hears(t, sent)
  BY DEF Hears
<1> HIDE DEF S
<1>3. n \in Nat /\ \E g : g \in Bijection(1..n, S)
  BY <1>1, FS_CardinalityType DEF ExistsBijection
<1>4. \E g \in [1..n -> S] : IsInjective(g)
  BY <1>3 DEF Bijection, Injection, IsInjective
<1>5. f \in [1..n -> S] /\ IsInjective(f)
  BY <1>4 DEF SetToSeq
<1> HIDE DEF f, n
<1>6. f \in Injection(1..n, S)
  BY <1>5 DEF Injection, IsInjective
<1>7. Cardinality(1..n) = n
  BY <1>3, FS_Interval
<1>8. f \in Surjection(1..n, S)
  BY <1>1, <1>6, <1>7, FS_Injection DEF n
<1>9. \E i \in 1..n : f[i] = m.what
  BY <1>1, <1>8 DEF Surjection
<1> QED
  BY <1>2, <1>5, <1>9

LEMMA TellHeard ==
    ASSUME down \in [Tabs -> Seq(Event)], NEW sent, \A m \in sent : m.what \in Event,
           Tell(sent), NEW t \in Tabs
    PROVE  /\ Extends(t)
           /\ \A m \in sent : m.to = sock[t] => \E i \in DOMAIN down'[t] : down'[t][i] = m.what
<1> DEFINE h == Hears(t, sent)
<1>1. h \in Seq(Event) /\ down[t] \in Seq(Event)
  BY HearsEvents
<1>2. down'[t] = down[t] \o h
  BY DEF Tell
<1>3. \A m \in sent : m.to = sock[t] => \E i \in DOMAIN h : h[i] = m.what
  BY ZenonT(60), HearsAll
<1> HIDE DEF h
<1>4. Extends(t)
  BY <1>1, <1>2 DEF Extends
<1>5. ASSUME NEW i \in DOMAIN h
      PROVE  Len(down[t]) + i \in DOMAIN down'[t] /\ down'[t][Len(down[t]) + i] = h[i]
  BY <1>1, <1>2
<1> QED
  BY <1>3, <1>4, <1>5

LEMMA ExtendsComing ==
    ASSUME NEW t, Extends(t), NEW evs
    PROVE  /\ Coming(t, evs) => Coming(t, evs)'
           /\ \A r : EndComing(t, r) => EndComing(t, r)'
  BY DEF Extends, Coming, EndComing

\* close() tells every member who is there, but for the actor.
LEMMA LeftTells ==
    ASSUME down \in [Tabs -> Seq(Event)], NEW C \in SUBSET RoomIds, NEW actor,
           NEW sent, Left(C, actor) \subseteq sent, \A m \in sent : m.what \in Event,
           Tell(sent), NEW t \in Tabs, NEW r \in C, R!Access(r, sock[t]),
           OwnerOf[sock[t]] # actor
    PROVE  EndComing(t, r)'
<1> DEFINE m == Msg(sock[t], "partner_left", r)
<1>1. m \in Left(C, actor)
  <2>1. m \in {Msg(seat[r][u], "partner_left", r) : u \in on[r] \ {actor}}
    BY DEF R!Access
  <2> QED
    BY <2>1 DEF Left
<1>2. m.to = sock[t] /\ m.what = [ev |-> "partner_left", room |-> r]
  BY DEF Msg
<1>3. \E i \in DOMAIN down'[t] : down'[t][i] = m.what
  BY <1>1, <1>2, TellHeard
<1> QED
  BY <1>2, <1>3 DEF EndComing

-----------------------------------------------------------------------------
(* A step of somebody else.                                                *)

SameTab(t) ==
    /\ screen'[t] = screen[t] /\ sock'[t] = sock[t] /\ up'[t] = up[t]
    /\ t \in strayed <=> t \in strayed'

Undisturbed(t) ==
    /\ SameTab(t)
    /\ Extends(t)
    /\ Settled(t)' =>
          /\ Settled(t)
          /\ sock[t] \in queue => sock[t] \in queue' \/ Coming(t, {"matched", "search_timeout"})'
          /\ \A r \in open : R!Access(r, sock[t]) => R!Access(r, sock[t])' \/ EndComing(t, r)'
    /\ DirectKept

LEMMA UndisturbedFits ==
    ASSUME RealtimeInv, NEW t \in Tabs, CallsFitTab(t), ScreenFits(t), Undisturbed(t)
    PROVE  CallsFitTab(t)' /\ ScreenFits(t)'
<1>1. SameTab(t) /\ Extends(t)
  BY DEF Undisturbed
<1>2. CallsFitTab(t)'
  BY <1>1 DEF SameTab, CallsFitTab
<1>3. ASSUME Settled(t)'
      PROVE  /\ screen[t].name \in {"matching", "again"} /\ t \notin strayed => Searches(t)'
             /\ screen[t].name = "direct" => Calls(t)'
             /\ screen[t].name \in {"loading", "chat"} /\ t \notin strayed => Chats(t)'
  <2>1. /\ Settled(t)
        /\ sock[t] \in queue => sock[t] \in queue' \/ Coming(t, {"matched", "search_timeout"})'
        /\ \A r \in open : R!Access(r, sock[t]) => R!Access(r, sock[t])' \/ EndComing(t, r)'
        /\ DirectKept
    BY <1>3 DEF Undisturbed
  <2>2. screen[t].name \in {"matching", "again"} /\ t \notin strayed => Searches(t)'
    <3>1. Coming(t, {"matched", "search_timeout"})' => Coming(t, {"matched", "search_timeout", "gone"})'
      BY DEF Coming
    <3> QED
      BY <1>1, <2>1, <3>1, ExtendsComing DEF ScreenFits, Searches, SameTab
  <2>3. ASSUME screen[t].name = "direct"
        PROVE  Calls(t)'
    <3>1. PICK p : p = {UserOf[t], screen[t].friend}
      OBVIOUS
    <3>2. p \in R!Pairs
      <4>1. UserOf[t] \in Users /\ screen[t] \in Screen
        BY InvParts, TabAssumption DEF TabTypes
      <4>2. screen[t].friend \in Users /\ screen[t].friend # UserOf[t]
        BY <2>3, <4>1 DEF CallsFitTab, Screen
      <4> QED
        BY <3>1, <4>1, <4>2 DEF R!Pairs
    <3>3. CASE Coming(t, {"partner_left", "refused"})
      BY <1>1, <3>3, ExtendsComing DEF Calls
    <3>4. ASSUME NEW r \in open, r = direct[p], R!Access(r, sock[t])
          PROVE  Calls(t)'
      <4>1. CASE EndComing(t, r)'
        BY <4>1 DEF EndComing, Coming, Calls
      <4>2. CASE R!Access(r, sock[t])'
        <5>1. r \in open'
          BY <4>2 DEF R!Access
        <5>2. direct'[p] = r
          BY <2>1, <3>2, <3>4, <5>1 DEF DirectKept
        <5>3. direct'[{UserOf[t], screen'[t].friend}] = r
          BY <1>1, <3>1, <5>2 DEF SameTab
        <5> QED
          BY <4>2, <5>3 DEF Calls
      <4> QED
        BY <2>1, <3>4, <4>1, <4>2
    <3>5. R!Access(direct[p], sock[t]) => direct[p] \in open
      BY DEF R!Access
    <3> QED
      BY <2>1, <2>3, <3>1, <3>3, <3>4, <3>5 DEF ScreenFits, Calls
  <2>4. ASSUME screen[t].name \in {"loading", "chat"}, t \notin strayed
        PROVE  Chats(t)'
    <3>1. \/ R!Access(screen[t].room, sock[t])
          \/ EndComing(t, screen[t].room) \/ Coming(t, {"gone"})
      BY <2>1, <2>4 DEF ScreenFits, Chats
    <3>2. CASE R!Access(screen[t].room, sock[t])
      <4>1. screen[t].room \in open
        BY <3>2 DEF R!Access
      <4> QED
        BY <1>1, <2>1, <3>2, <4>1 DEF Chats, SameTab
    <3>3. CASE EndComing(t, screen[t].room) \/ Coming(t, {"gone"})
      BY <1>1, <3>3, ExtendsComing DEF Chats, SameTab
    <3> QED
      BY <3>1, <3>2, <3>3
  <2> QED
    BY <2>2, <2>3, <2>4
<1>4. ScreenFits(t)'
  BY <1>1, <1>3 DEF ScreenFits, SameTab
<1> QED
  BY <1>2, <1>4

-----------------------------------------------------------------------------
(* The handlers, seen from the tabs that did not call: what they are not   *)
(* told of does not concern them, or displaced records it.                 *)

Spared(t) ==
    /\ Extends(t) /\ DirectKept
    /\ sock[t] # NoSocket /\ t \notin displaced' =>
          /\ t \notin displaced
          /\ sock[t] \in queue => sock[t] \in queue' \/ Coming(t, {"matched", "search_timeout"})'
          /\ \A r \in open : R!Access(r, sock[t]) => R!Access(r, sock[t])' \/ EndComing(t, r)'

LEMMA SparedUndisturbed ==
    ASSUME NEW t, Spared(t), SameTab(t), UNCHANGED kicking
    PROVE  Undisturbed(t)
  BY DEF Spared, SameTab, Undisturbed, Settled

\* A caller s, and another tab t with a connection of its own.
LEMMA OtherSocket ==
    ASSUME RealtimeInv, NEW t0 \in Tabs, NEW s \in connected, s = sock[t0],
           NEW t \in Tabs, t # t0, sock[t] # NoSocket
    PROVE  /\ sock[t] \in Sockets /\ s \in Sockets /\ sock[t] # s
           /\ TabOf[s] = t0 /\ TabOf[sock[t]] = t
           /\ OwnerOf[sock[t]] = OwnerOf[s] => sock[t] \in Others(s)
<1>1. TabTypes /\ TabsFit /\ connected \subseteq Sockets
  BY InvParts
<1>2. sock[t] \in Sockets /\ s \in Sockets /\ TabOf[s] = t0 /\ TabOf[sock[t]] = t
  BY <1>1 DEF TabTypes, TabsFit
<1> QED
  BY <1>2 DEF Others

LEMMA OustedWhere ==
    ASSUME NEW s, NEW places, NEW x \in places, x \in Others(s), NEW t, t = TabOf[x]
    PROVE  t \in Ousted(s, places)
  BY DEF Ousted

LEMMA MatchedTold ==
    ASSUME down \in [Tabs -> Seq(Event)], NEW sent, \A m \in sent : m.what \in Event,
           Tell(sent), NEW t \in Tabs, NEW r, Msg(sock[t], "matched", r) \in sent
    PROVE  Coming(t, {"matched", "search_timeout"})'
<1> DEFINE m == Msg(sock[t], "matched", r)
<1>1. m.to = sock[t] /\ m.what.ev = "matched"
  BY DEF Msg
<1>2. \E i \in DOMAIN down'[t] : down'[t][i] = m.what
  BY <1>1, TellHeard
<1> QED
  BY <1>1, <1>2 DEF Coming

\* Closing the rooms C, by someone with no seat of t's in them, leaves t its
\* seats or tells it of the end.
LEMMA ClosingSpares ==
    ASSUME down \in [Tabs -> Seq(Event)], NEW C \in SUBSET RoomIds, NEW actor,
           NEW sent, Left(C, actor) \subseteq sent, \A m \in sent : m.what \in Event,
           Tell(sent), UNCHANGED sock, NEW t \in Tabs, sock[t] \in Sockets,
           \A r \in open \ C, x \in Sockets : R!Access(r, x) => R!Access(r, x)',
           \A r \in C : R!Access(r, sock[t]) => OwnerOf[sock[t]] # actor
    PROVE  \A r \in open : R!Access(r, sock[t]) => R!Access(r, sock[t])' \/ EndComing(t, r)'
<1> SUFFICES ASSUME NEW r \in open, R!Access(r, sock[t])
             PROVE  R!Access(r, sock[t])' \/ EndComing(t, r)'
  OBVIOUS
<1>1. CASE r \in C
  BY <1>1, LeftTells
<1>2. CASE r \notin C
  <2>1. PICK x \in Sockets : x = sock[t]
    OBVIOUS
  <2>2. R!Access(r, x)'
    BY <1>2, <2>1
  <2> QED
    BY <2>1, <2>2 DEF R!Access
<1> QED
  BY <1>1, <1>2

LEMMA StartChatSpares ==
    ASSUME RealtimeInv, NEW t0 \in Tabs, NEW s \in connected, s = sock[t0], StartChat(t0, s),
           UNCHANGED sock, NEW t \in Tabs, t # t0
    PROVE  Spared(t)
<1> DEFINE mine == {q \in queue : OwnerOf[q] = OwnerOf[s]}
           C == LeftBehind(s)
<1>1. /\ R!RoomsInv /\ R!SeatedIsPresent /\ open \subseteq RoomIds
      /\ EventTypes /\ QueueTypes /\ s \in Sockets /\ connected \subseteq Sockets
  BY InvParts
<1>2. C = R!SeatsOf(s) /\ C \in SUBSET open /\ C \in SUBSET RoomIds
  BY <1>1, ConnectedRooms DEF LeftBehind
<1>3. displaced' = (displaced \ {t0}) \cup Ousted(s, mine)
  BY DEF StartChat
<1>4. ASSUME sock[t] # NoSocket, t \notin displaced'
      PROVE  /\ t \notin displaced /\ sock[t] \notin mine /\ sock[t] \in Sockets
             /\ \A r \in C : R!Access(r, sock[t]) => OwnerOf[sock[t]] # OwnerOf[s]
  <2>1. t \notin displaced /\ t \notin Ousted(s, mine)
    BY <1>3, <1>4
  <2>2. /\ sock[t] \in Sockets /\ sock[t] # s /\ TabOf[sock[t]] = t
        /\ OwnerOf[sock[t]] = OwnerOf[s] => sock[t] \in Others(s)
    BY <1>4, OtherSocket
  <2>3. sock[t] \notin mine
    BY <2>1, <2>2, OustedWhere
  <2>4. \A r \in C : R!Access(r, sock[t]) => OwnerOf[sock[t]] # OwnerOf[s]
    BY <1>2, <2>2 DEF R!SeatsOf, R!Access
  <2> QED
    BY <2>1, <2>2, <2>3, <2>4
<1>5. ASSUME NEW sent, Left(C, OwnerOf[s]) \subseteq sent, \A m \in sent : m.what \in Event,
             Tell(sent), DirectKept,
             \A r \in open \ C, x \in Sockets : R!Access(r, x) => R!Access(r, x)',
             sock[t] \in queue \ mine =>
                sock[t] \in queue' \/ \E r \in RoomIds : Msg(sock[t], "matched", r) \in sent
      PROVE  Spared(t)
  <2> HIDE DEF mine, C
  <2>1. Extends(t)
    BY <1>1, <1>5, TellHeard DEF EventTypes
  <2>2. ASSUME sock[t] # NoSocket, t \notin displaced', sock[t] \in queue
        PROVE  sock[t] \in queue' \/ Coming(t, {"matched", "search_timeout"})'
    <3>1. ASSUME NEW r \in RoomIds, Msg(sock[t], "matched", r) \in sent
          PROVE  Coming(t, {"matched", "search_timeout"})'
      BY <1>1, <1>5, <3>1, MatchedTold DEF EventTypes
    <3> QED
      BY <1>4, <1>5, <2>2, <3>1
  <2>3. ASSUME sock[t] # NoSocket, t \notin displaced'
        PROVE  \A r \in open : R!Access(r, sock[t]) => R!Access(r, sock[t])' \/ EndComing(t, r)'
    <3>1. down \in [Tabs -> Seq(Event)]
      BY <1>1 DEF EventTypes
    <3> QED
      BY <1>2, <1>4, <1>5, <2>3, <3>1, ClosingSpares
  <2> QED
    BY <1>4, <1>5, <2>1, <2>2, <2>3 DEF Spared
<1>6. ASSUME NEW p \in queue \ mine, NEW r \in RoomIds,
             R!CreateMatch(C, r, s, p), queue' = queue \ (mine \cup {p}),
             Tell(Left(C, OwnerOf[s]) \cup {Msg(s, "matched", r), Msg(p, "matched", r)})
      PROVE  Spared(t)
  <2> DEFINE sent == Left(C, OwnerOf[s]) \cup {Msg(s, "matched", r), Msg(p, "matched", r)}
  <2>1. \A m \in sent : m.what \in Event
    BY <1>2, LeftEvents, MsgEvents DEF Named
  <2>2. /\ DirectKept
        /\ \A q \in open \ C, x \in Sockets : R!Access(q, x) => R!Access(q, x)'
    BY <1>1, <1>2, <1>6, AccessMatch
  <2>3. Tell(sent) /\ Left(C, OwnerOf[s]) \subseteq sent /\ Msg(p, "matched", r) \in sent
    BY <1>6
  <2> HIDE DEF sent, mine, C
  <2> QED
    BY <1>5, <1>6, <2>1, <2>2, <2>3
<1>7. ASSUME R!CloseAll(C, "skip"), queue' = (queue \ mine) \cup {s},
             Tell(Left(C, OwnerOf[s]))
      PROVE  Spared(t)
  <2>1. \A m \in Left(C, OwnerOf[s]) : m.what \in Event
    BY <1>2, LeftEvents
  <2>2. /\ DirectKept
        /\ \A q \in open \ C, x \in Sockets : R!Access(q, x) => R!Access(q, x)'
    BY <1>1, <1>2, <1>7, AccessClose
  <2> HIDE DEF mine, C
  <2> QED
    BY <1>5, <1>7, <2>1, <2>2
<1> QED
  BY <1>6, <1>7 DEF StartChat

\* No room is touched, and of the queue at most the caller.
LEMMA RoomsKeptSpare ==
    ASSUME RoomsKept, NEW t \in Tabs, Extends(t), UNCHANGED <<sock, displaced>>,
           sock[t] # NoSocket /\ sock[t] \in queue => sock[t] \in queue'
    PROVE  Spared(t)
<1>1. UNCHANGED <<open, seat, on, direct>>
  BY DEF RoomsKept, roomMaps
<1>2. DirectKept
  BY <1>1 DEF DirectKept
<1>3. \A r : R!Access(r, sock[t]) => R!Access(r, sock[t])'
  BY <1>1 DEF R!Access
<1> QED
  BY <1>2, <1>3 DEF Spared

LEMMA CancelMatchSpares ==
    ASSUME RealtimeInv, NEW t0 \in Tabs, NEW s \in connected, s = sock[t0], CancelMatch(s),
           UNCHANGED sock, NEW t \in Tabs, t # t0
    PROVE  Spared(t)
<1>1. RoomsKept /\ queue' = queue \ {s} /\ UNCHANGED <<down, displaced>>
  BY DEF CancelMatch, RoomsKept, roomMaps
<1>2. Extends(t)
  BY <1>1 DEF Extends
<1>3. sock[t] # NoSocket => sock[t] # s
  BY OtherSocket
<1> QED
  BY <1>1, <1>2, <1>3, RoomsKeptSpare

\* A seat that moves here leaves another tab of the user, or nobody.
LEMMA TakingSpares ==
    ASSUME RealtimeInv, NEW t0 \in Tabs, NEW s \in connected, s = sock[t0],
           NEW r \in RoomIds, R!TakeSeat(r, OwnerOf[s], s), open \subseteq open', DirectKept,
           displaced' = (displaced \ {t0}) \cup Ousted(s, {seat[r][OwnerOf[s]]}),
           queue \ {s} \subseteq queue', UNCHANGED sock, NEW t \in Tabs, t # t0, Extends(t)
    PROVE  Spared(t)
<1>1. R!RoomsInv /\ s \in Sockets /\ connected \subseteq Sockets
  BY InvParts
<1>2. ASSUME sock[t] # NoSocket, t \notin displaced'
      PROVE  /\ t \notin displaced /\ sock[t] \in queue => sock[t] \in queue'
             /\ \A q \in open : R!Access(q, sock[t]) => R!Access(q, sock[t])'
  <2>1. t \notin displaced /\ t \notin Ousted(s, {seat[r][OwnerOf[s]]})
    BY <1>2
  <2>2. /\ sock[t] \in Sockets /\ sock[t] # s /\ TabOf[sock[t]] = t
        /\ OwnerOf[sock[t]] = OwnerOf[s] => sock[t] \in Others(s)
    BY <1>2, OtherSocket
  <2>3. OwnerOf[sock[t]] = OwnerOf[s] => ~R!Access(r, sock[t])
    BY <2>1, <2>2, OustedWhere DEF R!Access
  <2>4. ASSUME NEW q \in open, R!Access(q, sock[t])
        PROVE  R!Access(q, sock[t])'
    <3>1. PICK x \in Sockets : x = sock[t]
      BY <2>2
    <3>2. R!Access(q, x) /\ (q = r => OwnerOf[x] # OwnerOf[s])
      BY <2>3, <2>4, <3>1
    <3>3. R!Access(q, x)'
      BY <1>1, <3>2, AccessTaken
    <3> QED
      BY <3>1, <3>3 DEF R!Access
  <2> QED
    BY <2>1, <2>2, <2>4
<1> QED
  BY <1>2 DEF Spared

LEMMA JoinDirectSpares ==
    ASSUME RealtimeInv, NEW t0 \in Tabs, NEW s \in connected, s = sock[t0],
           NEW friend \in Users, JoinDirect(t0, s, friend),
           UNCHANGED sock, NEW t \in Tabs, t # t0
    PROVE  Spared(t)
<1>1. PICK r \in RoomIds :
         /\ R!JoinDirect(s, friend, r)
         /\ queue' = QueueWithout(s)
         /\ Tell(IF friend \in on[r]
                 THEN {Msg(s, "direct_matched", r), Msg(seat[r][friend], "direct_matched", r)}
                 ELSE {Msg(s, "waiting", r)})
         /\ displaced' = (displaced \ {t0}) \cup Ousted(s, {seat[r][OwnerOf[s]]})
  BY DEF JoinDirect
<1>2. R!RoomsInv /\ R!TypeOK /\ EventTypes
  BY InvParts
<1>3. Extends(t)
  <2>1. \A m \in (IF friend \in on[r]
                  THEN {Msg(s, "direct_matched", r), Msg(seat[r][friend], "direct_matched", r)}
                  ELSE {Msg(s, "waiting", r)}) : m.what \in Event
    BY MsgEvents DEF Named
  <2> QED
    BY <1>1, <1>2, <2>1, TellHeard DEF EventTypes
<1>4. /\ R!TakeSeat(r, OwnerOf[s], s) /\ open' = open \cup {r}
      /\ direct' = [direct EXCEPT ![{OwnerOf[s], friend}] = r]
      /\ \/ r = direct[{OwnerOf[s], friend}]
         \/ direct[{OwnerOf[s], friend}] = NoRoom
  BY <1>1 DEF R!JoinDirect
<1>5. DirectKept
  BY <1>2, <1>4, NoneAssumption DEF DirectKept, R!TypeOK
<1> QED
  BY <1>1, <1>3, <1>4, <1>5, TakingSpares DEF QueueWithout

LEMMA RejoinSpares ==
    ASSUME RealtimeInv, NEW t0 \in Tabs, NEW s \in connected, s = sock[t0],
           NEW r \in RoomIds, Rejoin(t0, s, r),
           UNCHANGED sock, NEW t \in Tabs, t # t0
    PROVE  Spared(t)
<1>1. EventTypes
  BY InvParts
<1>2. CASE /\ R!Rejoin(r, s) /\ UNCHANGED <<queue, down>>
           /\ displaced' = (displaced \ {t0}) \cup Ousted(s, {seat[r][OwnerOf[s]]})
  <2>1. R!TakeSeat(r, OwnerOf[s], s) /\ open' = open /\ direct' = direct
    BY <1>2 DEF R!Rejoin
  <2>2. Extends(t) /\ DirectKept
    BY <1>2, <2>1 DEF Extends, DirectKept
  <2> QED
    BY <1>2, <2>1, <2>2, TakingSpares
<1>3. CASE Tell({Msg(s, "gone", r)}) /\ UNCHANGED <<roomVars, queue, displaced>>
  <2>1. RoomsKept
    BY <1>3 DEF RoomsKept, roomMaps, roomVars
  <2>2. \A m \in {Msg(s, "gone", r)} : m.what \in Event
    BY MsgEvents DEF Named
  <2>3. Extends(t)
    BY <1>1, <1>3, <2>2, TellHeard DEF EventTypes
  <2> QED
    BY <1>3, <2>1, <2>3, RoomsKeptSpare
<1> QED
  BY <1>2, <1>3 DEF Rejoin

LEMMA SkipSpares ==
    ASSUME RealtimeInv, NEW t0 \in Tabs, NEW s \in connected, s = sock[t0],
           NEW r \in RoomIds, Skip(s, r),
           UNCHANGED sock, NEW t \in Tabs, t # t0
    PROVE  Spared(t)
<1>1. R!RoomsInv /\ EventTypes
  BY InvParts
<1>2. ASSUME R!Access(r, s), NEW reason, R!CloseAll({r}, reason), Tell(Left({r}, OwnerOf[s])),
             UNCHANGED <<connected, orphan, queue, displaced>>
      PROVE  Spared(t)
  <2>1. PICK C : C = {r}
    OBVIOUS
  <2>2. C \in SUBSET open /\ C \in SUBSET RoomIds
    BY <1>2, <2>1 DEF R!Access
  <2>3. \A m \in Left(C, OwnerOf[s]) : m.what \in Event
    BY <2>2, LeftEvents
  <2>4. /\ DirectKept
        /\ \A q \in open \ C, x \in Sockets : R!Access(q, x) => R!Access(q, x)'
    BY <1>1, <1>2, <2>1, <2>2, AccessClose
  <2>5. Tell(Left(C, OwnerOf[s])) /\ down \in [Tabs -> Seq(Event)]
    BY <1>1, <1>2, <2>1 DEF EventTypes
  <2>6. Extends(t)
    BY <2>3, <2>5, TellHeard
  <2>7. ASSUME sock[t] # NoSocket
        PROVE  \A q \in open : R!Access(q, sock[t]) => R!Access(q, sock[t])' \/ EndComing(t, q)'
    <3>1. sock[t] \in Sockets /\ sock[t] # s
      BY <2>7, OtherSocket
    <3>2. \A q \in C : R!Access(q, sock[t]) => OwnerOf[sock[t]] # OwnerOf[s]
      BY <1>2, <2>1, <3>1 DEF R!Access
    <3> QED
      BY <2>2, <2>3, <2>4, <2>5, <3>1, <3>2, ClosingSpares
  <2> QED
    BY <1>2, <2>4, <2>6, <2>7 DEF Spared
<1>3. CASE UNCHANGED <<roomVars, queue, down, displaced>>
  <2>1. RoomsKept /\ Extends(t)
    BY <1>3 DEF RoomsKept, roomMaps, roomVars, Extends
  <2> QED
    BY <1>3, <2>1, RoomsKeptSpare
<1> QED
  BY <1>2, <1>3 DEF Skip

LEMMA RefuseSpares ==
    ASSUME RealtimeInv, NEW s, NEW c \in Call, Refuse(s, c), UNCHANGED sock, NEW t \in Tabs
    PROVE  Spared(t)
<1> DEFINE sent == CASE c.op = "join_direct" -> {[to |-> s, what |-> [ev |-> "refused"]]}
                     [] c.op = "rejoin" -> {Msg(s, "gone", c.room)}
                     [] OTHER -> {}
<1>1. Tell(sent) /\ UNCHANGED <<roomVars, queue, displaced>> /\ EventTypes
  BY InvParts DEF Refuse
<1>2. RoomsKept
  BY <1>1 DEF RoomsKept, roomMaps, roomVars
<1>3. \A m \in sent : m.what \in Event
  BY RefusalEvents
<1> HIDE DEF sent
<1>4. Extends(t)
  BY <1>1, <1>3, TellHeard DEF EventTypes
<1> QED
  BY <1>1, <1>2, <1>4, RoomsKeptSpare

-----------------------------------------------------------------------------
(* The same handlers, seen from the tab that called, and every other step: *)
(* each keeps ScreensInv.                                                  *)

ScreensKept == Live' /\ CallsFit' /\ ScreensFit'

LEMMA ScreenParts ==
    ASSUME ScreensInv
    PROVE  /\ RealtimeInv /\ Live
           /\ \A t \in Tabs : CallsFitTab(t) /\ ScreenFits(t)
  BY DEF ScreensInv, CallsFit, ScreensFit

LEMMA NoCalls ==
    ASSUME NEW calls \in Seq(Call)
    PROVE  calls = <<>> <=> Len(calls) = 0
  OBVIOUS

LEMMA TailEnds ==
    ASSUME NEW calls \in Seq(Call), calls # <<>>, NEW c
    PROVE  /\ EndsIn(calls, c) => EndsIn(Tail(calls), c)
           /\ Tail(calls) = <<>> => Len(calls) = 1 /\ calls[Len(calls)] = Head(calls)
<1>1. Len(calls) \in Nat /\ Len(calls) > 0
  BY NoCalls
<1>2. PICK rest : rest = Tail(calls)
  OBVIOUS
<1>3. rest \in Seq(Call) /\ Len(rest) = Len(calls) - 1
  BY <1>1, <1>2
<1>4. Len(calls) # 1 => rest[Len(calls) - 1] = calls[Len(calls)]
  <2> SUFFICES ASSUME Len(calls) # 1
               PROVE  rest[Len(calls) - 1] = calls[Len(calls)]
    OBVIOUS
  <2>1. Len(calls) > 1 /\ Len(calls) - 1 \in 1..Len(rest)
    BY <1>1, <1>3
  <2>2. rest[Len(calls) - 1] = calls[Len(calls) - 1 + 1]
    BY <1>2, <2>1
  <2> QED
    BY <1>1, <2>2
<1>5. rest = <<>> <=> Len(calls) = 1
  BY <1>1, <1>3, NoCalls
<1>6. Len(calls) = 1 => calls[Len(calls)] = Head(calls)
  OBVIOUS
<1>7. EndsIn(calls, c) => EndsIn(rest, c)
  BY <1>3, <1>4, <1>5 DEF EndsIn
<1> QED
  BY <1>2, <1>5, <1>6, <1>7

LEMMA StartChatAnswers ==
    ASSUME RealtimeInv, NEW t \in Tabs, sock[t] \in connected, StartChat(t, sock[t]),
           UNCHANGED sock
    PROVE  Searches(t)'
<1> DEFINE s == sock[t]
           C == LeftBehind(s)
<1>1. R!RoomsInv /\ R!SeatedIsPresent /\ EventTypes /\ open \subseteq RoomIds
  BY InvParts
<1>2. C \in SUBSET RoomIds
  BY <1>1, ConnectedRooms DEF LeftBehind
<1>3. ASSUME NEW p, NEW r \in RoomIds,
             Tell(Left(C, OwnerOf[s]) \cup {Msg(s, "matched", r), Msg(p, "matched", r)})
      PROVE  Searches(t)'
  <2> DEFINE sent == Left(C, OwnerOf[s]) \cup {Msg(s, "matched", r), Msg(p, "matched", r)}
  <2>1. \A m \in sent : m.what \in Event
    BY <1>2, LeftEvents, MsgEvents DEF Named
  <2>2. Tell(sent) /\ Msg(sock[t], "matched", r) \in sent
    BY <1>3
  <2> HIDE DEF sent
  <2>3. Coming(t, {"matched", "search_timeout"})'
    BY <1>1, <2>1, <2>2, MatchedTold DEF EventTypes
  <2> QED
    BY <2>3 DEF Searches, Coming
<1>4. ASSUME s \in queue'
      PROVE  Searches(t)'
  BY <1>4 DEF Searches
<1> QED
  BY <1>3, <1>4 DEF StartChat

LEMMA JoinDirectAnswers ==
    ASSUME RealtimeInv, NEW t \in Tabs, sock[t] \in connected, NEW friend \in Users,
           JoinDirect(t, sock[t], friend), UNCHANGED <<sock, screen>>,
           screen[t].friend = friend
    PROVE  Calls(t)'
<1> DEFINE s == sock[t]
           u == OwnerOf[s]
<1>1. R!RoomsInv /\ R!TypeOK /\ TabsFit /\ connected \subseteq Sockets
  BY InvParts
<1>2. s \in Sockets /\ u = UserOf[t] /\ u \in Users
  BY <1>1, OwnersAreUsers DEF TabsFit, OwnerOf
<1>3. PICK r \in RoomIds : R!JoinDirect(s, friend, r)
  BY DEF JoinDirect
<1>4. /\ R!TakeSeat(r, OwnerOf[s], s) /\ open' = open \cup {r} /\ u # friend
      /\ direct' = [direct EXCEPT ![{u, friend}] = r]
  BY <1>3 DEF R!JoinDirect
<1>5. {u, friend} \in R!Pairs
  BY <1>2, <1>4 DEF R!Pairs
<1>6. direct'[{UserOf[t], screen'[t].friend}] = r
  BY <1>1, <1>2, <1>4, <1>5 DEF R!TypeOK
<1>7. PICK x \in Sockets : x = s
  BY <1>2
<1>8. R!Access(r, x)'
  BY <1>1, <1>4, <1>7, AccessTaken
<1> QED
  BY <1>6, <1>7, <1>8 DEF Calls, R!Access

LEMMA RejoinAnswers ==
    ASSUME RealtimeInv, NEW t \in Tabs, sock[t] \in connected, NEW r \in RoomIds,
           Rejoin(t, sock[t], r), UNCHANGED <<sock, screen>>, screen[t].room = r
    PROVE  Chats(t)'
<1>1. R!RoomsInv /\ connected \subseteq Sockets /\ EventTypes
  BY InvParts
<1>2. CASE R!Rejoin(r, sock[t])
  <2>1. PICK x \in Sockets : x = sock[t]
    BY <1>1
  <2>2. R!TakeSeat(r, OwnerOf[x], x) /\ open' = open /\ r \in open
    BY <1>2, <2>1 DEF R!Rejoin
  <2>3. R!Access(r, x)'
    BY <1>1, <2>2, AccessTaken
  <2> QED
    BY <2>1, <2>3 DEF Chats, R!Access
<1>3. CASE Tell({Msg(sock[t], "gone", r)})
  <2> DEFINE m == Msg(sock[t], "gone", r)
  <2>1. m.what \in Event /\ m.to = sock[t] /\ m.what.ev = "gone"
    BY MsgEvents DEF Named, Msg
  <2>2. \E i \in DOMAIN down'[t] : down'[t][i] = m.what
    BY <1>1, <1>3, <2>1, TellHeard DEF EventTypes
  <2> QED
    BY <2>1, <2>2 DEF Chats, Coming
<1> QED
  BY <1>2, <1>3 DEF Rejoin

\* What is refused is told, but for a search.
LEMMA RefuseAnswers ==
    ASSUME RealtimeInv, NEW t \in Tabs, NEW c \in Call, Refuse(sock[t], c)
    PROVE  /\ c.op = "join_direct" => Calls(t)'
           /\ c.op = "rejoin" => Chats(t)'
<1> DEFINE sent == CASE c.op = "join_direct" -> {[to |-> sock[t], what |-> [ev |-> "refused"]]}
                     [] c.op = "rejoin" -> {Msg(sock[t], "gone", c.room)}
                     [] OTHER -> {}
<1>1. Tell(sent) /\ EventTypes
  BY InvParts DEF Refuse
<1>2. \A m \in sent : m.what \in Event
  BY RefusalEvents
<1>3. /\ c.op = "join_direct" => [to |-> sock[t], what |-> [ev |-> "refused"]] \in sent
      /\ c.op = "rejoin" => Msg(sock[t], "gone", c.room) \in sent
  OBVIOUS
<1> HIDE DEF sent
<1>4. ASSUME NEW m \in sent, m.to = sock[t]
      PROVE  \E i \in DOMAIN down'[t] : down'[t][i] = m.what
  BY <1>1, <1>2, <1>4, TellHeard DEF EventTypes
<1>5. ASSUME c.op = "join_direct"
      PROVE  Calls(t)'
  <2>1. PICK m \in sent : m = [to |-> sock[t], what |-> [ev |-> "refused"]]
    BY <1>3, <1>5
  <2>2. m.to = sock[t] /\ m.what.ev = "refused"
    BY <2>1
  <2> QED
    BY <1>4, <2>2 DEF Calls, Coming
<1>6. ASSUME c.op = "rejoin"
      PROVE  Chats(t)'
  <2>1. PICK m \in sent : m = Msg(sock[t], "gone", c.room)
    BY <1>3, <1>6
  <2>2. m.to = sock[t] /\ m.what.ev = "gone"
    BY <2>1 DEF Msg
  <2> QED
    BY <1>4, <2>2 DEF Chats, Coming
<1> QED
  BY <1>5, <1>6

LEMMA HandleScreens ==
    ASSUME ScreensInv, NEW t0 \in Tabs, Handle(t0)
    PROVE  ScreensKept
<1> DEFINE s == sock[t0]
           c == Head(up[t0])
<1>1. /\ RealtimeInv /\ Live /\ TabTypes /\ TabsFit
      /\ s \in connected /\ up[t0] # <<>> /\ up[t0] \in Seq(Call)
      /\ up' = [up EXCEPT ![t0] = Tail(@)]
      /\ UNCHANGED <<banned, kicking, screen, sock, clicks>>
  BY ScreenParts, InvParts DEF Handle, Received, TabTypes
<1>2. \/ /\ Answer(t0, s, c)
         /\ strayed' = IF OfSearch(t0, c) THEN strayed \ {t0} ELSE strayed
      \/ /\ Refuse(s, c)
         /\ strayed' = IF OfSearch(t0, c) THEN strayed \cup {t0} ELSE strayed
  BY DEF Handle
<1>3. c \in Call
  BY <1>1
<1>4. /\ c.op = "join_direct" => c.friend \in Users
      /\ c.op \in {"skip", "rejoin"} => c.room \in RoomIds
  BY <1>3 DEF Call
<1>5. /\ up'[t0] = Tail(up[t0])
      /\ \A t \in Tabs : t # t0 => up'[t] = up[t]
  BY <1>1 DEF TabTypes
<1>6. CallsFitTab(t0) /\ ScreenFits(t0) /\ screen[t0] \in Screen
  BY <1>1, ScreenParts DEF TabTypes
<1> HIDE DEF c
<1>7. ASSUME NEW t \in Tabs, t # t0
      PROVE  CallsFitTab(t)' /\ ScreenFits(t)'
  <2>1. ASSUME Answer(t0, s, c)
        PROVE  Spared(t)
    BY <1>1, <1>4, <1>7, <2>1, StartChatSpares, CancelMatchSpares, JoinDirectSpares,
       SkipSpares, RejoinSpares DEF Answer
  <2>2. ASSUME Refuse(s, c)
        PROVE  Spared(t)
    BY <1>1, <1>3, <2>2, RefuseSpares
  <2>3. SameTab(t)
    BY <1>1, <1>2, <1>5, <1>7 DEF SameTab
  <2>4. Undisturbed(t)
    BY <1>1, <1>2, <2>1, <2>2, <2>3, SparedUndisturbed
  <2> QED
    BY <1>1, <2>4, ScreenParts, UndisturbedFits
<1>8. CallsFitTab(t0)'
  <2>1. screen[t0].name \in {"loading", "chat"} => (t0 \in strayed <=> t0 \in strayed')
    BY <1>2 DEF OfSearch, Searching
  <2>2. \A x : EndsIn(up[t0], x) => EndsIn(up'[t0], x)
    BY <1>1, <1>5, TailEnds
  <2>3. ASSUME NEW x, up[t0] \in {<<>>, <<x>>}
        PROVE  up'[t0] = <<>>
    <3>1. Len(up[t0]) = 1
      BY <1>1, <2>3
    <3>2. PICK q : q = Tail(up[t0])
      OBVIOUS
    <3>3. q \in Seq(Call)
      BY <1>1, <3>2
    <3>4. Len(q) = 0
      BY <1>1, <3>1, <3>2
    <3>5. q = <<>>
      BY <3>3, <3>4
    <3> QED
      BY <1>5, <3>2, <3>5
  <2> QED
    BY <1>1, <1>6, <2>2, <2>3, <2>1 DEF CallsFitTab
<1>9. ASSUME Settled(t0)'
      PROVE  /\ screen[t0].name \in {"matching", "again"} /\ t0 \notin strayed' => Searches(t0)'
             /\ screen[t0].name = "direct" => Calls(t0)'
             /\ screen[t0].name \in {"loading", "chat"} /\ t0 \notin strayed' => Chats(t0)'
  <2>1. Len(up[t0]) = 1 /\ up[t0][Len(up[t0])] = c
    BY <1>1, <1>5, <1>9, TailEnds DEF Settled, c
  <2>2. \A x : EndsIn(up[t0], x) => c = x
    BY <1>1, <2>1 DEF EndsIn
  <2>3. ASSUME screen[t0].name \in {"matching", "again"}, t0 \notin strayed'
        PROVE  Searches(t0)'
    <3>1. c.op = "start_chat"
      BY <1>6, <2>2, <2>3 DEF CallsFitTab
    <3>2. Answer(t0, s, c)
      BY <1>2, <2>3, <3>1 DEF OfSearch, Searching
    <3> QED
      BY <1>1, <3>1, <3>2, StartChatAnswers DEF Answer
  <2>4. ASSUME screen[t0].name = "direct"
        PROVE  Calls(t0)'
    <3>1. c = [op |-> "join_direct", friend |-> screen[t0].friend]
      BY <1>6, <2>2, <2>4 DEF CallsFitTab
    <3>2. c.op = "join_direct" /\ c.friend = screen[t0].friend
      BY <3>1
    <3>3. CASE Answer(t0, s, c)
      BY <1>1, <1>4, <3>2, <3>3, JoinDirectAnswers DEF Answer
    <3>4. CASE Refuse(s, c)
      BY <1>1, <1>3, <3>2, <3>4, RefuseAnswers
    <3> QED
      BY <1>2, <3>3, <3>4
  <2>5. ASSUME screen[t0].name \in {"loading", "chat"}, t0 \notin strayed'
        PROVE  Chats(t0)'
    <3>1. t0 \notin strayed
      BY <1>2, <2>5 DEF OfSearch, Searching
    <3>2. up[t0] = <<[op |-> "rejoin", room |-> screen[t0].room]>>
      BY <1>1, <1>6, <2>5, <3>1 DEF CallsFitTab
    <3>3. c.op = "rejoin" /\ c.room = screen[t0].room
      BY <3>2 DEF c
    <3>4. CASE Answer(t0, s, c)
      BY <1>1, <1>4, <3>3, <3>4, RejoinAnswers DEF Answer
    <3>5. CASE Refuse(s, c)
      BY <1>1, <1>3, <3>3, <3>5, RefuseAnswers
    <3> QED
      BY <1>2, <3>4, <3>5
  <2> QED
    BY <2>3, <2>4, <2>5
<1>10. ScreenFits(t0)'
  BY <1>1, <1>9 DEF ScreenFits
<1>11. Live'
  <2>1. connected' = connected
    BY <1>1, <1>2 DEF Answer, Refuse, StartChat, CancelMatch, JoinDirect, Skip, Rejoin,
                      R!JoinDirect, R!Rejoin, roomVars
  <2> QED
    BY <1>1, <2>1 DEF Live
<1> QED
  BY <1>7, <1>8, <1>10, <1>11 DEF ScreensKept, CallsFit, ScreensFit


\* A step of the server that changes no tab and spares each.
LEMMA SparedScreens ==
    ASSUME ScreensInv, UNCHANGED <<screen, sock, up, strayed, kicking>>,
           \A t \in Tabs : Spared(t),
           \A t \in Tabs : sock[t] \in connected => sock[t] \in connected'
    PROVE  ScreensKept
<1>1. ASSUME NEW t \in Tabs
      PROVE  CallsFitTab(t)' /\ ScreenFits(t)'
  <2>1. SameTab(t)
    BY DEF SameTab
  <2>2. Undisturbed(t)
    BY <2>1, SparedUndisturbed
  <2> QED
    BY <2>2, ScreenParts, UndisturbedFits
<1>2. Live'
  BY ScreenParts DEF Live
<1> QED
  BY <1>1, <1>2 DEF ScreensKept, CallsFit, ScreensFit

LEMMA SweepPairsScreens ==
    ASSUME ScreensInv, NEW s \in Sockets, NEW p \in Sockets, SweepPairs(s, p)
    PROVE  ScreensKept
<1>1. R!RoomsInv /\ EventTypes /\ TabTypes
  BY ScreenParts, InvParts
<1>2. PICK r \in RoomIds :
         R!CreateMatch({}, r, s, p) /\ Tell({Msg(s, "matched", r), Msg(p, "matched", r)})
  BY DEF SweepPairs
<1>3. /\ queue' = queue \ {s, p}
      /\ UNCHANGED <<connected, kicking, screen, sock, up, strayed, displaced>>
  BY DEF SweepPairs, tabVars
<1>4. PICK C : C = {}
  OBVIOUS
<1>5. /\ \A q \in open, x \in Sockets : R!Access(q, x) => R!Access(q, x)'
      /\ DirectKept
  <2>1. C \in SUBSET open /\ R!CreateMatch(C, r, s, p)
    BY <1>2, <1>4
  <2>2. /\ \A q \in open \ C, x \in Sockets : R!Access(q, x) => R!Access(q, x)'
        /\ DirectKept
    BY <1>1, <2>1, AccessMatch
  <2> QED
    BY <1>4, <2>2
<1>6. ASSUME NEW t \in Tabs
      PROVE  Spared(t)
  <2> DEFINE sent == {Msg(s, "matched", r), Msg(p, "matched", r)}
  <2>1. \A m \in sent : m.what \in Event
    BY MsgEvents DEF Named
  <2>2. Tell(sent) /\ Msg(s, "matched", r) \in sent /\ Msg(p, "matched", r) \in sent
    BY <1>2
  <2> HIDE DEF sent
  <2>3. Extends(t)
    BY <1>1, <2>1, <2>2, TellHeard DEF EventTypes
  <2>4. sock[t] \in queue => sock[t] \in queue' \/ Coming(t, {"matched", "search_timeout"})'
    BY <1>1, <1>3, <2>1, <2>2, MatchedTold DEF EventTypes
  <2>5. ASSUME NEW q \in open, sock[t] # NoSocket, R!Access(q, sock[t])
        PROVE  R!Access(q, sock[t])'
    <3>1. PICK x \in Sockets : x = sock[t]
      BY <1>1, <2>5 DEF TabTypes
    <3>2. R!Access(q, x)'
      BY <1>5, <2>5, <3>1
    <3> QED
      BY <1>3, <3>1, <3>2 DEF R!Access
  <2> QED
    BY <1>3, <1>5, <2>3, <2>4, <2>5 DEF Spared
<1> QED
  BY <1>3, <1>6, SparedScreens

LEMMA SweepGivesUpScreens ==
    ASSUME ScreensInv, NEW s \in Sockets, SweepGivesUp(s)
    PROVE  ScreensKept
<1> DEFINE m == [to |-> s, what |-> [ev |-> "search_timeout"]]
           sent == {m}
<1>1. EventTypes
  BY ScreenParts, InvParts
<1>2. /\ queue' = queue \ {s} /\ Tell(sent)
      /\ UNCHANGED <<connected, open, seat, on, direct, kicking, screen, sock, up, strayed,
                     displaced>>
  BY DEF SweepGivesUp, tabVars, roomVars
<1>3. \A x \in sent : x.what \in Event
  BY DEF Event
<1>4. ASSUME NEW t \in Tabs
      PROVE  Spared(t)
  <2>1. m \in sent /\ m.to = s /\ m.what.ev = "search_timeout"
    OBVIOUS
  <2> HIDE DEF sent, m
  <2>2. /\ Extends(t)
        /\ \A x \in sent : x.to = sock[t] => \E i \in DOMAIN down'[t] : down'[t][i] = x.what
    BY <1>1, <1>2, <1>3, TellHeard DEF EventTypes
  <2>3. sock[t] = s => Coming(t, {"matched", "search_timeout"})'
    BY <2>1, <2>2 DEF Coming
  <2>4. DirectKept /\ \A q : R!Access(q, sock[t]) => R!Access(q, sock[t])'
    BY <1>2 DEF DirectKept, R!Access
  <2> QED
    BY <1>2, <2>2, <2>3, <2>4 DEF Spared
<1> QED
  BY <1>2, <1>4, SparedScreens

LEMMA PingTimeoutScreens ==
    ASSUME ScreensInv, NEW s \in Sockets, PingTimeout(s)
    PROVE  ScreensKept
<1>1. R!RoomsInv /\ TabTypes /\ TabsFit
  BY ScreenParts, InvParts
<1>2. /\ R!Disconnect(s) /\ queue' = queue \ {s} /\ sock[TabOf[s]] # s
      /\ UNCHANGED <<kicking, screen, sock, up, strayed, down, displaced>>
  BY DEF PingTimeout, Gone, tabVars
<1>3. \A t \in Tabs : sock[t] # s
  BY <1>1, <1>2 DEF TabsFit
<1>4. /\ \A r \in open, x \in Sockets \ {s} : R!Access(r, x) => R!Access(r, x)'
      /\ DirectKept
  BY <1>1, <1>2, AccessGone
<1>5. ASSUME NEW t \in Tabs
      PROVE  Spared(t)
  <2>1. Extends(t)
    BY <1>2 DEF Extends
  <2>2. ASSUME NEW q \in open, sock[t] # NoSocket, R!Access(q, sock[t])
        PROVE  R!Access(q, sock[t])'
    <3>1. PICK x \in Sockets \ {s} : x = sock[t]
      BY <1>1, <1>3, <2>2 DEF TabTypes
    <3>2. R!Access(q, x)'
      BY <1>4, <2>2, <3>1
    <3> QED
      BY <1>2, <3>1, <3>2 DEF R!Access
  <2> QED
    BY <1>2, <1>3, <1>4, <2>1, <2>2 DEF Spared
<1>6. \A t \in Tabs : sock[t] \in connected => sock[t] \in connected'
  BY <1>2, <1>3 DEF R!Disconnect
<1> QED
  BY <1>2, <1>5, <1>6, SparedScreens


\* Closing rooms of no present member actor, with no tab out of the queue.
LEMMA TimerClosingSpares ==
    ASSUME RealtimeInv, NEW C \in SUBSET open, NEW actor, Tell(Left(C, actor)),
           UNCHANGED <<sock, queue>>, displaced \subseteq displaced', DirectKept,
           \A r \in open \ C, x \in Sockets : R!Access(r, x) => R!Access(r, x)',
           NEW t \in Tabs,
           sock[t] # NoSocket /\ t \notin displaced' =>
              \A r \in C : R!Access(r, sock[t]) => OwnerOf[sock[t]] # actor
    PROVE  Spared(t)
<1>1. EventTypes /\ TabTypes /\ C \in SUBSET RoomIds
  BY InvParts
<1>2. \A m \in Left(C, actor) : m.what \in Event
  BY <1>1, LeftEvents
<1>3. Extends(t)
  BY <1>1, <1>2, TellHeard DEF EventTypes
<1>4. ASSUME sock[t] # NoSocket, t \notin displaced'
      PROVE  \A q \in open : R!Access(q, sock[t]) => R!Access(q, sock[t])' \/ EndComing(t, q)'
  <2>1. sock[t] \in Sockets /\ down \in [Tabs -> Seq(Event)]
    BY <1>1, <1>4 DEF TabTypes, EventTypes
  <2> QED
    BY <1>1, <1>2, <1>4, <2>1, ClosingSpares
<1> QED
  BY <1>3, <1>4 DEF Spared

LEMMA TimerScreens ==
    ASSUME ScreensInv, NEW r \in RoomIds, Timer(r)
    PROVE  ScreensKept
<1>1. /\ RealtimeInv /\ R!RoomsInv /\ TabTypes /\ TabsFit
      /\ open \subseteq RoomIds
  BY ScreenParts, InvParts
<1>2. UNCHANGED <<queue, kicking, screen, sock, up, strayed>>
  BY DEF Timer, tabVars
<1>3. \A t \in Tabs : sock[t] # NoSocket =>
         /\ sock[t] \in Sockets /\ TabOf[sock[t]] = t
         /\ OwnerOf[sock[t]] \in Users
  BY <1>1, OwnersAreUsers DEF TabTypes, TabsFit
<1>4. ASSUME NEW C \in SUBSET open, NEW reason, R!CloseAll(C, reason), NEW actor,
             Tell(Left(C, actor)), displaced \subseteq displaced',
             \A t \in Tabs : sock[t] # NoSocket /\ t \notin displaced' =>
                \A q \in C : R!Access(q, sock[t]) => OwnerOf[sock[t]] # actor
      PROVE  \A t \in Tabs : Spared(t)
  <2>1. /\ \A q \in open \ C, x \in Sockets : R!Access(q, x) => R!Access(q, x)'
        /\ DirectKept
    BY <1>1, <1>4, AccessClose
  <2> QED
    BY <1>1, <1>2, <1>4, <2>1, TimerClosingSpares
<1>5. PICK C : C = {r}
  OBVIOUS
<1>6. ASSUME R!Expire(r), Tell(Left({r}, Nobody)), UNCHANGED displaced
      PROVE  \A t \in Tabs : Spared(t)
  <2>1. C \in SUBSET open /\ R!CloseAll(C, "timeout") /\ Tell(Left(C, Nobody))
    BY <1>5, <1>6 DEF R!Expire
  <2>2. \A t \in Tabs : sock[t] # NoSocket => OwnerOf[sock[t]] # Nobody
    BY <1>3, NoneAssumption
  <2> QED
    BY <1>4, <1>6, <2>1, <2>2
<1>7. ASSUME NEW u \in Users, R!GraceEnds(r, u), Tell(Left({r}, u)), UNCHANGED displaced
      PROVE  \A t \in Tabs : Spared(t)
  <2>1. u \in grace[r] /\ r \in open /\ u \notin on[r]
    BY <1>1, <1>7 DEF R!GraceEnds, R!RoomsInv, R!Seating, R!AbsentIsTimed
  <2>2. C \in SUBSET open /\ R!CloseAll(C, "disconnect") /\ Tell(Left(C, u))
    BY <1>5, <1>7, <2>1 DEF R!GraceEnds
  <2>3. \A t \in Tabs : \A q \in C : R!Access(q, sock[t]) => OwnerOf[sock[t]] # u
    BY <1>5, <2>1 DEF R!Access
  <2> QED
    BY <1>4, <1>7, <2>2, <2>3
<1>8. ASSUME NEW u \in Users, R!OrphanEnds(r, u), Tell(Left({r} \cap open, u)),
             displaced' = displaced \cup {TabOf[s] : s \in {seat[r][u]} \ {NoSocket}}
      PROVE  \A t \in Tabs : Spared(t)
  <2>1. PICK D : D = {r} \cap open
    OBVIOUS
  <2>2. \A t \in Tabs : sock[t] # NoSocket /\ t \notin displaced' =>
           \A q \in D : R!Access(q, sock[t]) => OwnerOf[sock[t]] # u
    BY <1>3, <1>8, <2>1 DEF R!Access
  <2>3. CASE r \in open
    <3>1. D \in SUBSET open /\ R!CloseAll(D, "disconnect") /\ Tell(Left(D, u))
      <4>1. D = {r}
        BY <2>1, <2>3
      <4>2. R!CloseAll({r}, "disconnect")
        BY <1>8, <2>3 DEF R!OrphanEnds
      <4> QED
        BY <1>8, <2>1, <2>3, <4>1, <4>2
    <3> QED
      BY <1>4, <1>8, <2>2, <3>1
  <2>4. CASE r \notin open
    <3>1. UNCHANGED <<open, seat, on, direct>>
      BY <1>8, <2>4 DEF R!OrphanEnds
    <3>2. D \in SUBSET open /\ Tell(Left(D, u)) /\ DirectKept
      BY <1>8, <2>1, <3>1 DEF DirectKept
    <3>3. \A q \in open \ D, x \in Sockets : R!Access(q, x) => R!Access(q, x)'
      BY <3>1 DEF R!Access
    <3> QED
      BY <1>1, <1>2, <1>8, <2>2, <3>2, <3>3, TimerClosingSpares
  <2> QED
    BY <2>3, <2>4
<1>9. \A t \in Tabs : Spared(t)
  BY <1>6, <1>7, <1>8 DEF Timer
<1>10. connected' = connected
  BY DEF Timer, R!Expire, R!GraceEnds, R!OrphanEnds
<1> QED
  BY <1>2, <1>9, <1>10, SparedScreens

\* kickUser(): the user's connected tabs are about to be told, the others
\* have no connection.
LEMMA KickScreens ==
    ASSUME ScreensInv, NEW u \in Users, Kick(u)
    PROVE  ScreensKept
<1>1. RealtimeInv /\ Live /\ TabTypes /\ TabsFit /\ connected \subseteq Sockets
  BY ScreenParts, InvParts
<1>2. /\ kicking = Nobody /\ kicking' = IF Kicked(u) = {} THEN Nobody ELSE u
      /\ queue' = {s \in queue : OwnerOf[s] # u}
      /\ UNCHANGED <<connected, open, seat, on, direct, screen, sock, up, strayed, down,
                     displaced>>
  BY DEF Kick, Running, roomVars, tabVars
<1>3. ASSUME NEW t \in Tabs
      PROVE  CallsFitTab(t)' /\ ScreenFits(t)'
  <2>1. SameTab(t) /\ Extends(t) /\ DirectKept
    BY <1>2 DEF SameTab, Extends, DirectKept
  <2>2. \A r : R!Access(r, sock[t]) => R!Access(r, sock[t])'
    BY <1>2 DEF R!Access
  <2>3. ASSUME Settled(t)'
        PROVE  Settled(t) /\ (sock[t] \in queue => sock[t] \in queue')
    <3>1. sock[t] \in connected /\ sock[t] \in Sockets /\ OwnerOf[sock[t]] = UserOf[t]
      BY <1>1, <1>2, <2>3 DEF Settled, Live, TabsFit, OwnerOf
    <3>2. UserOf[t] # u
      BY <1>2, <2>3, <3>1 DEF Settled, Kicked
    <3>3. UserOf[t] # Nobody
      BY TabAssumption, NoneAssumption
    <3> QED
      BY <1>2, <2>3, <3>1, <3>2, <3>3 DEF Settled
  <2>4. Undisturbed(t)
    BY <2>1, <2>2, <2>3 DEF Undisturbed
  <2> QED
    BY <1>1, <2>4, ScreenParts, UndisturbedFits
<1>4. Live'
  BY <1>1, <1>2 DEF Live
<1> QED
  BY <1>3, <1>4 DEF ScreensKept, CallsFit, ScreensFit

\* A tab without a connection has called nothing, and waits for nothing.
LEMMA UnconnectedFits ==
    ASSUME NEW t \in Tabs, CallsFitTab(t), screen'[t] = CutOff(t), up'[t] = <<>>,
           sock'[t] = NoSocket
    PROVE  CallsFitTab(t)' /\ ScreenFits(t)'
<1>1. \/ CutOff(t) = screen[t]
      \/ CutOff(t).name \in {"dashboard", "matching"}
  BY DEF CutOff, AfterEnd, Dashboard, Matching
<1>2. screen'[t].name = "direct" => screen'[t] = screen[t]
  BY <1>1
<1> QED
  BY <1>2 DEF CallsFitTab, EndsIn, ScreenFits, Settled

LEMMA RestartScreens ==
    ASSUME ScreensInv, Restart
    PROVE  ScreensKept
<1>1. /\ sock' = [t \in Tabs |-> NoSocket] /\ up' = [t \in Tabs |-> <<>>]
      /\ screen' = [t \in Tabs |-> CutOff(t)]
  BY DEF Restart
<1>2. \A t \in Tabs : CallsFitTab(t)' /\ ScreenFits(t)'
  BY <1>1, ScreenParts, UnconnectedFits
<1>3. Live'
  BY <1>1 DEF Live
<1> QED
  BY <1>2, <1>3 DEF ScreensKept, CallsFit, ScreensFit

LEMMA KickSocketScreens ==
    ASSUME ScreensInv, NEW s \in Sockets, KickSocket(s)
    PROVE  ScreensKept
<1> DEFINE t0 == TabOf[s]
<1>1. /\ RealtimeInv /\ R!RoomsInv /\ Live /\ TabTypes /\ TabsFit /\ EventTypes
      /\ connected \subseteq Sockets /\ t0 \in Tabs
  BY ScreenParts, InvParts, TabAssumption
<1>2. /\ kicking # Nobody /\ s \in Kicked(kicking)
      /\ R!Disconnect(s) /\ queue' = queue \ {s}
      /\ kicking' = IF Kicked(kicking) = {s} THEN Nobody ELSE kicking
      /\ UNCHANGED displaced
  BY DEF KickSocket, Gone
<1>3. IF sock[t0] = s
      THEN /\ screen' = [screen EXCEPT ![t0] = [name |-> "out"]]
           /\ sock' = [sock EXCEPT ![t0] = NoSocket]
           /\ up' = [up EXCEPT ![t0] = <<>>]
           /\ down' = [down EXCEPT ![t0] = <<>>]
           /\ strayed' = strayed \ {t0}
      ELSE UNCHANGED <<screen, sock, up, strayed, down>>
  BY DEF KickSocket
<1>4. \A t \in Tabs : sock[t] = s => t = t0
  BY <1>1, <1>2 DEF TabsFit
<1>5. /\ \A r \in open, x \in Sockets \ {s} : R!Access(r, x) => R!Access(r, x)'
      /\ DirectKept /\ connected' = connected \ {s}
  BY <1>1, <1>2, AccessGone DEF R!Disconnect
<1>6. ASSUME NEW t \in Tabs, sock[t] # s
      PROVE  /\ CallsFitTab(t)' /\ ScreenFits(t)'
             /\ sock'[t] # NoSocket => sock'[t] \in connected'
  <2>1. /\ screen'[t] = screen[t] /\ sock'[t] = sock[t] /\ up'[t] = up[t]
        /\ down'[t] = down[t] /\ (t \in strayed <=> t \in strayed')
    <3>1. CASE sock[t0] = s
      <4>1. t # t0
        BY <1>6, <3>1
      <4> QED
        BY <1>1, <1>3, <3>1, <4>1 DEF TabTypes, EventTypes
    <3>2. CASE sock[t0] # s
      BY <1>3, <3>2
    <3> QED
      BY <3>1, <3>2
  <2>2. SameTab(t) /\ Extends(t)
    BY <2>1 DEF SameTab, Extends
  <2>3. ASSUME sock[t] # NoSocket
        PROVE  /\ sock[t] \in connected /\ sock[t] \in Sockets \ {s}
               /\ OwnerOf[sock[t]] = UserOf[t]
    BY <1>1, <1>6, <2>3 DEF Live, TabsFit, OwnerOf
  <2>4. ASSUME Settled(t)'
        PROVE  Settled(t) /\ (sock[t] \in queue => sock[t] \in queue')
    <3>1. /\ sock[t] # NoSocket /\ UserOf[t] # kicking' /\ up[t] = <<>>
          /\ t \notin displaced
      BY <1>2, <2>1, <2>4 DEF Settled
    <3>2. UserOf[t] # kicking
      BY <1>2, <1>6, <2>3, <3>1 DEF Kicked
    <3> QED
      BY <1>2, <1>6, <3>1, <3>2 DEF Settled
  <2>5. ASSUME NEW q \in open, sock[t] # NoSocket, R!Access(q, sock[t])
        PROVE  R!Access(q, sock[t])'
    <3>1. PICK x \in Sockets \ {s} : x = sock[t]
      BY <2>3, <2>5
    <3>2. R!Access(q, x)'
      BY <1>5, <2>5, <3>1
    <3> QED
      BY <2>1, <3>1, <3>2 DEF R!Access
  <2>6. Undisturbed(t)
    <3>1. Settled(t) => sock[t] # NoSocket
      BY DEF Settled
    <3> QED
      BY <1>5, <2>2, <2>4, <2>5, <3>1 DEF Undisturbed
  <2>7. CallsFitTab(t)' /\ ScreenFits(t)'
    BY <1>1, <2>6, ScreenParts, UndisturbedFits
  <2> QED
    BY <1>5, <2>1, <2>3, <2>7
<1>7. ASSUME NEW t \in Tabs, sock[t] = s
      PROVE  /\ CallsFitTab(t)' /\ ScreenFits(t)'
             /\ sock'[t] = NoSocket
  <2>1. t = t0 /\ screen'[t] = [name |-> "out"] /\ sock'[t] = NoSocket
    BY <1>1, <1>3, <1>4, <1>7 DEF TabTypes
  <2> QED
    BY <2>1 DEF CallsFitTab, ScreenFits, Settled
<1>8. Live'
  BY <1>6, <1>7 DEF Live
<1> QED
  BY <1>6, <1>7, <1>8 DEF ScreensKept, CallsFit, ScreensFit

-----------------------------------------------------------------------------
(* The steps of a tab t0: the others are as they were, and so is all the   *)
(* server holds for them.                                                  *)

LEMMA Apart ==
    ASSUME ScreensInv, NEW t0 \in Tabs,
           UNCHANGED <<open, seat, on, direct, queue, kicking>>,
           \A t \in Tabs \ {t0} :
              /\ SameTab(t) /\ down'[t] = down[t]
              /\ t \in displaced => t \in displaced',
           CallsFitTab(t0)', ScreenFits(t0)', Live'
    PROVE  ScreensKept
<1>1. ASSUME NEW t \in Tabs \ {t0}
      PROVE  CallsFitTab(t)' /\ ScreenFits(t)'
  <2>1. SameTab(t) /\ Extends(t) /\ DirectKept
    BY DEF Extends, DirectKept
  <2>2. \A r : R!Access(r, sock[t]) => R!Access(r, sock[t])'
    BY <2>1 DEF R!Access, SameTab
  <2>3. Settled(t)' => Settled(t)
    BY <2>1 DEF Settled, SameTab
  <2>4. Undisturbed(t)
    BY <2>1, <2>2, <2>3 DEF Undisturbed
  <2> QED
    BY <2>4, ScreenParts, UndisturbedFits
<1> QED
  BY <1>1 DEF ScreensKept, CallsFit, ScreensFit

LEMMA ConnectScreens ==
    ASSUME ScreensInv, NEW t0 \in Tabs, Connect(t0)
    PROVE  ScreensKept
<1> DEFINE scr == screen[t0]
<1>1. RealtimeInv /\ Live /\ TabTypes /\ CallsFitTab(t0) /\ scr \in Screen
  BY ScreenParts, InvParts DEF TabTypes
<1>2. UNCHANGED <<open, seat, on, direct, queue, kicking, down, displaced>>
  BY DEF Connect, R!Connect, roomVars
<1>3. CASE /\ screen' = [screen EXCEPT ![t0] = [name |-> "out"]]
           /\ UNCHANGED <<roomVars, sock, up, strayed>>
  <2>1. screen'[t0] = [name |-> "out"]
    BY <1>1, <1>3 DEF TabTypes
  <2>2. CallsFitTab(t0)' /\ ScreenFits(t0)'
    BY <2>1 DEF CallsFitTab, ScreenFits
  <2>3. \A t \in Tabs \ {t0} : SameTab(t)
    BY <1>1, <1>2, <1>3 DEF SameTab, TabTypes
  <2>4. Live'
    BY <1>1, <1>3 DEF Live, roomVars
  <2> QED
    BY <1>2, <2>2, <2>3, <2>4, Apart
<1>4. ASSUME NEW s \in Sockets, R!Connect(s), sock' = [sock EXCEPT ![t0] = s],
             up' = [up EXCEPT ![t0] = Resume(scr)],
             screen' = IF scr.name = "timedOut"
                       THEN [screen EXCEPT ![t0] = [name |-> "again"]] ELSE screen,
             strayed' = IF scr.name = "loading" THEN strayed \cup {t0} ELSE strayed
      PROVE  ScreensKept
  <2>1. /\ up'[t0] = Resume(scr)
        /\ screen'[t0] = IF scr.name = "timedOut" THEN [name |-> "again"] ELSE scr
    BY <1>1, <1>4 DEF TabTypes
  <2>2. /\ scr.name \in {"matching", "timedOut", "again"} => up'[t0] = <<[op |-> "start_chat"]>>
        /\ scr.name = "direct" =>
              up'[t0] = <<[op |-> "join_direct", friend |-> scr.friend]>>
        /\ scr.name = "chat" => up'[t0] = <<[op |-> "rejoin", room |-> scr.room]>>
        /\ scr.name = "loading" => t0 \in strayed'
    BY <1>4, <2>1 DEF Resume, CallOf, Start
  <2>3. CallsFitTab(t0)'
    BY <1>1, <2>1, <2>2 DEF CallsFitTab, EndsIn
  <2>4. ScreenFits(t0)'
    BY <2>1, <2>2 DEF ScreenFits, Settled
  <2>5. \A t \in Tabs \ {t0} : SameTab(t)
    BY <1>1, <1>2, <1>4 DEF SameTab, TabTypes
  <2>6. Live'
    BY <1>1, <1>4 DEF Live, TabTypes, R!Connect
  <2> QED
    BY <1>2, <2>3, <2>4, <2>5, <2>6, Apart
<1> QED
  BY <1>3, <1>4 DEF Connect

LEMMA BreakScreens ==
    ASSUME ScreensInv, NEW t0 \in Tabs, Break(t0)
    PROVE  ScreensKept
<1>1. RealtimeInv /\ Live /\ TabTypes /\ EventTypes /\ CallsFitTab(t0)
  BY ScreenParts, InvParts
<1>2. /\ sock' = [sock EXCEPT ![t0] = NoSocket] /\ up' = [up EXCEPT ![t0] = <<>>]
      /\ down' = [down EXCEPT ![t0] = <<>>] /\ strayed' = strayed \ {t0}
      /\ screen' = [screen EXCEPT ![t0] = CutOff(t0)]
      /\ UNCHANGED <<connected, open, seat, on, direct, queue, kicking, displaced>>
  BY DEF Break, roomVars
<1>3. CallsFitTab(t0)' /\ ScreenFits(t0)'
  <2>1. up'[t0] = <<>> /\ sock'[t0] = NoSocket /\ screen'[t0] = CutOff(t0)
    BY <1>1, <1>2 DEF TabTypes
  <2> QED
    BY <1>1, <2>1, UnconnectedFits
<1>4. \A t \in Tabs \ {t0} : SameTab(t) /\ down'[t] = down[t]
  BY <1>1, <1>2 DEF SameTab, TabTypes, EventTypes
<1>5. Live'
  BY <1>1, <1>2 DEF Live, TabTypes
<1> QED
  BY <1>2, <1>3, <1>4, <1>5, Apart


LEMMA TailKeeps ==
    ASSUME NEW t \in Tabs, down[t] \in Seq(Event), down[t] # <<>>, down'[t] = Tail(down[t])
    PROVE  /\ \A evs : Head(down[t]).ev \notin evs /\ Coming(t, evs) => Coming(t, evs)'
           /\ \A r : /\ Head(down[t]) # [ev |-> "partner_left", room |-> r]
                     /\ EndComing(t, r)
                     => EndComing(t, r)'
<1>1. ASSUME NEW i \in DOMAIN down[t], down[t][i] # Head(down[t])
      PROVE  \E j \in DOMAIN down'[t] : down'[t][j] = down[t][i]
  <2>1. i \in 1..Len(down[t]) /\ i # 1
    BY <1>1
  <2>2. i - 1 \in DOMAIN Tail(down[t]) /\ Tail(down[t])[i - 1] = down[t][i]
    BY <2>1
  <2> QED
    BY <2>2
<1>2. ASSUME NEW evs, Head(down[t]).ev \notin evs, Coming(t, evs)
      PROVE  Coming(t, evs)'
  <2>1. PICK i \in DOMAIN down[t] : down[t][i].ev \in evs
    BY <1>2 DEF Coming
  <2>2. down[t][i] # Head(down[t])
    BY <1>2, <2>1
  <2> QED
    BY <1>1, <2>1, <2>2 DEF Coming
<1>3. ASSUME NEW r, Head(down[t]) # [ev |-> "partner_left", room |-> r], EndComing(t, r)
      PROVE  EndComing(t, r)'
  BY <1>1, <1>3 DEF EndComing
<1> QED
  BY <1>2, <1>3

LEMMA AddedEnds ==
    ASSUME NEW calls \in Seq(Call), NEW x \in Call
    PROVE  calls \o <<x>> # <<>> /\ (calls \o <<x>>)[Len(calls \o <<x>>)] = x
<1>1. Len(calls \o <<x>>) = Len(calls) + 1 /\ (calls \o <<x>>)[Len(calls) + 1] = x
  OBVIOUS
<1> QED
  BY <1>1

\* A screen that is shown makes its call last.
LEMMA ShowScreens ==
    ASSUME TabTypes, NEW t \in Tabs, NEW scr \in Screen, NEW first \in Seq(Call),
           Show(t, first, scr), UNCHANGED sock,
           scr.name \notin {"loading", "chat", "again"},
           scr.name = "direct" => scr.friend # UserOf[t]
    PROVE  CallsFitTab(t)' /\ ScreenFits(t)'
<1>1. screen'[t] = scr
  BY DEF Show, TabTypes
<1>2. up'[t] = IF sock[t] = NoSocket THEN <<>> ELSE up[t] \o first \o CallOf(scr)
  BY DEF Show, TabTypes
<1>3. up[t] \o first \in Seq(Call)
  BY DEF TabTypes
<1>4. ASSUME NEW x \in Call, CallOf(scr) = <<x>>, sock[t] # NoSocket
      PROVE  up'[t] # <<>> /\ EndsIn(up[t], x)'
  <2>1. PICK calls \in Seq(Call) : calls = up[t] \o first
    BY <1>3
  <2>2. up'[t] = calls \o <<x>>
    BY <1>2, <1>4, <2>1
  <2> QED
    BY <2>2, AddedEnds DEF EndsIn
<1>5. CASE sock[t] = NoSocket
  BY <1>1, <1>2, <1>5 DEF CallsFitTab, EndsIn, ScreenFits, Settled
<1>6. CASE sock[t] # NoSocket /\ scr.name = "matching"
  <2>1. CallOf(scr) = <<[op |-> "start_chat"]>> /\ [op |-> "start_chat"] \in Call
    BY <1>6 DEF CallOf, Start, Call
  <2>2. up'[t] # <<>> /\ EndsIn(up[t], [op |-> "start_chat"])'
    BY <1>4, <1>6, <2>1
  <2> QED
    BY <1>1, <1>6, <2>2 DEF CallsFitTab, ScreenFits, Settled, EndsIn
<1>7. CASE sock[t] # NoSocket /\ scr.name = "direct"
  <2>1. scr.friend \in Users
    BY <1>7 DEF Screen
  <2>2. PICK x \in Call : x = [op |-> "join_direct", friend |-> scr.friend]
    BY <2>1 DEF Call
  <2>3. CallOf(scr) = <<x>>
    BY <1>7, <2>2 DEF CallOf
  <2>4. up'[t] # <<>> /\ EndsIn(up[t], x)'
    BY <1>4, <1>7, <2>3
  <2> QED
    BY <1>1, <1>7, <2>2, <2>4 DEF CallsFitTab, ScreenFits, Settled, EndsIn
<1>8. CASE scr.name \notin {"matching", "direct"}
  BY <1>1, <1>8 DEF CallsFitTab, ScreenFits
<1> QED
  BY <1>5, <1>6, <1>7, <1>8

LEMMA AfterEndShown ==
    ASSUME NEW scr
    PROVE  AfterEnd(scr) \in Screen /\ AfterEnd(scr).name \notin {"loading", "chat", "again", "direct"}
  BY DEF AfterEnd, Matching, Dashboard, Screen

LEMMA ClickScreens ==
    ASSUME ScreensInv, NEW t0 \in Tabs, NEW from, NEW first \in Seq(Call), NEW scr \in Screen,
           Click(t0, from, first, scr), scr.name \notin {"loading", "chat", "again"},
           scr.name = "direct" => scr.friend # UserOf[t0]
    PROVE  ScreensKept
<1>1. TabTypes /\ Live
  BY ScreenParts, InvParts
<1>2. /\ Show(t0, first, scr)
      /\ UNCHANGED <<connected, open, seat, on, direct, queue, kicking, sock, down, displaced>>
  BY DEF Click, roomVars
<1>3. CallsFitTab(t0)' /\ ScreenFits(t0)'
  BY <1>1, <1>2, ShowScreens
<1>4. \A t \in Tabs \ {t0} : SameTab(t)
  BY <1>1, <1>2 DEF SameTab, TabTypes, Show
<1>5. Live'
  BY <1>1, <1>2 DEF Live
<1> QED
  BY <1>2, <1>3, <1>4, <1>5, Apart

LEMMA ClicksScreens ==
    ASSUME ScreensInv, NEW t \in Tabs,
           \/ StepIn(t) \/ Retry(t) \/ Cancel(t) \/ HangUp(t) \/ ClickSkip(t)
           \/ \E f \in Users : CallFriend(t, f) \/ TakeInvite(t, f)
    PROVE  ScreensKept
<1>1. TabTypes
  BY ScreenParts, InvParts
<1>2. /\ Matching \in Screen /\ Matching.name = "matching"
      /\ Dashboard \in Screen /\ Dashboard.name = "dashboard"
      /\ <<>> \in Seq(Call) /\ <<[op |-> "cancel_match"]>> \in Seq(Call)
  BY DEF Matching, Dashboard, Screen, Call
<1>3. CASE StepIn(t) \/ Retry(t)
  BY <1>2, <1>3, ClickScreens DEF StepIn, Retry
<1>4. CASE Cancel(t)
  BY <1>2, <1>4, ClickScreens DEF Cancel
<1>5. CASE HangUp(t)
  <2>1. screen[t].name = "direct" /\ screen[t].room # NoRoom => screen[t].room \in RoomIds
    BY <1>1 DEF TabTypes, Screen
  <2>2. PICK first : first = IF screen[t].room = NoRoom THEN <<>>
                             ELSE <<[op |-> "skip", room |-> screen[t].room]>>
    OBVIOUS
  <2>3. first \in Seq(Call)
    <3>1. screen[t].room # NoRoom => [op |-> "skip", room |-> screen[t].room] \in Call
      BY <1>5, <2>1 DEF HangUp, Call
    <3> QED
      BY <2>2, <3>1
  <2>4. Click(t, {"direct"}, first, Dashboard)
    BY <1>5, <2>2 DEF HangUp
  <2> QED
    BY <1>2, <2>3, <2>4, ClickScreens
<1>6. CASE ClickSkip(t)
  <2>1. screen[t].room \in RoomIds
    BY <1>1, <1>6 DEF TabTypes, Screen, ClickSkip
  <2>2. PICK first, scr : /\ first = <<[op |-> "skip", room |-> screen[t].room]>>
                          /\ scr = AfterEnd(screen[t])
    OBVIOUS
  <2>3. first \in Seq(Call)
    <3>1. [op |-> "skip", room |-> screen[t].room] \in Call
      BY <2>1 DEF Call
    <3> QED
      BY <2>2, <3>1
  <2>4. Click(t, {"chat"}, first, scr)
    BY <1>6, <2>2 DEF ClickSkip
  <2>5. scr \in Screen /\ scr.name \notin {"loading", "chat", "again", "direct"}
    BY <2>2, AfterEndShown
  <2> QED
    BY <2>3, <2>4, <2>5, ClickScreens
<1>7. ASSUME NEW f \in Users, CallFriend(t, f) \/ TakeInvite(t, f)
      PROVE  ScreensKept
  <2>1. PICK scr : /\ scr \in {Calling(f), Called(screen[t], f)}
                   /\ \E from : Click(t, from, <<>>, scr)
    BY <1>7 DEF CallFriend, TakeInvite
  <2>2. Calling(f) \in Screen /\ Calling(f).name = "direct" /\ Calling(f).friend = f
    BY DEF Calling, Screen
  <2>3. ASSUME screen[t].name = "direct", NEW x, x = [screen[t] EXCEPT !.friend = f]
        PROVE  x \in Screen /\ x.name = "direct" /\ x.friend = f
    <3>1. screen[t] \in [name : {"direct"}, friend : Users, room : RoomIds \cup {NoRoom}]
      BY <1>1, <2>3 DEF TabTypes, Screen
    <3>2. /\ x \in [name : {"direct"}, friend : Users, room : RoomIds \cup {NoRoom}]
          /\ x.friend = f
      BY <2>3, <3>1
    <3> QED
      BY <3>2 DEF Screen
  <2>4. scr \in Screen /\ scr.name = "direct" /\ scr.friend = f
    BY <2>1, <2>2, <2>3 DEF Called
  <2>5. f # UserOf[t]
    BY <1>7 DEF CallFriend, TakeInvite
  <2> QED
    BY <1>2, <2>1, <2>5, <2>4, ClickScreens
<1> QED
  BY <1>3, <1>4, <1>5, <1>6, <1>7

\* The chat is mounted with what its tab had.
LEMMA MountScreens ==
    ASSUME ScreensInv, NEW t0 \in Tabs, Mount(t0)
    PROVE  ScreensKept
<1>1. TabTypes /\ Live /\ CallsFitTab(t0) /\ ScreenFits(t0)
  BY ScreenParts, InvParts
<1>2. /\ screen[t0].name = "loading"
      /\ screen' = [screen EXCEPT ![t0] = [name |-> "chat", room |-> @.room, type |-> @.type]]
      /\ UNCHANGED <<connected, open, seat, on, direct, queue, kicking, sock, up, down,
                     displaced, strayed>>
  BY DEF Mount, roomVars
<1>3. /\ screen'[t0].name = "chat" /\ screen'[t0].room = screen[t0].room
      /\ \A t \in Tabs \ {t0} : screen'[t] = screen[t]
  BY <1>1, <1>2 DEF TabTypes
<1>4. CallsFitTab(t0)'
  BY <1>1, <1>2, <1>3 DEF CallsFitTab
<1>5. ScreenFits(t0)'
  <2>1. ASSUME Settled(t0)', t0 \notin strayed'
        PROVE  Chats(t0)'
    <3>1. Chats(t0)
      BY <1>1, <1>2, <2>1 DEF ScreenFits, Settled
    <3> QED
      BY <1>2, <1>3, <3>1 DEF Chats, R!Access, EndComing, Coming
  <2> QED
    BY <1>3, <2>1 DEF ScreenFits
<1>6. \A t \in Tabs \ {t0} : SameTab(t)
  BY <1>2, <1>3 DEF SameTab
<1>7. Live'
  BY <1>1, <1>2 DEF Live
<1> QED
  BY <1>2, <1>4, <1>5, <1>6, <1>7, Apart


LEMMA DeliverScreens ==
    ASSUME ScreensInv, NEW t0 \in Tabs, Deliver(t0)
    PROVE  ScreensKept
<1> DEFINE m == Head(down[t0])
           scr == screen[t0]
<1>1. /\ Live /\ TabTypes /\ EventTypes /\ CallsFitTab(t0) /\ ScreenFits(t0)
      /\ scr \in Screen /\ down[t0] \in Seq(Event) /\ down[t0] # <<>>
  BY ScreenParts, InvParts DEF Deliver, TabTypes, EventTypes
<1>2. /\ down' = [down EXCEPT ![t0] = Tail(@)]
      /\ displaced' = IF m.ev = "partner_left" /\ scr.name = "direct"
                      THEN displaced \cup {t0} ELSE displaced
      /\ UNCHANGED <<connected, open, seat, on, direct, queue, kicking, sock>>
  BY DEF Deliver, roomVars
<1>3. down'[t0] = Tail(down[t0]) /\ m \in Event
  BY <1>1, <1>2 DEF EventTypes
<1>4. /\ \A evs : m.ev \notin evs /\ Coming(t0, evs) => Coming(t0, evs)'
      /\ \A r : m # [ev |-> "partner_left", room |-> r] /\ EndComing(t0, r)
                   => EndComing(t0, r)'
  BY <1>1, <1>3, TailKeeps
<1>5. Live'
  BY <1>1, <1>2 DEF Live
<1>6. ASSUME UNCHANGED <<screen, up>>, strayed' \in {strayed, strayed \cup {t0}},
             m.ev \in {"search_timeout", "matched"} => scr.name \notin Searching,
             m.ev = "partner_left" /\ t0 \notin strayed' =>
                ~(scr.name \in {"loading", "chat"} /\ Says(scr, m.room)),
             m.ev \notin {"gone", "refused"}
      PROVE  CallsFitTab(t0)' /\ ScreenFits(t0)'
  <2>1. CallsFitTab(t0)'
    BY <1>1, <1>6 DEF CallsFitTab
  <2>2. ASSUME Settled(t0)'
        PROVE  Settled(t0) /\ (scr.name = "direct" => m.ev # "partner_left")
    BY <1>2, <1>6, <2>2 DEF Settled
  <2>3. ASSUME Settled(t0)', scr.name \in {"matching", "again"}, t0 \notin strayed'
        PROVE  Searches(t0)'
    <3>1. m.ev \notin {"matched", "search_timeout", "gone"}
      BY <1>6, <2>3 DEF Searching
    <3>2. Searches(t0)
      BY <1>1, <1>6, <2>2, <2>3 DEF ScreenFits
    <3> QED
      BY <1>2, <1>4, <3>1, <3>2 DEF Searches
  <2>4. ASSUME Settled(t0)', scr.name = "direct"
        PROVE  Calls(t0)'
    <3>1. m.ev \notin {"partner_left", "refused"}
      BY <1>6, <2>2, <2>4
    <3>2. Calls(t0)
      BY <1>1, <2>2, <2>4 DEF ScreenFits
    <3> QED
      BY <1>2, <1>4, <1>6, <3>1, <3>2 DEF Calls, R!Access
  <2>5. ASSUME Settled(t0)', scr.name \in {"loading", "chat"}, t0 \notin strayed'
        PROVE  Chats(t0)'
    <3>1. m # [ev |-> "partner_left", room |-> scr.room] /\ m.ev \notin {"gone"}
      BY <1>1, <1>6, <2>5 DEF Screen, Says
    <3>2. Chats(t0)
      BY <1>1, <1>6, <2>2, <2>5 DEF ScreenFits
    <3> QED
      BY <1>2, <1>4, <1>6, <3>1, <3>2 DEF Chats, R!Access
  <2>6. ScreenFits(t0)'
    BY <1>6, <2>3, <2>4, <2>5 DEF ScreenFits
  <2> QED
    BY <2>1, <2>6
<1>7. ASSUME NEW chat, EnterChat(t0, chat), chat.name = "loading", chat.room = m.room
      PROVE  CallsFitTab(t0)' /\ ScreenFits(t0)'
  <2>1. /\ screen'[t0] = chat /\ up' = up
        /\ t0 \notin strayed' => ~OutOfDate(t0, m.room)
    BY <1>1, <1>7 DEF EnterChat, TabTypes
  <2>2. CallsFitTab(t0)'
    BY <1>7, <2>1 DEF CallsFitTab, OutOfDate
  <2>3. ASSUME t0 \notin strayed'
        PROVE  Chats(t0)'
    <3>1. \/ R!Access(m.room, sock[t0])
          \/ \E i \in DOMAIN Tail(down[t0]) :
                Tail(down[t0])[i] = [ev |-> "partner_left", room |-> m.room]
      BY <2>1, <2>3 DEF OutOfDate
    <3>2. CASE R!Access(m.room, sock[t0])
      BY <1>2, <1>7, <2>1, <3>2 DEF Chats, R!Access
    <3>3. CASE \E i \in DOMAIN Tail(down[t0]) :
                  Tail(down[t0])[i] = [ev |-> "partner_left", room |-> m.room]
      BY <1>3, <1>7, <2>1, <3>3 DEF Chats, EndComing
    <3> QED
      BY <3>1, <3>2, <3>3
  <2> QED
    BY <1>7, <2>1, <2>2, <2>3 DEF ScreenFits
<1>8. ASSUME scr.name = "direct", m.ev = "waiting",
             screen' = [screen EXCEPT ![t0].room = m.room], UNCHANGED <<up, strayed>>
      PROVE  CallsFitTab(t0)' /\ ScreenFits(t0)'
  <2>1. screen'[t0] = [scr EXCEPT !.room = m.room]
    BY <1>1, <1>8 DEF TabTypes
  <2>2. /\ screen'[t0].name = "direct" /\ screen'[t0].friend = scr.friend
    BY <1>1, <1>8, <2>1 DEF Screen
  <2>3. CallsFitTab(t0)'
    BY <1>1, <1>8, <2>1, <2>2 DEF CallsFitTab, EndsIn
  <2>4. ASSUME Settled(t0)'
        PROVE  Calls(t0)'
    <3>1. Settled(t0)
      BY <1>2, <1>8, <2>1, <2>4 DEF Settled
    <3>2. Calls(t0)
      BY <1>1, <1>8, <3>1 DEF ScreenFits
    <3> QED
      BY <1>2, <1>4, <1>8, <2>2, <3>2 DEF Calls, R!Access
  <2> QED
    BY <2>2, <2>3, <2>4 DEF ScreenFits
<1>9. ASSUME screen' = [screen EXCEPT ![t0] = [name |-> "timedOut"]]
      PROVE  CallsFitTab(t0)' /\ ScreenFits(t0)'
  <2>1. screen'[t0] = [name |-> "timedOut"]
    BY <1>1, <1>9 DEF TabTypes
  <2> QED
    BY <2>1 DEF CallsFitTab, ScreenFits
<1>10. ASSUME NEW to \in {Dashboard, AfterEnd(scr)}, Show(t0, <<>>, to)
      PROVE  CallsFitTab(t0)' /\ ScreenFits(t0)'
  <2>1. PICK next : next = to
    OBVIOUS
  <2>2. Dashboard \in Screen /\ Dashboard.name = "dashboard"
    BY DEF Dashboard, Screen
  <2>3. next \in Screen /\ next.name \notin {"loading", "chat", "again", "direct"}
    BY <2>1, <2>2, AfterEndShown
  <2>4. <<>> \in Seq(Call)
    OBVIOUS
  <2> QED
    BY <1>1, <1>2, <1>10, <2>1, <2>3, <2>4, ShowScreens
<1>11. CallsFitTab(t0)' /\ ScreenFits(t0)'
  <2>1. \/ /\ m.ev = "matched"
           /\ EnterChat(t0, [name |-> "loading", room |-> m.room, type |-> "match"])
        \/ /\ m.ev = "direct_matched"
           /\ EnterChat(t0, [name |-> "loading", room |-> m.room, type |-> "direct",
                             friend |-> scr.friend])
        \/ /\ m.ev = "waiting" /\ scr.name = "direct"
           /\ screen' = [screen EXCEPT ![t0].room = m.room] /\ UNCHANGED <<up, strayed>>
        \/ screen' = [screen EXCEPT ![t0] = [name |-> "timedOut"]]
        \/ Show(t0, <<>>, Dashboard)
        \/ Show(t0, <<>>, AfterEnd(scr))
        \/ /\ \/ m.ev = "matched" /\ Behind(scr) # "search"
              \/ m.ev = "direct_matched" /\ Behind(scr) # "direct"
              \/ m.ev = "waiting" /\ scr.name # "direct"
              \/ m.ev = "search_timeout" /\ scr.name \notin Searching
              \/ m.ev = "partner_left" /\ ~EndsChat(m, scr)
           /\ strayed' = IF m.ev = "partner_left" /\ scr.name = "loading" /\ Says(scr, m.room)
                         THEN strayed \cup {t0} ELSE strayed
           /\ UNCHANGED <<screen, up>>
    BY DEF Deliver
  <2> HIDE DEF m, scr
  <2>2. ASSUME NEW chat,
               \/ chat = [name |-> "loading", room |-> m.room, type |-> "match"]
               \/ chat = [name |-> "loading", room |-> m.room, type |-> "direct",
                          friend |-> scr.friend],
               EnterChat(t0, chat)
        PROVE  CallsFitTab(t0)' /\ ScreenFits(t0)'
    <3>1. chat.name = "loading" /\ chat.room = m.room
      BY <2>2
    <3> QED
      BY <1>7, <2>2, <3>1
  <2>3. ASSUME \/ m.ev = "matched" /\ Behind(scr) # "search"
               \/ m.ev = "direct_matched" /\ Behind(scr) # "direct"
               \/ m.ev = "waiting" /\ scr.name # "direct"
               \/ m.ev = "search_timeout" /\ scr.name \notin Searching
               \/ m.ev = "partner_left" /\ ~EndsChat(m, scr),
               strayed' = IF m.ev = "partner_left" /\ scr.name = "loading" /\ Says(scr, m.room)
                          THEN strayed \cup {t0} ELSE strayed,
               UNCHANGED <<screen, up>>
        PROVE  CallsFitTab(t0)' /\ ScreenFits(t0)'
    <3>1. /\ m.ev \notin {"gone", "refused"}
          /\ m.ev \in {"search_timeout", "matched"} => scr.name \notin Searching
      BY <2>3 DEF Behind, Searching
    <3>2. m.ev = "partner_left" /\ t0 \notin strayed' =>
             ~(scr.name \in {"loading", "chat"} /\ Says(scr, m.room))
      BY <2>3 DEF EndsChat
    <3>3. strayed' \in {strayed, strayed \cup {t0}}
      BY <2>3
    <3> QED
      BY <1>6, <2>3, <3>1, <3>2, <3>3
  <2> QED
    BY <1>8, <1>9, <1>10, <2>1, <2>2, <2>3
<1>12. \A t \in Tabs \ {t0} : SameTab(t) /\ down'[t] = down[t] /\ (t \in displaced => t \in displaced')
  <2>1. \/ screen' = screen \/ \E x : screen' = [screen EXCEPT ![t0] = x]
        \/ screen' = [screen EXCEPT ![t0].room = m.room]
    BY DEF Deliver, EnterChat, Show
  <2>2. up' = up \/ \E x : up' = [up EXCEPT ![t0] = x]
    BY DEF Deliver, EnterChat, Show
  <2>3. strayed' \in {strayed, strayed \cup {t0}, strayed \ {t0}}
    BY DEF Deliver, EnterChat, Show
  <2> QED
    BY <1>1, <1>2, <2>1, <2>2, <2>3 DEF SameTab, TabTypes, EventTypes
<1> QED
  BY <1>2, <1>5, <1>11, <1>12, Apart

-----------------------------------------------------------------------------

LEMMA InitScreens == Init => ScreensInv
<1> SUFFICES ASSUME Init
             PROVE  ScreensInv
  OBVIOUS
<1>1. RealtimeInv
  BY InitFits
<1>2. /\ connected = {sock[t] : t \in Tabs} /\ screen = [t \in Tabs |-> Dashboard]
  BY DEF Init
<1>3. Live
  BY <1>2 DEF Live
<1>4. \A t \in Tabs : screen[t].name = "dashboard"
  BY <1>2 DEF Dashboard
<1>5. CallsFit /\ ScreensFit
  BY <1>4 DEF CallsFit, CallsFitTab, ScreensFit, ScreenFits
<1> QED
  BY <1>1, <1>3, <1>5 DEF ScreensInv

LEMMA NextScreens == ScreensInv /\ Next => ScreensInv'
<1> SUFFICES ASSUME ScreensInv, Next
             PROVE  ScreensInv'
  OBVIOUS
<1>1. RealtimeInv'
  BY ScreenParts, NextKept DEF Kept
<1>2. ScreensKept
  BY HandleScreens, SweepPairsScreens, SweepGivesUpScreens, PingTimeoutScreens,
     KickSocketScreens, TimerScreens, KickScreens, RestartScreens, ConnectScreens,
     BreakScreens, MountScreens, DeliverScreens, ClicksScreens DEF Next, Server, Client
<1> QED
  BY <1>1, <1>2 DEF ScreensInv, ScreensKept

LEMMA StutterScreens == ScreensInv /\ UNCHANGED vars => ScreensInv'
<1> SUFFICES ASSUME ScreensInv, UNCHANGED vars
             PROVE  ScreensInv'
  OBVIOUS
<1>1. RealtimeInv'
  BY ScreenParts, StutterKept
<1>2. /\ UNCHANGED <<connected, open, seat, on, direct, queue, kicking, screen, sock, up,
                     down, displaced, strayed>>
  BY DEF vars, roomVars, tabVars
<1>3. ASSUME NEW t \in Tabs
      PROVE  CallsFitTab(t)' /\ ScreenFits(t)'
  <2>1. SameTab(t) /\ Extends(t) /\ DirectKept
    BY <1>2 DEF SameTab, Extends, DirectKept
  <2>2. Undisturbed(t)
    BY <1>2, <2>1 DEF Undisturbed, Settled, R!Access
  <2> QED
    BY <2>2, ScreenParts, UndisturbedFits
<1>4. Live'
  BY <1>2, ScreenParts DEF Live
<1> QED
  BY <1>1, <1>3, <1>4 DEF ScreensInv, CallsFit, ScreensFit

\* With nothing on its way, a connected tab shows what the server holds for
\* it, whatever interleaving of calls, answers, refusals, breaks, time-outs,
\* restarts and suspensions led there: a tab that searches is in the queue, a
\* tab that calls sits in its direct room, a tab in a chat, mounted or still
\* loading, has its seat there (Matching.jsx, DirectCalling.jsx and App.jsx
\* over realtime/index.js).  The tabs of which the code does not keep this are
\* those that ScreensAreTrue names.
THEOREM ScreensAlwaysTrue == Spec => []ScreensAreTrue
<1>1. ScreensInv => ScreensAreTrue
  <2> SUFFICES ASSUME ScreensInv, NEW t \in Tabs, Quiet(t), t \notin displaced \cup strayed
               PROVE  /\ screen[t].name \in {"matching", "again"} => sock[t] \in queue
                      /\ screen[t].name = "direct" =>
                            R!Access(direct[{UserOf[t], screen[t].friend}], sock[t])
                      /\ screen[t].name \in {"loading", "chat"} =>
                            R!Access(screen[t].room, sock[t])
    BY DEF ScreensAreTrue
  <2>1. ScreenFits(t)
    BY ScreenParts
  <2>2. Settled(t)
    BY TabAssumption, NoneAssumption DEF Quiet, Settled
  <2>3. down[t] = <<>>
    BY DEF Quiet
  <2>4. \A evs, r : ~Coming(t, evs) /\ ~EndComing(t, r)
    BY <2>3 DEF Coming, EndComing
  <2> QED
    BY <2>1, <2>2, <2>4 DEF ScreenFits, Searches, Calls, Chats
<1> QED
  BY <1>1, InitScreens, NextScreens, StutterScreens, PTL DEF Spec

===============================================================================
