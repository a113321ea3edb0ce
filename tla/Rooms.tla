-------------------------------- MODULE Rooms ---------------------------------
(***************************************************************************)
(* Chat rooms and their seats, backend/src/realtime/rooms.js.  A room has  *)
(* one seat per user.  A seat names the socket it is held from and whether *)
(* that socket is connected; when it is not, a grace timer will close the  *)
(* room unless the user comes back.                                        *)
(*                                                                         *)
(* Time is not modelled: an armed timer may fire in any later step.  A     *)
(* room that left the Map is forgotten, since only timers still refer to   *)
(* it and close() returns at once for them; its id stands for a fresh      *)
(* random one when it is used again, which is not before those timers are  *)
(* gone.                                                                   *)
(***************************************************************************)
CONSTANTS
    Users,      \* people, identified by e-mail in the code
    Sockets,    \* Socket.IO connections
    OwnerOf,    \* the user a socket authenticated as
    RoomIds,    \* at most this many rooms at a time
    NoSocket, NoRoom

Pairs == {p \in {{u, v} : u, v \in Users} : \E u, v \in p : u # v}

ASSUME OwnerAssumption == OwnerOf \in [Sockets -> Users]
ASSUME NoneAssumption == NoSocket \notin Sockets /\ NoRoom \notin RoomIds

VARIABLES
    connected,  \* the sockets connected to the server
    open,       \* keys of the Map `rooms'
    key,        \* a direct room's pairKey; {} for a match room
    seat,       \* room -> user -> socketId of the member, or NoSocket
    on,         \* room -> members with connected = true
    grace,      \* room -> members whose grace timer is pending
    orphan,     \* room -> users with a pending timer no member refers to
    bySocket,   \* the Map bySocket: socket -> rooms
    direct,     \* the Map direct: pair -> room, or NoRoom
    ended       \* rooms closed by this step, each with close()'s reason

vars == <<connected, open, key, seat, on, grace, orphan, bySocket, direct, ended>>

Reasons == {"skip", "left", "report", "block", "timeout", "disconnect"}
Members(r) == {u \in Users : seat[r][u] # NoSocket}

TypeOK ==
    /\ connected \subseteq Sockets
    /\ open \subseteq RoomIds
    /\ key \in [RoomIds -> Pairs \cup {{}}]
    /\ seat \in [RoomIds -> [Users -> Sockets \cup {NoSocket}]]
    /\ on \in [RoomIds -> SUBSET Users]
    /\ grace \in [RoomIds -> SUBSET Users]
    /\ orphan \in [RoomIds -> SUBSET Users]
    /\ bySocket \in [Sockets -> SUBSET RoomIds]
    /\ direct \in [Pairs -> RoomIds \cup {NoRoom}]
    /\ ended \subseteq [room : RoomIds, reason : Reasons]

EmptySeats == [u \in Users |-> NoSocket]

Init ==
    /\ connected = Sockets
    /\ open = {}
    /\ key = [r \in RoomIds |-> {}]
    /\ seat = [r \in RoomIds |-> EmptySeats]
    /\ on = [r \in RoomIds |-> {}]
    /\ grace = [r \in RoomIds |-> {}]
    /\ orphan = [r \in RoomIds |-> {}]
    /\ bySocket = [s \in Sockets |-> {}]
    /\ direct = [p \in Pairs |-> NoRoom]
    /\ ended = {}

Fresh(r) == r \notin open /\ orphan[r] = {}

-----------------------------------------------------------------------------
(* close(), for any number of rooms in one handler, followed in the same   *)
(* handler by at most one new room.                                        *)

RoomsOf(s) == bySocket[s] \cap open
SeatsOf(s) == {r \in open : seat[r][OwnerOf[s]] = s}

\* The Maps after closing the rooms C.
Unindexed(C) == [s \in Sockets |-> bySocket[s] \ {r \in C : r \in SeatsOf(s)}]
Undirected(C) == [p \in Pairs |-> IF \E r \in C : key[r] = p THEN NoRoom ELSE direct[p]]

CloseAll(C, reason) ==
    /\ open' = open \ C
    /\ key' = [r \in RoomIds |-> IF r \in C THEN {} ELSE key[r]]
    /\ seat' = [r \in RoomIds |-> IF r \in C THEN EmptySeats ELSE seat[r]]
    /\ on' = [r \in RoomIds |-> IF r \in C THEN {} ELSE on[r]]
    /\ grace' = [r \in RoomIds |-> IF r \in C THEN {} ELSE grace[r]]
    /\ bySocket' = Unindexed(C)
    /\ direct' = Undirected(C)
    /\ ended' = {[room |-> r, reason |-> reason] : r \in C}

\* createMatch(), after the rooms C were closed.
CreateMatch(C, r, s, t) ==
    /\ Fresh(r)
    /\ open' = (open \ C) \cup {r}
    /\ key' = [q \in RoomIds |-> IF q \in C THEN {} ELSE key[q]]
    /\ seat' = [q \in RoomIds |->
                  IF q = r THEN [u \in Users |-> IF u = OwnerOf[s] THEN s
                                                 ELSE IF u = OwnerOf[t] THEN t
                                                 ELSE NoSocket]
                  ELSE IF q \in C THEN EmptySeats ELSE seat[q]]
    /\ on' = [q \in RoomIds |-> IF q = r THEN {OwnerOf[s], OwnerOf[t]}
                                ELSE IF q \in C THEN {} ELSE on[q]]
    /\ grace' = [q \in RoomIds |-> IF q \in C THEN {} ELSE grace[q]]
    /\ bySocket' = [x \in Sockets |->
                      Unindexed(C)[x] \cup (IF x \in {s, t} THEN {r} ELSE {})]
    /\ direct' = Undirected(C)
    /\ ended' = {[room |-> q, reason |-> "skip"] : q \in C}

-----------------------------------------------------------------------------
(* Operations called by the socket handlers.                               *)

\* start_chat closes every room of its socket first.
Search(s) ==
    /\ s \in connected
    /\ RoomsOf(s) # {}
    /\ CloseAll(RoomsOf(s), "skip")
    /\ UNCHANGED <<connected, orphan>>

\* The queue pairs s and t: in start_chat, or in a sweep, which closes nothing.
Match(s, t, r) ==
    /\ {s, t} \subseteq connected
    /\ OwnerOf[s] # OwnerOf[t]
    /\ \E C \in {{}, RoomsOf(s)} : CreateMatch(C, r, s, t)
    /\ UNCHANGED <<connected, orphan>>

\* access(): the socket is the current, connected member of the room.
Access(r, s) == r \in open /\ seat[r][OwnerOf[s]] = s /\ OwnerOf[s] \in on[r]

\* skip, report and block end the room they are sent in; the last two need
\* a partner to name.
Leave(r, s) ==
    /\ s \in connected
    /\ Access(r, s)
    /\ \/ CloseAll({r}, IF key[r] = {} THEN "skip" ELSE "left")
       \/ /\ Members(r) # {OwnerOf[s]}
          /\ \E reason \in {"report", "block"} : CloseAll({r}, reason)
    /\ UNCHANGED <<connected, orphan>>

\* attach() after unindex(): the seat of u in r moves to socket s.
\* Mutants: the old socket stays indexed, the member stays absent.
TakeSeatTwice(r, u, s) ==
    /\ seat' = [seat EXCEPT ![r][u] = s]
    /\ on' = [on EXCEPT ![r] = @ \cup {u}]
    /\ bySocket' = [bySocket EXCEPT ![s] = @ \cup {r}]
TakeSeatAbsent(r, u, s) ==
    /\ seat' = [seat EXCEPT ![r][u] = s]
    /\ on' = on
    /\ bySocket' = [x \in Sockets |->
                      IF x = s THEN bySocket[x] \cup {r}
                      ELSE IF x = seat[r][u] THEN bySocket[x] \ {r}
                      ELSE bySocket[x]]
TakeSeat(r, u, s) ==
    /\ seat' = [seat EXCEPT ![r][u] = s]
    /\ on' = [on EXCEPT ![r] = @ \cup {u}]
    /\ bySocket' = [x \in Sockets |->
                      IF x = s THEN bySocket[x] \cup {r}
                      ELSE IF x = seat[r][u] THEN bySocket[x] \ {r}
                      ELSE bySocket[x]]

\* joinDirect(): an earlier member object of the same user is replaced; its
\* grace timer, if pending, is left running.
JoinDirect(s, friend, r) ==
    LET u == OwnerOf[s]
        p == {u, friend}
    IN  /\ s \in connected
        /\ u # friend
        /\ r = direct[p] \/ (direct[p] = NoRoom /\ Fresh(r))
        /\ open' = open \cup {r}
        /\ key' = [key EXCEPT ![r] = p]
        /\ direct' = [direct EXCEPT ![p] = r]
        /\ TakeSeat(r, u, s)
        /\ grace' = [grace EXCEPT ![r] = @ \ {u}]
        /\ orphan' = [orphan EXCEPT ![r] = @ \cup (grace[r] \cap {u})]
        /\ ended' = {}
        /\ UNCHANGED connected

\* Mutant: me.grace is not cleared.
ClearGraceNot(r, u) == grace
ClearGrace(r, u) == [grace EXCEPT ![r] = @ \ {u}]

\* rejoin(): any socket of a member may take the seat; its timer is cleared.
Rejoin(r, s) ==
    LET u == OwnerOf[s]
    IN  /\ s \in connected
        /\ r \in open /\ u \in Members(r)
        /\ TakeSeat(r, u, s)
        /\ grace' = ClearGrace(r, u)
        /\ ended' = {}
        /\ UNCHANGED <<connected, open, key, orphan, direct>>

\* Mutant: the grace timer is not started.
StartGraceNot(kept, u) == grace
StartGrace(kept, u) == [r \in RoomIds |-> IF r \in kept THEN grace[r] \cup {u} ELSE grace[r]]

\* dropSocket(): seats are kept for the grace period, except that a direct
\* room nobody else has joined yet is closed.
DropSocket(s) ==
    LET u     == OwnerOf[s]
        mine  == {r \in RoomsOf(s) : seat[r][u] = s}
        alone == {r \in mine : key[r] # {} /\ Members(r) = {u}}
        kept  == mine \ alone
    IN  /\ open' = open \ alone
        /\ key' = [r \in RoomIds |-> IF r \in alone THEN {} ELSE key[r]]
        /\ seat' = [r \in RoomIds |-> IF r \in alone THEN EmptySeats ELSE seat[r]]
        /\ on' = [r \in RoomIds |-> IF r \in alone THEN {}
                                    ELSE IF r \in kept THEN on[r] \ {u} ELSE on[r]]
        /\ grace' = [r \in RoomIds |-> IF r \in alone THEN {} ELSE StartGrace(kept, u)[r]]
        /\ bySocket' = [bySocket EXCEPT ![s] = {}]
        /\ direct' = Undirected(alone)
        /\ ended' = {[room |-> r, reason |-> "left"] : r \in alone}

Disconnect(s) ==
    /\ s \in connected
    /\ connected' = connected \ {s}
    /\ DropSocket(s)
    /\ UNCHANGED orphan

\* A new connection: its id is not one the rooms know.
Connect(s) ==
    /\ s \notin connected
    /\ \A r \in open : seat[r][OwnerOf[s]] # s
    /\ connected' = connected \cup {s}
    /\ ended' = {}
    /\ UNCHANGED <<open, key, seat, on, grace, orphan, bySocket, direct>>

-----------------------------------------------------------------------------
(* Timers.                                                                 *)

Expire(r) ==
    /\ r \in open /\ key[r] = {}
    /\ CloseAll({r}, "timeout")
    /\ UNCHANGED <<connected, orphan>>

GraceEnds(r, u) ==
    /\ u \in grace[r]
    /\ CloseAll({r}, "disconnect")
    /\ UNCHANGED <<connected, orphan>>

\* A timer its member object took along: the room may be gone by then.
OrphanEnds(r, u) ==
    /\ u \in orphan[r]
    /\ orphan' = [orphan EXCEPT ![r] = @ \ {u}]
    /\ \/ r \in open /\ CloseAll({r}, "disconnect")
       \/ /\ r \notin open
          /\ ended' = {}
          /\ UNCHANGED <<open, key, seat, on, grace, bySocket, direct>>
    /\ UNCHANGED connected

Next ==
    \/ \E s \in Sockets : Search(s) \/ Disconnect(s) \/ Connect(s)
    \/ \E s, t \in Sockets, r \in RoomIds : Match(s, t, r)
    \/ \E r \in RoomIds, s \in Sockets :
          \/ Leave(r, s)
          \/ \E friend \in Users : JoinDirect(s, friend, r)
          \/ Rejoin(r, s)
    \/ \E r \in RoomIds : Expire(r)
    \/ \E r \in RoomIds, u \in Users : GraceEnds(r, u) \/ OrphanEnds(r, u)

\* Node fires a timer that is pending and not cleared.
Fairness == \A r \in RoomIds, u \in Users : WF_vars(GraceEnds(r, u))

Spec == Init /\ [][Next]_vars
FairSpec == Spec /\ Fairness

-----------------------------------------------------------------------------
(* Properties.                                                             *)

\* The three structures agree: a socket is indexed under a room exactly when
\* it may act in it.  Were a room missing from the index, dropSocket() and
\* start_chat would leave it behind; were there one too many, they would end
\* a chat that has moved to another tab.
IndexMatchesSeats ==
    \A s \in Sockets, r \in RoomIds : r \in bySocket[s] <=> Access(r, s)

\* No member is taken for present whose socket is gone: messages are never
\* sent into the void, and access() never accepts a dead socket.
PresentIsConnected ==
    \A r \in open : \A u \in on[r] : seat[r][u] \in connected

\* Nor the other way round: a member whose socket is connected is not taken
\* for absent, so no grace timer runs against somebody who is there, whatever
\* tabs the seat has moved between.
SeatedIsPresent ==
    \A r \in open : \A s \in connected :
        seat[r][OwnerOf[s]] = s => OwnerOf[s] \in on[r]

\* In every open room exactly the absent members have a grace timer, so no
\* room is kept open for ever by people who left and, up to the orphans, no
\* timer threatens a member who is there.
AbsentIsTimed ==
    \A r \in open : grace[r] = Members(r) \ on[r]

\* The Map direct names exactly the open direct rooms, at most one per pair,
\* and their members are of that pair (rooms.js:64); a match room always has
\* its two members.
DirectIsExact ==
    /\ \A p \in Pairs, r \in RoomIds : direct[p] = r <=> r \in open /\ key[r] = p
    /\ \A r \in open : IF key[r] = {} THEN Members(r) \in Pairs
                       ELSE Members(r) # {} /\ Members(r) \subseteq key[r]

\* What the properties need besides each other: a member's socket is one of
\* his own, only members are present, a room that is not open holds nothing,
\* and match rooms have no orphan timers.
Seating ==
    /\ \A r \in RoomIds, u \in Users : seat[r][u] # NoSocket => OwnerOf[seat[r][u]] = u
    /\ \A r \in RoomIds : on[r] \subseteq Members(r)
    /\ \A r \in RoomIds \ open :
          seat[r] = EmptySeats /\ on[r] = {} /\ grace[r] = {} /\ key[r] = {}
    /\ \A r \in open : key[r] = {} => orphan[r] = {}

\* The invariant of the rooms: index, seats, timers and the Map direct never
\* contradict one another, whatever tab a call comes from.
RoomsInv ==
    /\ TypeOK
    /\ Seating
    /\ IndexMatchesSeats
    /\ PresentIsConnected
    /\ AbsentIsTimed
    /\ DirectIsExact

\* "keep the seat for graceMs so a network blip does not end the chat"
\* (rooms.js:121): a room ends with reason 'disconnect' only while one of its
\* members is away.
EndsWhileAway(e) ==
    e.reason = "disconnect" => Members(e.room) \ on[e.room] # {}
BlipDoesNotEndChat == [][\A e \in ended' : EndsWhileAway(e)]_vars

\* It is so in match rooms.
BlipDoesNotEndMatch ==
    [][\A e \in ended' : key[e.room] = {} => EndsWhileAway(e)]_vars

\* Nobody waits for ever for a partner who went: the partner comes back or
\* the room ends.
AbsenceIsResolved ==
    \A r \in RoomIds, u \in Users :
        r \in open /\ u \in Members(r) \ on[r] ~> r \notin open \/ u \in on[r]

===============================================================================
