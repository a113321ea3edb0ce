------------------------------ MODULE RoomsProofs ------------------------------
(***************************************************************************)
(* Machine-checked proofs about Rooms, for any users, sockets and rooms.   *)
(***************************************************************************)
EXTENDS Rooms, TLAPS

LEMMA TwoOwnersArePair ==
    ASSUME NEW s \in Sockets, NEW t \in Sockets, OwnerOf[s] # OwnerOf[t]
    PROVE  {OwnerOf[s], OwnerOf[t]} \in Pairs
  BY OwnerAssumption DEF Pairs

LEMMA PairsAreTwo ==
    ASSUME NEW p \in Pairs
    PROVE  p # {} /\ p \subseteq Users
  BY DEF Pairs

LEMMA InitInv == Init => RoomsInv
<1> SUFFICES ASSUME Init PROVE RoomsInv
  OBVIOUS
<1>1. TypeOK
  BY DEF Init, TypeOK, EmptySeats
<1>2. Seating
  BY NoneAssumption DEF Init, Seating, EmptySeats, Members
<1>3. IndexMatchesSeats /\ PresentIsConnected /\ AbsentIsTimed
  BY DEF Init, IndexMatchesSeats, PresentIsConnected, AbsentIsTimed, Access
<1>4. DirectIsExact
  BY NoneAssumption DEF Init, DirectIsExact
<1> QED
  BY <1>1, <1>2, <1>3, <1>4 DEF RoomsInv

\* Closing rooms preserves the invariant, whoever closes them.
LEMMA CloseAllInv ==
    ASSUME RoomsInv, NEW C \in SUBSET open, NEW reason \in Reasons,
           CloseAll(C, reason), UNCHANGED connected,
           orphan' \in [RoomIds -> SUBSET Users],
           \A r \in RoomIds : orphan'[r] \subseteq orphan[r]
    PROVE  RoomsInv'
<1> USE DEF RoomsInv
<1>1. C \subseteq RoomIds
  BY DEF TypeOK
<1>2. TypeOK'
  <2>1. EmptySeats \in [Users -> Sockets \cup {NoSocket}]
    BY DEF EmptySeats
  <2>2. bySocket' \in [Sockets -> SUBSET RoomIds]
    BY DEF CloseAll, Unindexed, TypeOK
  <2>3. direct' \in [Pairs -> RoomIds \cup {NoRoom}]
    BY DEF CloseAll, Undirected, TypeOK
  <2>4. ended' \subseteq [room : RoomIds, reason : Reasons]
    BY <1>1 DEF CloseAll
  <2> QED
    BY <2>1, <2>2, <2>3, <2>4 DEF CloseAll, TypeOK
<1>3. \A r \in RoomIds : /\ r \in open' <=> r \in open /\ r \notin C
                         /\ r \in C => seat'[r] = EmptySeats /\ on'[r] = {} /\ grace'[r] = {}
                                         /\ key'[r] = {}
                         /\ r \notin C => seat'[r] = seat[r] /\ on'[r] = on[r]
                                            /\ grace'[r] = grace[r] /\ key'[r] = key[r]
  BY DEF CloseAll
<1>4. \A r \in RoomIds : Members(r)' = IF r \in C THEN {} ELSE Members(r)
  BY <1>3 DEF Members, EmptySeats
<1>5. Seating'
  <2>1. \A r \in RoomIds, u \in Users : seat'[r][u] # NoSocket => OwnerOf[seat'[r][u]] = u
    BY <1>3 DEF Seating, EmptySeats
  <2>2. \A r \in RoomIds : on'[r] \subseteq Members(r)'
    BY <1>3, <1>4 DEF Seating
  <2>3. \A r \in RoomIds \ open' :
          seat'[r] = EmptySeats /\ on'[r] = {} /\ grace'[r] = {} /\ key'[r] = {}
    BY <1>3 DEF Seating
  <2>4. \A r \in open' : key'[r] = {} => orphan'[r] = {}
    BY <1>1, <1>3 DEF Seating, TypeOK, CloseAll
  <2> QED
    BY <2>1, <2>2, <2>3, <2>4 DEF Seating
<1>6. IndexMatchesSeats'
  BY <1>1, <1>3 DEF IndexMatchesSeats, Access, CloseAll, Unindexed, SeatsOf, TypeOK
<1>7. PresentIsConnected' /\ AbsentIsTimed'
  <2> SUFFICES ASSUME NEW r \in open'
               PROVE  /\ \A u \in on'[r] : seat'[r][u] \in connected'
                      /\ grace'[r] = Members(r)' \ on'[r]
    BY DEF PresentIsConnected, AbsentIsTimed
  <2>1. r \in RoomIds /\ r \in open /\ r \notin C
    BY <1>3 DEF CloseAll, TypeOK
  <2> QED
    BY <1>3, <1>4, <2>1 DEF PresentIsConnected, AbsentIsTimed
<1>8. DirectIsExact'
  <2>1. ASSUME NEW p \in Pairs, NEW r \in RoomIds
        PROVE  direct'[p] = r <=> r \in open' /\ key'[r] = p
    <3>1. direct'[p] = IF \E q \in C : key[q] = p THEN NoRoom ELSE direct[p]
      BY DEF CloseAll, Undirected
    <3> QED
      BY <1>1, <1>3, <3>1, NoneAssumption, PairsAreTwo DEF DirectIsExact
  <2>2. ASSUME NEW r \in open'
        PROVE  IF key'[r] = {} THEN Members(r)' \in Pairs
               ELSE Members(r)' # {} /\ Members(r)' \subseteq key'[r]
    <3>1. r \in RoomIds /\ r \in open /\ r \notin C
      BY <1>3 DEF CloseAll, TypeOK
    <3> QED
      BY <1>3, <1>4, <3>1 DEF DirectIsExact
  <2> QED
    BY <2>1, <2>2 DEF DirectIsExact
<1> QED
  BY <1>2, <1>5, <1>6, <1>7, <1>8

\* A new match room, with the rooms the search left already closed.
LEMMA CreateMatchInv ==
    ASSUME RoomsInv, NEW C \in SUBSET open, NEW r \in RoomIds,
           NEW s \in connected, NEW t \in connected, OwnerOf[s] # OwnerOf[t],
           CreateMatch(C, r, s, t), UNCHANGED <<connected, orphan>>
    PROVE  RoomsInv'
<1> USE DEF RoomsInv
<1> DEFINE a == OwnerOf[s]
           b == OwnerOf[t]
<1>1. /\ C \subseteq RoomIds /\ r \notin open /\ r \notin C /\ orphan[r] = {}
      /\ s \in Sockets /\ t \in Sockets
      /\ a \in Users /\ b \in Users
  BY OwnerAssumption DEF CreateMatch, Fresh, TypeOK
<1>2. \A q \in RoomIds :
         /\ q \in open' <=> q = r \/ (q \in open /\ q \notin C)
         /\ q \in C => seat'[q] = EmptySeats /\ on'[q] = {} /\ grace'[q] = {} /\ key'[q] = {}
         /\ q \notin C /\ q # r => seat'[q] = seat[q] /\ on'[q] = on[q]
                                     /\ grace'[q] = grace[q] /\ key'[q] = key[q]
  BY <1>1 DEF CreateMatch
<1>3. /\ \A u \in Users : seat'[r][u] = IF u = a THEN s ELSE IF u = b THEN t ELSE NoSocket
      /\ on'[r] = {a, b} /\ grace'[r] = {} /\ key'[r] = {}
  BY <1>1 DEF CreateMatch, Seating
<1>4. \A q \in RoomIds : Members(q)' = IF q = r THEN {a, b}
                                       ELSE IF q \in C THEN {} ELSE Members(q)
  BY <1>1, <1>2, <1>3, NoneAssumption DEF Members, EmptySeats
<1>5. TypeOK'
  <2>1. seat' \in [RoomIds -> [Users -> Sockets \cup {NoSocket}]]
    BY <1>1 DEF CreateMatch, EmptySeats, TypeOK
  <2>2. bySocket' \in [Sockets -> SUBSET RoomIds] /\ direct' \in [Pairs -> RoomIds \cup {NoRoom}]
    BY DEF CreateMatch, Unindexed, Undirected, TypeOK
  <2>3. ended' \subseteq [room : RoomIds, reason : Reasons]
    BY <1>1 DEF CreateMatch, Reasons
  <2> QED
    BY <1>1, <2>1, <2>2, <2>3 DEF CreateMatch, TypeOK
<1>6. Seating'
  <2>1. \A q \in RoomIds, u \in Users : seat'[q][u] # NoSocket => OwnerOf[seat'[q][u]] = u
    BY <1>1, <1>2, <1>3 DEF Seating, EmptySeats
  <2>2. \A q \in RoomIds : on'[q] \subseteq Members(q)'
    BY <1>2, <1>3, <1>4 DEF Seating
  <2>3. \A q \in RoomIds \ open' :
          seat'[q] = EmptySeats /\ on'[q] = {} /\ grace'[q] = {} /\ key'[q] = {}
    BY <1>2 DEF Seating
  <2>4. \A q \in open' : key'[q] = {} => orphan'[q] = {}
    BY <1>1, <1>2 DEF Seating, TypeOK, CreateMatch
  <2> QED
    BY <2>1, <2>2, <2>3, <2>4 DEF Seating
<1>7. IndexMatchesSeats'
  <2> SUFFICES ASSUME NEW x \in Sockets, NEW q \in RoomIds
               PROVE  q \in bySocket'[x] <=> q \in open' /\ seat'[q][OwnerOf[x]] = x
                                              /\ OwnerOf[x] \in on'[q]
    BY DEF IndexMatchesSeats, Access
  <2>1. OwnerOf[x] \in Users
    BY OwnerAssumption
  <2>2. bySocket'[x] = (bySocket[x] \ {c \in C : c \in SeatsOf(x)})
                         \cup (IF x \in {s, t} THEN {r} ELSE {})
    BY DEF CreateMatch, Unindexed
  <2>3. q \in bySocket[x] <=> q \in open /\ seat[q][OwnerOf[x]] = x /\ OwnerOf[x] \in on[q]
    BY DEF IndexMatchesSeats, Access
  <2>4. CASE q = r
    BY <1>1, <1>2, <1>3, <2>1, <2>2, <2>3, <2>4, NoneAssumption
  <2>5. CASE q # r
    BY <1>1, <1>2, <2>1, <2>2, <2>3, <2>5 DEF SeatsOf
  <2> QED
    BY <2>4, <2>5
<1>8. PresentIsConnected' /\ AbsentIsTimed'
  <2> SUFFICES ASSUME NEW q \in open'
               PROVE  /\ \A u \in on'[q] : seat'[q][u] \in connected'
                      /\ grace'[q] = Members(q)' \ on'[q]
    BY DEF PresentIsConnected, AbsentIsTimed
  <2>1. q \in RoomIds /\ (q = r \/ (q \in open /\ q \notin C))
    BY <1>2 DEF CreateMatch, TypeOK
  <2> QED
    BY <1>1, <1>2, <1>3, <1>4, <2>1 DEF PresentIsConnected, AbsentIsTimed
<1>9. DirectIsExact'
  <2>1. ASSUME NEW p \in Pairs, NEW q \in RoomIds
        PROVE  direct'[p] = q <=> q \in open' /\ key'[q] = p
    <3>1. direct'[p] = IF \E c \in C : key[c] = p THEN NoRoom ELSE direct[p]
      BY DEF CreateMatch, Undirected
    <3> QED
      BY <1>1, <1>2, <1>3, <3>1, NoneAssumption, PairsAreTwo DEF DirectIsExact
  <2>2. ASSUME NEW q \in open'
        PROVE  IF key'[q] = {} THEN Members(q)' \in Pairs
               ELSE Members(q)' # {} /\ Members(q)' \subseteq key'[q]
    <3>1. q \in RoomIds /\ (q = r \/ (q \in open /\ q \notin C))
      BY <1>2 DEF CreateMatch, TypeOK
    <3>2. {a, b} \in Pairs
      BY <1>1, TwoOwnersArePair
    <3> QED
      BY <1>2, <1>3, <1>4, <3>1, <3>2 DEF DirectIsExact
  <2> QED
    BY <2>1, <2>2 DEF DirectIsExact
<1> QED
  BY <1>5, <1>6, <1>7, <1>8, <1>9

\* What join_direct and rejoin share: a user takes his seat from socket s.
LEMMA TakeSeatKeeps ==
    ASSUME RoomsInv, NEW r \in RoomIds, NEW s \in connected,
           TakeSeat(r, OwnerOf[s], s),
           grace' = [grace EXCEPT ![r] = @ \ {OwnerOf[s]}],
           open' = open \cup {r}, UNCHANGED connected
    PROVE  /\ seat' \in [RoomIds -> [Users -> Sockets \cup {NoSocket}]]
           /\ on' \in [RoomIds -> SUBSET Users]
           /\ grace' \in [RoomIds -> SUBSET Users]
           /\ bySocket' \in [Sockets -> SUBSET RoomIds]
           /\ \A q \in RoomIds, u \in Users : seat'[q][u] # NoSocket => OwnerOf[seat'[q][u]] = u
           /\ \A q \in RoomIds : on'[q] \subseteq Members(q)'
           /\ \A q \in RoomIds : Members(q)' = IF q = r THEN Members(q) \cup {OwnerOf[s]}
                                               ELSE Members(q)
           /\ \A q \in RoomIds \ open' :
                 seat'[q] = EmptySeats /\ on'[q] = {} /\ grace'[q] = {}
           /\ IndexMatchesSeats' /\ PresentIsConnected' /\ AbsentIsTimed'
<1> USE DEF RoomsInv
<1> DEFINE a == OwnerOf[s]
<1>1. s \in Sockets /\ a \in Users
  BY OwnerAssumption DEF TypeOK
<1>2. /\ \A q \in RoomIds : q # r => seat'[q] = seat[q] /\ on'[q] = on[q] /\ grace'[q] = grace[q]
      /\ \A u \in Users : seat'[r][u] = IF u = a THEN s ELSE seat[r][u]
      /\ on'[r] = on[r] \cup {a} /\ grace'[r] = grace[r] \ {a}
  BY <1>1 DEF TakeSeat, TypeOK
<1>3. \A q \in RoomIds : Members(q)' = IF q = r THEN Members(q) \cup {a} ELSE Members(q)
  BY <1>1, <1>2, NoneAssumption DEF Members
<1>4. /\ seat' \in [RoomIds -> [Users -> Sockets \cup {NoSocket}]]
      /\ on' \in [RoomIds -> SUBSET Users]
      /\ grace' \in [RoomIds -> SUBSET Users]
      /\ bySocket' \in [Sockets -> SUBSET RoomIds]
  BY <1>1 DEF TakeSeat, TypeOK
<1>5. \A q \in RoomIds, u \in Users : seat'[q][u] # NoSocket => OwnerOf[seat'[q][u]] = u
  BY <1>2 DEF Seating
<1>6. \A q \in RoomIds : on'[q] \subseteq Members(q)'
  BY <1>2, <1>3 DEF Seating
<1>7. \A q \in RoomIds \ open' : seat'[q] = EmptySeats /\ on'[q] = {} /\ grace'[q] = {}
  BY <1>2 DEF Seating
<1>8. IndexMatchesSeats'
  <2> SUFFICES ASSUME NEW x \in Sockets, NEW q \in RoomIds
               PROVE  q \in bySocket'[x] <=> q \in open' /\ seat'[q][OwnerOf[x]] = x
                                              /\ OwnerOf[x] \in on'[q]
    BY DEF IndexMatchesSeats, Access
  <2>1. OwnerOf[x] \in Users
    BY OwnerAssumption
  <2>2. bySocket'[x] = IF x = s THEN bySocket[x] \cup {r}
                       ELSE IF x = seat[r][a] THEN bySocket[x] \ {r} ELSE bySocket[x]
    BY DEF TakeSeat
  <2>3. q \in bySocket[x] <=> q \in open /\ seat[q][OwnerOf[x]] = x /\ OwnerOf[x] \in on[q]
    BY DEF IndexMatchesSeats, Access
  <2>4. CASE q # r
    BY <1>2, <2>1, <2>2, <2>3, <2>4
  <2>5. CASE q = r /\ x = s
    BY <1>1, <1>2, <2>2, <2>5
  <2>6. CASE q = r /\ x # s /\ OwnerOf[x] = a
    BY <1>1, <1>2, <2>1, <2>2, <2>3, <2>6
  <2>7. CASE q = r /\ x # s /\ OwnerOf[x] # a
    <3>1. x # seat[r][a]
      BY <1>1, <2>1, <2>7, NoneAssumption DEF Seating, TypeOK
    <3>2. r \notin open => on[r] = {}
      BY DEF Seating
    <3> QED
      BY <1>1, <1>2, <2>1, <2>2, <2>3, <2>7, <3>1, <3>2
  <2> QED
    BY <2>4, <2>5, <2>6, <2>7
<1>9. PresentIsConnected' /\ AbsentIsTimed'
  <2> SUFFICES ASSUME NEW q \in open'
               PROVE  /\ \A u \in on'[q] : seat'[q][u] \in connected'
                      /\ grace'[q] = Members(q)' \ on'[q]
    BY DEF PresentIsConnected, AbsentIsTimed
  <2>1. q \in RoomIds /\ (q = r \/ q \in open)
    BY DEF TypeOK
  <2>2. on[q] \subseteq Users /\ grace[q] = Members(q) \ on[q]
    <3>1. CASE q \in open
      BY <2>1, <3>1 DEF AbsentIsTimed, TypeOK
    <3>2. CASE q \notin open
      <4>1. Members(q) = {}
        BY <2>1, <3>2 DEF Seating, Members, EmptySeats
      <4> QED
        BY <2>1, <3>2, <4>1 DEF Seating
    <3> QED
      BY <3>1, <3>2
  <2>3. \A u \in on[q] : seat[q][u] \in connected
    BY <2>1 DEF PresentIsConnected, Seating
  <2> QED
    BY <1>1, <1>2, <1>3, <2>1, <2>2, <2>3
<1> QED
  BY <1>3, <1>4, <1>5, <1>6, <1>7, <1>8, <1>9

LEMMA JoinDirectInv ==
    ASSUME RoomsInv, NEW r \in RoomIds, NEW s \in Sockets, NEW f \in Users,
           JoinDirect(s, f, r)
    PROVE  RoomsInv'
<1> USE DEF RoomsInv
<1> DEFINE a == OwnerOf[s]
           p == {a, f}
<1>1. s \in connected /\ a \in Users /\ a # f /\ p \in Pairs /\ p # {}
  BY OwnerAssumption DEF JoinDirect, Pairs
<1>2. /\ r = direct[p] \/ (direct[p] = NoRoom /\ r \notin open /\ orphan[r] = {})
      /\ open' = open \cup {r}
      /\ key' = [key EXCEPT ![r] = p]
      /\ direct' = [direct EXCEPT ![p] = r]
      /\ TakeSeat(r, a, s)
      /\ grace' = [grace EXCEPT ![r] = @ \ {a}]
      /\ orphan' = [orphan EXCEPT ![r] = @ \cup (grace[r] \cap {a})]
      /\ ended' = {}
      /\ UNCHANGED connected
  BY DEF JoinDirect, Fresh
<1> HIDE DEF p
<1>3. r = direct[p] => r \in open /\ key[r] = p
  BY <1>1 DEF DirectIsExact
<1>4. r \notin open => Members(r) = {}
  BY DEF Seating, Members, EmptySeats
<1>5. TypeOK'
  BY <1>1, <1>2, TakeSeatKeeps DEF TypeOK
<1>6. \A q \in RoomIds : key'[q] = IF q = r THEN p ELSE key[q]
  BY <1>2 DEF TypeOK
<1>7. Seating'
  <2>1. \A q \in RoomIds \ open' : key'[q] = {}
    BY <1>2, <1>6 DEF Seating
  <2>2. \A q \in open' : key'[q] = {} => orphan'[q] = {}
    BY <1>1, <1>2, <1>6 DEF Seating, TypeOK
  <2> QED
    BY <1>1, <1>2, <2>1, <2>2, TakeSeatKeeps DEF Seating
<1>8. DirectIsExact'
  <2>1. ASSUME NEW x \in Pairs, NEW q \in RoomIds
        PROVE  direct'[x] = q <=> q \in open' /\ key'[q] = x
    <3>1. direct'[x] = IF x = p THEN r ELSE direct[x]
      BY <1>1, <1>2 DEF TypeOK
    <3>2. direct[x] = q <=> q \in open /\ key[q] = x
      BY DEF DirectIsExact
    <3>3. direct[p] = q <=> q \in open /\ key[q] = p
      BY <1>1 DEF DirectIsExact
    <3>4. NoRoom # q
      BY NoneAssumption
    <3> QED
      BY <1>2, <1>3, <1>6, <3>1, <3>2, <3>3, <3>4
  <2>2. ASSUME NEW q \in open'
        PROVE  IF key'[q] = {} THEN Members(q)' \in Pairs
               ELSE Members(q)' # {} /\ Members(q)' \subseteq key'[q]
    <3>1. q \in RoomIds /\ (q = r \/ q \in open)
      BY <1>2 DEF TypeOK
    <3>2. Members(q)' = IF q = r THEN Members(q) \cup {a} ELSE Members(q)
      BY <1>1, <1>2, <3>1, TakeSeatKeeps
    <3>3. a \in p
      BY DEF p
    <3>4. q = r => Members(q) \subseteq p
      BY <1>1, <1>2, <1>3, <1>4 DEF DirectIsExact
    <3> QED
      BY <1>1, <1>6, <3>1, <3>2, <3>3, <3>4 DEF DirectIsExact
  <2> QED
    BY <2>1, <2>2 DEF DirectIsExact
<1> QED
  BY <1>1, <1>2, <1>5, <1>7, <1>8, TakeSeatKeeps

LEMMA RejoinInv ==
    ASSUME RoomsInv, NEW r \in RoomIds, NEW s \in Sockets, Rejoin(r, s)
    PROVE  RoomsInv'
<1> USE DEF RoomsInv
<1>1. /\ s \in connected /\ r \in open /\ OwnerOf[s] \in Members(r)
      /\ TakeSeat(r, OwnerOf[s], s)
      /\ grace' = [grace EXCEPT ![r] = @ \ {OwnerOf[s]}]
      /\ ended' = {}
      /\ UNCHANGED <<connected, open, key, orphan, direct>>
      /\ open' = open \cup {r}
  BY DEF Rejoin, ClearGrace
<1>2. TypeOK'
  BY <1>1, TakeSeatKeeps DEF TypeOK
<1>3. Seating'
  BY <1>1, TakeSeatKeeps DEF Seating
<1>4. \A q \in RoomIds : Members(q)' = Members(q)
  <2>1. \A q \in RoomIds : Members(q)' = IF q = r THEN Members(q) \cup {OwnerOf[s]}
                                          ELSE Members(q)
    BY <1>1, TakeSeatKeeps
  <2> QED
    BY <1>1, <2>1
<1>5. DirectIsExact'
  BY <1>1, <1>4 DEF DirectIsExact, TypeOK
<1> QED
  BY <1>1, <1>2, <1>3, <1>5, TakeSeatKeeps

\* A socket drops: it holds nothing any more, and the seats it held are
\* timed or, in a direct room of its own, gone with the room.
LEMMA DisconnectInv ==
    ASSUME RoomsInv, NEW s \in Sockets, Disconnect(s)
    PROVE  RoomsInv'
<1> USE DEF RoomsInv
<1> DEFINE a == OwnerOf[s]
           mine == {r \in RoomsOf(s) : seat[r][a] = s}
           alone == {r \in mine : key[r] # {} /\ Members(r) = {a}}
           kept == mine \ alone
<1>1. a \in Users
  BY OwnerAssumption
<1>2. \A r \in RoomIds : r \in mine <=> r \in open /\ seat[r][a] = s /\ a \in on[r]
  BY DEF RoomsOf, IndexMatchesSeats, Access
<1>3. alone \subseteq open /\ kept \subseteq open /\ open \subseteq RoomIds
  BY DEF RoomsOf, TypeOK
<1>4. /\ s \in connected /\ connected' = connected \ {s}
      /\ orphan' = orphan
      /\ open' = open \ alone
      /\ bySocket' = [bySocket EXCEPT ![s] = {}]
      /\ direct' = Undirected(alone)
      /\ ended' = {[room |-> r, reason |-> "left"] : r \in alone}
  BY DEF Disconnect, DropSocket
<1>5. \A r \in RoomIds :
         /\ r \in alone => seat'[r] = EmptySeats /\ on'[r] = {} /\ grace'[r] = {} /\ key'[r] = {}
         /\ r \notin alone => seat'[r] = seat[r] /\ key'[r] = key[r]
         /\ r \in kept => on'[r] = on[r] \ {a} /\ grace'[r] = grace[r] \cup {a}
         /\ r \notin mine => on'[r] = on[r] /\ grace'[r] = grace[r]
  BY DEF Disconnect, DropSocket, StartGrace
<1>6. /\ key' \in [RoomIds -> Pairs \cup {{}}]
      /\ seat' \in [RoomIds -> [Users -> Sockets \cup {NoSocket}]]
      /\ on' \in [RoomIds -> SUBSET Users] /\ grace' \in [RoomIds -> SUBSET Users]
  BY <1>1 DEF Disconnect, DropSocket, StartGrace, EmptySeats, TypeOK
<1> HIDE DEF alone, kept
<1>7. /\ \A r \in RoomIds : r \in alone => r \in mine /\ key[r] # {} /\ Members(r) = {a}
      /\ \A r \in RoomIds : r \in mine <=> r \in alone \/ r \in kept
      /\ \A r \in RoomIds : ~(r \in alone /\ r \in kept)
  BY DEF alone, kept
<1> HIDE DEF mine
<1>8. \A r \in RoomIds : Members(r)' = IF r \in alone THEN {} ELSE Members(r)
  BY <1>5 DEF Members, EmptySeats
<1>9. TypeOK'
  <2>1. bySocket' \in [Sockets -> SUBSET RoomIds]
    BY <1>4 DEF TypeOK
  <2>2. direct' \in [Pairs -> RoomIds \cup {NoRoom}]
    BY <1>4 DEF Undirected, TypeOK
  <2>3. ended' \subseteq [room : RoomIds, reason : Reasons]
    BY <1>3, <1>4 DEF Reasons
  <2> QED
    BY <1>4, <1>6, <2>1, <2>2, <2>3 DEF TypeOK
<1>10. Seating'
  <2>1. \A r \in RoomIds, u \in Users : seat'[r][u] # NoSocket => OwnerOf[seat'[r][u]] = u
    BY <1>5 DEF Seating, EmptySeats
  <2>2. \A r \in RoomIds : on'[r] \subseteq Members(r)'
    BY <1>5, <1>7, <1>8 DEF Seating
  <2>3. \A r \in RoomIds \ open' :
          seat'[r] = EmptySeats /\ on'[r] = {} /\ grace'[r] = {} /\ key'[r] = {}
    BY <1>2, <1>4, <1>5 DEF Seating
  <2>4. \A r \in open' : key'[r] = {} => orphan'[r] = {}
    BY <1>3, <1>4, <1>5 DEF Seating
  <2> QED
    BY <2>1, <2>2, <2>3, <2>4 DEF Seating
<1>11. IndexMatchesSeats'
  <2> SUFFICES ASSUME NEW x \in Sockets, NEW r \in RoomIds
               PROVE  r \in bySocket'[x] <=> r \in open' /\ seat'[r][OwnerOf[x]] = x
                                              /\ OwnerOf[x] \in on'[r]
    BY DEF IndexMatchesSeats, Access
  <2>1. OwnerOf[x] \in Users
    BY OwnerAssumption
  <2>2. bySocket'[x] = IF x = s THEN {} ELSE bySocket[x]
    BY <1>4 DEF TypeOK
  <2>3. r \in bySocket[x] <=> r \in open /\ seat[r][OwnerOf[x]] = x /\ OwnerOf[x] \in on[r]
    BY DEF IndexMatchesSeats, Access
  <2>4. on[r] \subseteq Members(r)
    BY DEF Seating
  <2>5. CASE x = s
    BY <1>2, <1>4, <1>5, <1>7, <2>2, <2>5
  <2>6. CASE x # s /\ r \in mine
    <3>1. seat[r][a] = s
      BY <1>2, <2>6
    <3>2. CASE OwnerOf[x] = a
      BY <1>4, <1>5, <1>7, <2>2, <2>3, <2>6, <3>1, <3>2
    <3>3. CASE OwnerOf[x] # a
      BY <1>4, <1>5, <1>7, <2>2, <2>3, <2>4, <2>6, <3>3
    <3> QED
      BY <3>2, <3>3
  <2>7. CASE x # s /\ r \notin mine
    BY <1>4, <1>5, <1>7, <2>2, <2>3, <2>7
  <2> QED
    BY <2>5, <2>6, <2>7
<1>12. PresentIsConnected' /\ AbsentIsTimed'
  <2> SUFFICES ASSUME NEW r \in open'
               PROVE  /\ \A u \in on'[r] : seat'[r][u] \in connected'
                      /\ grace'[r] = Members(r)' \ on'[r]
    BY DEF PresentIsConnected, AbsentIsTimed
  <2>1. r \in RoomIds /\ r \in open /\ r \notin alone
    BY <1>3, <1>4
  <2>2. \A u \in on[r] : u \in Users /\ seat[r][u] \in connected /\ (seat[r][u] = s => u = a)
    BY <1>1, <2>1, NoneAssumption DEF PresentIsConnected, Seating, TypeOK
  <2>3. a \in on[r] => a \in Members(r)
    BY <2>1 DEF Seating
  <2>4. grace[r] = Members(r) \ on[r]
    BY <2>1 DEF AbsentIsTimed
  <2> QED
    BY <1>2, <1>4, <1>5, <1>7, <1>8, <2>1, <2>2, <2>3, <2>4
<1>13. DirectIsExact'
  <2>1. ASSUME NEW p \in Pairs, NEW r \in RoomIds
        PROVE  direct'[p] = r <=> r \in open' /\ key'[r] = p
    <3>1. direct'[p] = IF \E q \in alone : key[q] = p THEN NoRoom ELSE direct[p]
      BY <1>4 DEF Undirected
    <3> QED
      BY <1>3, <1>4, <1>5, <3>1, NoneAssumption, PairsAreTwo DEF DirectIsExact
  <2>2. ASSUME NEW r \in open'
        PROVE  IF key'[r] = {} THEN Members(r)' \in Pairs
               ELSE Members(r)' # {} /\ Members(r)' \subseteq key'[r]
    <3>1. r \in RoomIds /\ r \in open /\ r \notin alone
      BY <1>3, <1>4
    <3> QED
      BY <1>5, <1>8, <3>1 DEF DirectIsExact
  <2> QED
    BY <2>1, <2>2 DEF DirectIsExact
<1> QED
  BY <1>9, <1>10, <1>11, <1>12, <1>13

LEMMA ConnectInv ==
    ASSUME RoomsInv, NEW s \in Sockets, Connect(s)
    PROVE  RoomsInv'
<1> USE DEF RoomsInv
<1>1. /\ UNCHANGED <<open, key, seat, on, grace, orphan, bySocket, direct>>
      /\ ended' = {} /\ connected' = connected \cup {s}
  BY DEF Connect
<1>2. \A r \in RoomIds : Members(r)' = Members(r)
  BY <1>1 DEF Members
<1>3. TypeOK'
  BY <1>1 DEF TypeOK
<1>4. Seating' /\ DirectIsExact' /\ AbsentIsTimed'
  <2>1. open \subseteq RoomIds
    BY DEF TypeOK
  <2>2. Seating'
    BY <1>1, <1>2 DEF Seating
  <2>3. DirectIsExact'
    BY <1>1, <1>2, <2>1 DEF DirectIsExact
  <2>4. AbsentIsTimed'
    BY <1>1, <1>2, <2>1 DEF AbsentIsTimed
  <2> QED
    BY <2>2, <2>3, <2>4
<1>5. IndexMatchesSeats' /\ PresentIsConnected'
  BY <1>1 DEF IndexMatchesSeats, PresentIsConnected, Access
<1> QED
  BY <1>3, <1>4, <1>5

\* Every step keeps the invariant.
LEMMA NextInv == RoomsInv /\ [Next]_vars => RoomsInv'
<1> SUFFICES ASSUME RoomsInv, [Next]_vars
             PROVE  RoomsInv'
  OBVIOUS
<1>1. connected \subseteq Sockets /\ orphan \in [RoomIds -> SUBSET Users]
  BY DEF RoomsInv, TypeOK
<1>2. ASSUME NEW s \in Sockets, Search(s)
      PROVE  RoomsInv'
  BY <1>1, <1>2, CloseAllInv DEF Search, RoomsOf, Reasons
<1>3. ASSUME NEW s \in Sockets, NEW t \in Sockets, NEW r \in RoomIds, Match(s, t, r)
      PROVE  RoomsInv'
  BY <1>3, CreateMatchInv DEF Match, RoomsOf
<1>4. ASSUME NEW r \in RoomIds, NEW s \in Sockets, Leave(r, s)
      PROVE  RoomsInv'
  BY <1>1, <1>4, CloseAllInv DEF Leave, Access, Reasons
<1>5. ASSUME NEW r \in RoomIds, Expire(r)
      PROVE  RoomsInv'
  BY <1>1, <1>5, CloseAllInv DEF Expire, Reasons
<1>6. ASSUME NEW r \in RoomIds, NEW u \in Users, GraceEnds(r, u)
      PROVE  RoomsInv'
  <2>1. r \in open
    BY <1>6 DEF GraceEnds, RoomsInv, Seating
  <2> QED
    BY <1>1, <1>6, <2>1, CloseAllInv DEF GraceEnds, Reasons
<1>7. ASSUME NEW r \in RoomIds, NEW u \in Users, OrphanEnds(r, u)
      PROVE  RoomsInv'
  <2>1. /\ orphan' \in [RoomIds -> SUBSET Users] /\ UNCHANGED connected
        /\ \A q \in RoomIds : orphan'[q] \subseteq orphan[q]
    BY <1>1, <1>7 DEF OrphanEnds
  <2>2. CASE r \in open /\ CloseAll({r}, "disconnect")
    BY <2>1, <2>2, CloseAllInv DEF Reasons
  <2>3. CASE /\ ended' = {}
             /\ UNCHANGED <<open, key, seat, on, grace, bySocket, direct>>
    <3>1. \A q \in RoomIds : Members(q)' = Members(q)
      BY <2>3 DEF Members
    <3>2. TypeOK' /\ Seating'
      BY <2>1, <2>3, <3>1 DEF RoomsInv, TypeOK, Seating
    <3>3. DirectIsExact' /\ AbsentIsTimed'
      BY <2>3, <3>1 DEF RoomsInv, DirectIsExact, AbsentIsTimed, TypeOK
    <3>4. IndexMatchesSeats' /\ PresentIsConnected'
      BY <2>1, <2>3 DEF RoomsInv, IndexMatchesSeats, PresentIsConnected, Access
    <3> QED
      BY <3>2, <3>3, <3>4 DEF RoomsInv
  <2> QED
    BY <1>7, <2>2, <2>3 DEF OrphanEnds
<1>8. CASE UNCHANGED vars
  <2>1. \A q \in RoomIds : Members(q)' = Members(q)
    BY <1>8 DEF Members, vars
  <2>2. TypeOK' /\ Seating'
    BY <1>8, <2>1 DEF vars, RoomsInv, TypeOK, Seating
  <2>3. DirectIsExact' /\ AbsentIsTimed'
    BY <1>8, <2>1 DEF vars, RoomsInv, DirectIsExact, AbsentIsTimed, TypeOK
  <2>4. IndexMatchesSeats' /\ PresentIsConnected'
    BY <1>8 DEF vars, RoomsInv, IndexMatchesSeats, PresentIsConnected, Access
  <2> QED
    BY <2>2, <2>3, <2>4 DEF RoomsInv
<1> QED
  BY <1>2, <1>3, <1>4, <1>5, <1>6, <1>7, <1>8,
     JoinDirectInv, RejoinInv, DisconnectInv, ConnectInv DEF Next

\* What becomes of the seats a socket holds: closing rooms takes the seats in
\* them, a new room seats two, and no other step gives a seat to a socket but
\* the one that takes it.
LEMMA SeatsOfCloseAll ==
    ASSUME TypeOK, NEW C \in SUBSET open, NEW reason, CloseAll(C, reason), NEW x \in Sockets
    PROVE  SeatsOf(x)' = SeatsOf(x) \ C
<1>1. OwnerOf[x] \in Users /\ open \subseteq RoomIds
  BY OwnerAssumption DEF TypeOK
<1>2. open' = open \ C
      /\ \A r \in RoomIds : r \notin C => seat'[r] = seat[r]
  BY DEF CloseAll
<1> QED
  BY <1>1, <1>2 DEF SeatsOf

LEMMA SeatsOfCreateMatch ==
    ASSUME TypeOK, NEW C \in SUBSET open, NEW r \in RoomIds,
           NEW s \in Sockets, NEW t \in Sockets, OwnerOf[s] # OwnerOf[t],
           CreateMatch(C, r, s, t), NEW x \in Sockets
    PROVE  SeatsOf(x)' = (SeatsOf(x) \ C) \cup {q \in {r} : x \in {s, t}}
<1>1. OwnerOf[x] \in Users /\ open \subseteq RoomIds /\ r \notin open
  BY OwnerAssumption DEF TypeOK, CreateMatch, Fresh
<1>2. /\ open' = (open \ C) \cup {r}
      /\ \A q \in RoomIds : q \notin C /\ q # r => seat'[q] = seat[q]
      /\ \A u \in Users : seat'[r][u] = IF u = OwnerOf[s] THEN s
                                        ELSE IF u = OwnerOf[t] THEN t ELSE NoSocket
  BY DEF CreateMatch
<1> QED
  BY <1>1, <1>2, NoneAssumption DEF SeatsOf

LEMMA SeatsOfTakeSeat ==
    ASSUME TypeOK, NEW r \in RoomIds, NEW s \in Sockets,
           TakeSeat(r, OwnerOf[s], s), open' = open \cup {r},
           r \in open \/ seat[r] = EmptySeats, NEW x \in Sockets, x # s
    PROVE  SeatsOf(x)' \subseteq SeatsOf(x)
<1>1. OwnerOf[x] \in Users /\ OwnerOf[s] \in Users /\ open \subseteq RoomIds
  BY OwnerAssumption DEF TypeOK
<1>2. \A q \in RoomIds, u \in Users :
         seat'[q][u] = IF q = r /\ u = OwnerOf[s] THEN s ELSE seat[q][u]
  BY <1>1 DEF TakeSeat, TypeOK
<1> QED
  BY <1>1, <1>2, NoneAssumption DEF SeatsOf, EmptySeats

LEMMA SeatsOfDisconnect ==
    ASSUME TypeOK, NEW s \in Sockets, Disconnect(s), NEW x \in Sockets
    PROVE  SeatsOf(x)' \subseteq SeatsOf(x)
<1>1. OwnerOf[x] \in Users /\ open \subseteq RoomIds
  BY OwnerAssumption DEF TypeOK
<1>2. PICK alone \in SUBSET open :
         /\ open' = open \ alone
         /\ seat' = [r \in RoomIds |-> IF r \in alone THEN EmptySeats ELSE seat[r]]
  BY DEF Disconnect, DropSocket, RoomsOf
<1> QED
  BY <1>1, <1>2 DEF SeatsOf

\* Every step keeps a connected member present.
LEMMA SeatedNext == RoomsInv /\ SeatedIsPresent /\ [Next]_vars => SeatedIsPresent'
<1> SUFFICES ASSUME RoomsInv, SeatedIsPresent, [Next]_vars,
                    NEW r \in open', NEW s \in connected',
                    seat'[r][OwnerOf[s]] = s
             PROVE  OwnerOf[s] \in on'[r]
  BY DEF SeatedIsPresent
<1> DEFINE u == OwnerOf[s]
<1>1. RoomsInv' /\ TypeOK /\ Seating
  BY NextInv DEF RoomsInv
<1>2. r \in RoomIds /\ s \in Sockets /\ u \in Users
  BY <1>1, OwnerAssumption DEF RoomsInv, TypeOK
<1>3. seat[r][u] = s /\ s \in connected => r \in open /\ u \in on[r]
  BY <1>1, <1>2, NoneAssumption DEF Seating, EmptySeats, SeatedIsPresent
<1>4. ASSUME NEW C \in SUBSET open, NEW reason, CloseAll(C, reason), UNCHANGED connected
      PROVE  u \in on'[r]
  BY <1>2, <1>3, <1>4 DEF CloseAll
<1>5. ASSUME NEW x \in Sockets, Search(x)
      PROVE  u \in on'[r]
  BY <1>4, <1>5 DEF Search, RoomsOf
<1>6. ASSUME NEW x \in Sockets, NEW y \in Sockets, NEW q \in RoomIds, Match(x, y, q)
      PROVE  u \in on'[r]
  <2>1. PICK C \in {{}, RoomsOf(x)} : CreateMatch(C, q, x, y)
    BY <1>6 DEF Match
  <2>2. UNCHANGED connected
    BY <1>6 DEF Match
  <2>3. CASE r = q
    BY <1>2, <2>1, <2>3, NoneAssumption DEF CreateMatch
  <2>4. CASE r # q
    BY <1>2, <1>3, <2>1, <2>2, <2>4, NoneAssumption DEF CreateMatch, EmptySeats
  <2> QED
    BY <2>3, <2>4
<1>7. ASSUME NEW q \in RoomIds, NEW x \in Sockets, Leave(q, x)
      PROVE  u \in on'[r]
  BY <1>4, <1>7 DEF Leave, Access
<1>8. ASSUME NEW q \in RoomIds, NEW x \in Sockets, TakeSeat(q, OwnerOf[x], x),
             UNCHANGED connected
      PROVE  u \in on'[r]
  <2>1. OwnerOf[x] \in Users
    BY OwnerAssumption
  <2>2. /\ \A p \in RoomIds, v \in Users :
              seat'[p][v] = IF p = q /\ v = OwnerOf[x] THEN x ELSE seat[p][v]
        /\ \A p \in RoomIds : on'[p] = IF p = q THEN on[p] \cup {OwnerOf[x]} ELSE on[p]
    BY <1>1, <1>8, <2>1 DEF TakeSeat, TypeOK
  <2> QED
    BY <1>2, <1>3, <1>8, <2>1, <2>2
<1>9. ASSUME NEW x \in Sockets, Disconnect(x)
      PROVE  u \in on'[r]
  <2>1. s # x /\ s \in connected
    BY <1>9 DEF Disconnect
  <2> DEFINE mine == {q \in RoomsOf(x) : seat[q][OwnerOf[x]] = x}
             alone == {q \in mine : key[q] # {} /\ Members(q) = {OwnerOf[x]}}
  <2>2. /\ open' = open \ alone
        /\ seat' = [q \in RoomIds |-> IF q \in alone THEN EmptySeats ELSE seat[q]]
        /\ on' = [q \in RoomIds |-> IF q \in alone THEN {}
                                     ELSE IF q \in mine \ alone THEN on[q] \ {OwnerOf[x]}
                                     ELSE on[q]]
    BY <1>9 DEF Disconnect, DropSocket
  <2> HIDE DEF alone
  <2>3. r \notin alone /\ seat[r][u] = s /\ u \in on[r]
    BY <1>2, <1>3, <2>1, <2>2
  <2>4. r \in mine => u # OwnerOf[x]
    BY <2>1, <2>3
  <2> QED
    BY <1>2, <2>2, <2>3, <2>4
<1>10. ASSUME NEW x \in Sockets, Connect(x)
       PROVE  u \in on'[r]
  BY <1>2, <1>3, <1>10 DEF Connect
<1>11. ASSUME NEW q \in RoomIds, Expire(q)
       PROVE  u \in on'[r]
  BY <1>4, <1>11 DEF Expire
<1>12. ASSUME NEW q \in RoomIds, NEW v \in Users, GraceEnds(q, v)
       PROVE  u \in on'[r]
  <2>1. q \in open
    BY <1>1, <1>12 DEF GraceEnds, Seating
  <2> QED
    BY <1>4, <1>12, <2>1 DEF GraceEnds
<1>13. ASSUME NEW q \in RoomIds, NEW v \in Users, OrphanEnds(q, v)
       PROVE  u \in on'[r]
  <2>1. CASE q \in open /\ CloseAll({q}, "disconnect")
    BY <1>4, <1>13, <2>1 DEF OrphanEnds
  <2>2. CASE UNCHANGED <<open, key, seat, on, grace, bySocket, direct>>
    BY <1>3, <1>13, <2>2 DEF OrphanEnds
  <2> QED
    BY <1>13, <2>1, <2>2 DEF OrphanEnds
<1>14. CASE UNCHANGED vars
  BY <1>3, <1>14 DEF vars
<1> QED
  BY <1>5, <1>6, <1>7, <1>8, <1>9, <1>10, <1>11, <1>12, <1>13, <1>14
     DEF Next, JoinDirect, Rejoin

\* The whole invariant, from which the theorems below are read off.
THEOREM RoomsInvariant == Spec => []RoomsInv
  BY InitInv, NextInv, PTL DEF Spec

\* Types, for any number of users, tabs and rooms.
THEOREM RoomsTypeCorrect == Spec => []TypeOK
<1>1. RoomsInv => TypeOK
  BY DEF RoomsInv
<1> QED
  BY <1>1, RoomsInvariant, PTL

\* A socket is indexed under exactly the rooms it may act in.
THEOREM IndexAlwaysMatches == Spec => []IndexMatchesSeats
<1>1. RoomsInv => IndexMatchesSeats
  BY DEF RoomsInv
<1> QED
  BY <1>1, RoomsInvariant, PTL

\* Nobody who is gone is taken for present.
THEOREM PresentAlwaysConnected == Spec => []PresentIsConnected
<1>1. RoomsInv => PresentIsConnected
  BY DEF RoomsInv
<1> QED
  BY <1>1, RoomsInvariant, PTL

\* Nobody who is connected is taken for gone.
THEOREM SeatedAlwaysPresent == Spec => []SeatedIsPresent
<1>1. Init => SeatedIsPresent
  BY DEF Init, SeatedIsPresent
<1> QED
  BY <1>1, SeatedNext, RoomsInvariant, PTL DEF Spec

\* Exactly the absent members of a room have its grace timers.
THEOREM AbsentAlwaysTimed == Spec => []AbsentIsTimed
<1>1. RoomsInv => AbsentIsTimed
  BY DEF RoomsInv
<1> QED
  BY <1>1, RoomsInvariant, PTL

\* There is never a second direct room for a pair, nor a stranger in one.
THEOREM DirectAlwaysExact == Spec => []DirectIsExact
<1>1. RoomsInv => DirectIsExact
  BY DEF RoomsInv
<1> QED
  BY <1>1, RoomsInvariant, PTL

\* A match ends for a disconnect only while somebody is away.
THEOREM BlipNeverEndsMatch == Spec => BlipDoesNotEndMatch
<1>1. ASSUME RoomsInv, [Next]_vars
      PROVE  [\A e \in ended' : key[e.room] = {} => EndsWhileAway(e)]_vars
  <2> SUFFICES ASSUME ~ UNCHANGED vars, NEW e \in ended', key[e.room] = {},
                      e.reason = "disconnect"
               PROVE  Members(e.room) \ on[e.room] # {}
    BY DEF EndsWhileAway
  <2>1. PICK r \in RoomIds, u \in Users : GraceEnds(r, u) \/ OrphanEnds(r, u)
    <3>1. \A s \in Sockets : ~Search(s) /\ ~Disconnect(s) /\ ~Connect(s)
      BY DEF Search, CloseAll, Disconnect, DropSocket, Connect
    <3>2. \A s, t \in Sockets, r \in RoomIds : ~Match(s, t, r)
      BY DEF Match, CreateMatch
    <3>3. \A r \in RoomIds, s \in Sockets : ~Leave(r, s)
      BY DEF Leave, CloseAll
    <3>4. \A r \in RoomIds, s \in Sockets : ~Rejoin(r, s) /\ \A f \in Users : ~JoinDirect(s, f, r)
      BY DEF JoinDirect, Rejoin
    <3>5. \A r \in RoomIds : ~Expire(r)
      BY DEF Expire, CloseAll
    <3> QED
      BY <1>1, <3>1, <3>2, <3>3, <3>4, <3>5 DEF Next
  <2>2. e.room = r
    BY <2>1 DEF GraceEnds, OrphanEnds, CloseAll
  <2>3. CASE GraceEnds(r, u)
    BY <1>1, <2>2, <2>3 DEF GraceEnds, RoomsInv, AbsentIsTimed, Seating
  <2>4. CASE OrphanEnds(r, u)
    BY <1>1, <2>1, <2>2, <2>4 DEF OrphanEnds, RoomsInv, Seating
  <2> QED
    BY <2>1, <2>3, <2>4
<1> QED
  BY <1>1, RoomsInvariant, PTL DEF Spec, BlipDoesNotEndMatch

===============================================================================
