-------------------------------- MODULE Friends --------------------------------
(***************************************************************************)
(* What two people see of each other once they have met: the rows of       *)
(* `friends' and `blocks', the cache before them (users.js), the presence  *)
(* kept by realtime/index.js, and the friend list and the online dots that *)
(* App.jsx keeps in every tab.                                             *)
(*                                                                         *)
(* A tab hears of a change by an event on its socket and then asks for its *)
(* list over HTTP.  The socket can break, and the server takes a broken    *)
(* connection for a live one until its ping times out; answers to requests *)
(* overtake each other.  A pair is enough: every row and every event is    *)
(* about two people.                                                       *)
(***************************************************************************)
EXTENDS Naturals, Sequences, SequencesExt

CONSTANTS
    Users,       \* the two people
    Tabs,        \* browser tabs
    UserOf,      \* who is signed in in a tab
    Fresh,       \* the tabs that are just being opened; the others are settled
    Hidden,      \* a list that does not show the other person
    Unknown,     \* a list the server has not read yet
    MaxActs,     \* bound: changes of what the lists should show, breaks,
                 \* restarts, failed requests and entries that expire, together
    MaxFlights   \* bound: requests under way at a time

Limits ==
    /\ \A u \in Users : \E p \in Users : Users = {u, p} /\ p # u
    /\ UserOf \in [Tabs -> Users]
    /\ Hidden \notin Nat /\ Unknown \notin Nat \cup {Hidden}
    /\ MaxActs \in Nat /\ MaxFlights \in Nat

ASSUME LimitsAssumption == Limits
ASSUME FreshAssumption == Fresh \subseteq Tabs /\ \A u \in Users : \E t \in Tabs \ Fresh : UserOf[t] = u

VARIABLES
    friends,  \* those who have a row for the other
    blocked,  \* whether one has blocked the other
    name,     \* how often each has changed their name
    gone,     \* deleted accounts
    cache,    \* friendCache: "none", or whether the cached list has the other
    chat,     \* whether they are in a random chat together
    sock,     \* a tab's connection: "boot", "down", "up", or "out" when signed out
    ghosts,   \* tabs with a broken connection the server still counts
    down,     \* events on their way to a tab
    flights,  \* a tab's requests for its list, Asked or with the answer
    list,     \* the name a tab shows the other under, or Hidden
    dot,      \* whether a tab has the other in onlineIds
    seen,     \* history: as of which change a tab's list is
    astray,   \* history: tabs whose list nothing will correct
    absent,   \* history: users whose friend was offline at the reveal
    changes, faults

table == <<friends, blocked, name, gone>>
history == <<seen, astray, absent, changes, faults>>
vars == <<table, cache, chat, sock, ghosts, down, flights, list, dot, history>>

Partner == [u \in Users |-> CHOOSE p \in Users : p # u]
TabsOf == [u \in Users |-> {t \in Tabs : UserOf[t] = u}]
Shown == 0..MaxActs \cup {Hidden}
Event == {"changed", "online", "offline", "helloOn", "helloOff"}
Flight == [shows : Shown \cup {Unknown}, asOf : 0..MaxActs]
Asked == [shows |-> Unknown, asOf |-> 0]

TypeOK ==
    /\ friends \subseteq Users /\ gone \subseteq Users /\ absent \subseteq Users
    /\ blocked \in {"yes", "no"}
    /\ name \in [Users -> 0..MaxActs]
    /\ cache \in [Users -> {"none", "yes", "no"}]
    /\ chat \in {"no", "open"}
    /\ sock \in [Tabs -> {"boot", "down", "up", "out"}]
    /\ ghosts \subseteq Tabs /\ astray \subseteq Tabs
    /\ down \in [Tabs -> Seq(Event)]
    /\ flights \in [Tabs -> Seq(Flight)]
    /\ list \in [Tabs -> Shown]
    /\ dot \in [Tabs -> {"on", "off"}]
    /\ seen \in [Tabs -> 0..MaxActs]
    /\ changes \in 0..MaxActs /\ faults \in 0..MaxActs

-----------------------------------------------------------------------------
(* Rows, cache, presence.                                                   *)

Row(u) == IF u \in friends THEN "yes" ELSE "no"

\* friendEmails(): the cached list, or the rows, which are then cached.
FriendEmails(u) == IF cache[u] = "none" THEN Row(u) ELSE cache[u]
Cached(u) == [cache EXCEPT ![u] = FriendEmails(u)]

\* emailByPublicId(): nobody, once the account is deleted.
Found(u) == u \notin gone

AreFriends(u) == FriendEmails(u) = "yes" /\ Found(Partner[u])

\* friendsOf(): joined with users, so without those who have deleted theirs.
FriendView(u) == name[u]
FriendsOf(u) ==
    IF u \in friends /\ Found(Partner[u]) THEN FriendView(Partner[u]) ELSE Hidden

\* A fresh tab is resuming its session, whose answer carries the friend list.
Init ==
    /\ friends \in {{}, Users}
    /\ blocked = "no" /\ gone = {}
    /\ name = [u \in Users |-> 0]
    /\ cache = [u \in Users |-> "none"]
    /\ chat = "open"
    /\ sock = [t \in Tabs |-> IF t \in Fresh THEN "boot" ELSE "up"]
    /\ ghosts = {}
    /\ down = [t \in Tabs |-> <<>>]
    /\ flights = [t \in Tabs |-> IF t \in Fresh THEN <<Asked>> ELSE <<>>]
    /\ list = [t \in Tabs |-> IF t \in Fresh THEN Hidden ELSE FriendsOf(UserOf[t])]
    /\ dot = [t \in Tabs |-> IF t \in Fresh \/ friends = {} THEN "off" ELSE "on"]
    /\ seen = [t \in Tabs |-> 0]
    /\ astray = {} /\ absent = {}
    /\ changes = 0 /\ faults = 0

\* The keys of `online'.
Online(u) == \E t \in TabsOf[u] : sock[t] = "up" \/ t \in ghosts

\* The rows change together, and both caches are dropped.
AddFriendship ==
    /\ friends' = Users
    /\ cache' = [u \in Users |-> "none"]

\* Mutant: one of the two keeps a cached list.
RemoveFriendshipHalf ==
    /\ friends' = {}
    /\ \E u \in Users : cache' = [cache EXCEPT ![u] = "none"]

RemoveFriendship ==
    /\ friends' = {}
    /\ cache' = [u \in Users |-> "none"]

\* emitToUser(): `what' is heard by the tabs that are connected.
EmitToUser(what) ==
    down' = [t \in Tabs |-> IF sock[t] = "up" THEN down[t] \o what[UserOf[t]] ELSE down[t]]

Silence == [u \in Users |-> <<>>]
To(u, ev) == [Silence EXCEPT ![u] = <<ev>>]
FriendsChanged(u) == To(u, "changed")

\* invalidateUser()
Invalidated(u) == [cache EXCEPT ![u] = "none"]

\* Those whose list is to change and who are told nothing.
Change(told) ==
    /\ changes + faults < MaxActs
    /\ changes' = changes + 1
    /\ astray' = astray \cup {t \in Tabs : sock[t] # "up" \/ t \notin told}
    /\ UNCHANGED <<seen, faults>>

Fault == changes + faults < MaxActs /\ faults' = faults + 1

-----------------------------------------------------------------------------
(* Connections.                                                            *)

\* authenticate() has passed: presenceAdd().
PresenceAdd(t) ==
    LET u == UserOf[t]
        news == IF ~Online(u) /\ FriendEmails(u) = "yes" THEN <<"online">> ELSE <<>>
        hello == IF FriendEmails(u) = "yes" /\ Online(Partner[u]) THEN "helloOn" ELSE "helloOff"
    IN  /\ sock[t] = "down"
        /\ sock' = [sock EXCEPT ![t] = "up"]
        /\ cache' = Cached(u)
        /\ down' = [x \in Tabs |->
                      IF x = t THEN <<hello>>
                      ELSE IF UserOf[x] # u /\ sock[x] = "up" THEN down[x] \o news
                      ELSE down[x]]
        /\ absent' = IF Online(u) THEN absent ELSE absent \ {Partner[u]}
        /\ UNCHANGED <<table, chat, ghosts, flights, list, dot, seen, astray, changes, faults>>

\* The connection is lost, and what was under way on it.
Break(t) ==
    /\ sock[t] = "up" /\ t \notin ghosts
    /\ Fault
    /\ sock' = [sock EXCEPT ![t] = "down"]
    /\ ghosts' = ghosts \cup {t}
    /\ down' = [down EXCEPT ![t] = <<>>]
    /\ astray' = IF Contains(down[t], "changed") THEN astray \cup {t} ELSE astray
    /\ UNCHANGED <<table, cache, chat, flights, list, dot, seen, absent, changes>>

Removed(t, last) ==
    LET u == UserOf[t]
    IN  /\ t \in ghosts
        /\ ghosts' = ghosts \ {t}
        /\ cache' = IF last THEN Cached(u) ELSE cache
        /\ EmitToUser(IF last /\ FriendEmails(u) = "yes" THEN To(Partner[u], "offline") ELSE Silence)
        /\ UNCHANGED <<table, chat, sock, flights, list, dot, history>>

\* Mutant: the other connections of the user are not looked at.
PresenceRemoveAny(t) == Removed(t, TRUE)

\* The server notices: presenceRemove().
PresenceRemove(t) ==
    Removed(t, \A x \in TabsOf[UserOf[t]] : sock[x] # "up" /\ x \notin ghosts \ {t})

\* The process restarts: presence, chats and the cache were in memory.
Restart ==
    /\ Fault
    /\ cache' = [u \in Users |-> "none"]
    /\ chat' = "no"
    /\ ghosts' = {}
    /\ sock' = [t \in Tabs |-> IF sock[t] = "up" THEN "down" ELSE sock[t]]
    /\ down' = [t \in Tabs |-> <<>>]
    /\ astray' = astray \cup {t \in Tabs : Contains(down[t], "changed")}
    /\ UNCHANGED <<table, flights, list, dot, seen, absent, changes>>

\* LRU: an entry is over after thirty seconds, or evicted.
Expire(u) ==
    /\ cache[u] # "none"
    /\ Fault
    /\ cache' = [cache EXCEPT ![u] = "none"]
    /\ UNCHANGED <<table, chat, sock, ghosts, down, flights, list, dot, seen, astray, absent, changes>>

-----------------------------------------------------------------------------
(* A random chat.                                                          *)

Here(u) == \E t \in TabsOf[u] : sock[t] = "up"

\* canPair(): a blocked pair is never matched.
Meet ==
    /\ chat = "no" /\ blocked = "no"
    /\ \A u \in Users : Here(u)
    /\ chat' = "open"
    /\ UNCHANGED <<table, cache, sock, ghosts, down, flights, list, dot, history>>

\* friend_respond: u accepts what the partner asked for, and may since have
\* lost the connection; reveal().
Reveal(u) ==
    LET told(x) == IF Online(Partner[x]) THEN <<"changed", "online">> ELSE <<"changed">>
    IN  /\ chat = "open" /\ Here(u) /\ gone = {}
        /\ AddFriendship
        /\ Change(Tabs)
        /\ EmitToUser([x \in Users |-> told(x)])
        /\ absent' = {x \in Users : ~Online(Partner[x])}
        /\ UNCHANGED <<blocked, name, gone, chat, sock, ghosts, flights, list, dot>>

\* The partner has deleted the account: the rows are written before
\* friendView() fails on it.
RevealOfDeleted(u) ==
    /\ chat = "open" /\ Here(u) /\ Partner[u] \in gone
    /\ AddFriendship
    /\ UNCHANGED <<blocked, name, gone, chat, sock, ghosts, down, flights, list, dot, history>>

\* `block' tells the other side, and not the tabs
\* of the one who blocks.
BlockInChat(u) ==
    /\ chat = "open" /\ Here(u)
    /\ blocked' = "yes"
    /\ RemoveFriendship
    /\ chat' = "no"
    /\ Change(TabsOf[Partner[u]])
    /\ EmitToUser(FriendsChanged(Partner[u]))
    /\ UNCHANGED <<name, gone, sock, ghosts, flights, list, dot, absent>>

\* `report' blocks as well, and tells nobody.
Report(u) ==
    /\ chat = "open" /\ Here(u)
    /\ blocked' = "yes"
    /\ RemoveFriendship
    /\ chat' = "no"
    /\ Change({})
    /\ UNCHANGED <<name, gone, sock, ghosts, down, flights, list, dot, absent>>

-----------------------------------------------------------------------------
(* HTTP: routes/me.js, and admin/routes.js for a deletion.                 *)

InApp(t) == sock[t] \in {"down", "up"}

\* The friend is on the list, with the buttons for chat, remove and block.
Listed(t) == list[t] # Hidden
Room == Cardinality({f \in Tabs \X (1..MaxFlights) : f[2] \in DOMAIN flights[f[1]]}) < MaxFlights
Ask(t) == flights' = [flights EXCEPT ![t] = Append(@, Asked)]

\* GET /me/friends, or POST /auth/resume.
Answer(t, i) ==
    /\ flights[t][i] = Asked
    /\ flights' = [flights EXCEPT ![t][i] = [shows |-> FriendsOf(UserOf[t]), asOf |-> changes]]
    /\ UNCHANGED <<table, cache, chat, sock, ghosts, down, list, dot, history>>

\* DELETE /me/friends/:id, or POST .../block: the answer is the new list, for
\* the tab that asked and no other of its owner.
EndFriendship(t, blocks) ==
    LET u == UserOf[t]
    IN  /\ InApp(t) /\ Room /\ Listed(t) /\ AreFriends(u)
        /\ blocked' = IF blocks THEN "yes" ELSE blocked
        /\ RemoveFriendship
        /\ Change({t} \cup TabsOf[Partner[u]])
        /\ EmitToUser(FriendsChanged(Partner[u]))
        /\ flights' = [flights EXCEPT ![t] = Append(@, [shows |-> Hidden, asOf |-> changes'])]
        /\ UNCHANGED <<name, gone, chat, sock, ghosts, list, dot, absent>>

\* saveName() of the dashboard, with another name than the one it has.
MaySaveName(u) == u \notin gone /\ \E t \in TabsOf[u] : InApp(t)

\* PATCH /me
Rename(u) ==
    /\ MaySaveName(u)
    /\ name' = [name EXCEPT ![u] = @ + 1]
    /\ cache' = Invalidated(u)
    /\ Change(Tabs)
    /\ EmitToUser(IF u \in friends THEN FriendsChanged(Partner[u]) ELSE Silence)
    /\ UNCHANGED <<friends, blocked, gone, chat, sock, ghosts, flights, list, dot, absent>>

\* kickUser(), then deleteUser(); with `told' the friends hear of it and their
\* caches are dropped.
Deleted(u, told) ==
    LET p == Partner[u]
        offline == IF Online(u) /\ FriendEmails(u) = "yes" THEN <<"offline">> ELSE <<>>
        changed == IF told /\ u \in friends THEN <<"changed">> ELSE <<>>
    IN  /\ u \notin gone
        /\ friends' = {} /\ blocked' = "no"
        /\ gone' = gone \cup {u}
        /\ cache' = [x \in Users |-> IF x = u \/ (told /\ u \in friends) THEN "none" ELSE cache[x]]
        /\ sock' = [t \in Tabs |-> IF UserOf[t] = u THEN "out" ELSE sock[t]]
        /\ ghosts' = ghosts \ TabsOf[u]
        /\ down' = [t \in Tabs |-> IF UserOf[t] = u THEN <<>>
                                   ELSE IF sock[t] = "up" THEN down[t] \o offline \o changed
                                   ELSE down[t]]
        /\ flights' = [t \in Tabs |-> IF UserOf[t] = u THEN <<>> ELSE flights[t]]
        /\ Change(IF told THEN Tabs ELSE {})
        /\ UNCHANGED <<name, chat, list, dot, absent>>

\* DELETE /me, and DELETE /admin/users/:id.
DeleteMe(u) == Deleted(u, TRUE)
AdminDelete(u) == Deleted(u, FALSE)

\* toDashboard('not_friends').
Refused(t) == Ask(t)

\* join_direct for the friend on the list; a refusal refreshes the list.
\* Bound: nobody clicks again before the last list is in.
JoinDirect(t) ==
    LET u == UserOf[t]
    IN  /\ sock[t] = "up" /\ Room /\ Listed(t) /\ flights[t] = <<>>
        /\ cache' = IF Found(Partner[u]) THEN Cached(u) ELSE cache
        /\ IF AreFriends(u) /\ blocked = "no" THEN UNCHANGED flights ELSE Refused(t)
        /\ UNCHANGED <<table, chat, sock, ghosts, down, list, dot, history>>

-----------------------------------------------------------------------------
(* The tab.                                                                 *)

Heard(t, refresh) ==
    /\ sock[t] = "up" /\ down[t] # <<>>
    /\ down' = [down EXCEPT ![t] = Tail(@)]
    /\ IF Head(down[t]) = "changed"
         THEN refresh /\ UNCHANGED dot
         ELSE /\ dot' = [dot EXCEPT ![t] = IF Head(down[t]) \in {"online", "helloOn"} THEN "on" ELSE "off"]
              /\ UNCHANGED flights
    /\ UNCHANGED <<table, cache, chat, sock, ghosts, list, history>>

\* Mutant: no refresh while one is under way.
HearOnce(t) == Heard(t, IF flights[t] = <<>> THEN Room /\ Ask(t) ELSE UNCHANGED flights)

\* friends_changed: refreshFriends(); presence and hello: setOnlineIds().
Hear(t) == Heard(t, Room /\ Ask(t))

\* setFriends(), whichever answer arrives first; enter() opens the socket.
Take(t, i) ==
    LET got == flights[t][i]
    IN  /\ got # Asked
        /\ flights' = [flights EXCEPT ![t] = RemoveAt(@, i)]
        /\ list' = [list EXCEPT ![t] = got.shows]
        /\ sock' = IF sock[t] = "boot" THEN [sock EXCEPT ![t] = "down"] ELSE sock
        /\ seen' = [seen EXCEPT ![t] = got.asOf]
        /\ astray' = IF got.asOf = changes THEN astray \ {t}
                     ELSE IF got.asOf < seen[t] THEN astray \cup {t} ELSE astray
        /\ UNCHANGED <<table, cache, chat, ghosts, down, dot, absent, changes, faults>>

\* A request fails, and refreshFriends() does not try again.
Fail(t, i) ==
    /\ InApp(t) /\ i \in DOMAIN flights[t]
    /\ Fault
    /\ flights' = [flights EXCEPT ![t] = RemoveAt(@, i)]
    /\ astray' = astray \cup {t}
    /\ UNCHANGED <<table, cache, chat, sock, ghosts, down, list, dot, seen, absent, changes>>

Next ==
    \/ \E t \in Tabs :
          \/ PresenceAdd(t) \/ Break(t) \/ PresenceRemove(t)
          \/ \E blocks \in BOOLEAN : EndFriendship(t, blocks)
          \/ JoinDirect(t) \/ Hear(t)
          \/ \E i \in DOMAIN flights[t] : Answer(t, i) \/ Take(t, i) \/ Fail(t, i)
    \/ \E u \in Users :
          \/ Expire(u) \/ Reveal(u) \/ RevealOfDeleted(u)
          \/ BlockInChat(u) \/ Report(u) \/ Rename(u)
          \/ DeleteMe(u) \/ AdminDelete(u)
    \/ Restart \/ Meet

Spec == Init /\ [][Next]_vars

-----------------------------------------------------------------------------
(* Properties.                                                              *)

\* A cached friend list (users.js:40) says what the table says, whichever of
\* the routes and handlers changed it, so nobody joins a direct chat on a
\* friendship that is over; only a friend whom an administrator deleted is
\* still cached.
CacheIsExact ==
    \A u \in Users : cache[u] # "none" /\ Partner[u] \notin gone => cache[u] = Row(u)

\* Every variable has its type, and CacheIsExact.
FriendsInv == TypeOK /\ CacheIsExact

Quiet(t) == sock[t] = "up" /\ down[t] = <<>> /\ flights[t] = <<>>

\* Once the events and requests of a tab have settled it shows the friends its
\* owner has, under their present names (App.jsx:68), unless it is one of
\* those the program leaves behind: it was away when the change was told, its
\* request failed, an older answer overtook a newer one, or the change was
\* one its owner made elsewhere, a report or an administrator's deletion.
ListIsRight ==
    \A t \in Tabs \ astray : Quiet(t) => list[t] = FriendsOf(UserOf[t])

\* The dot of a friend (App.jsx:127) agrees with the server's presence in
\* every settled tab, however many tabs the friend opens, breaks and closes;
\* but for a friend who was away when the friendship was made.
DotsAreRight ==
    \A t \in Tabs :
        LET u == UserOf[t]
        IN  Quiet(t) /\ FriendsOf(u) # Hidden /\ u \notin absent
              => (dot[t] = "on" <=> Online(Partner[u]))

=============================================================================
