------------------------------- MODULE Realtime --------------------------------
(***************************************************************************)
(* The handlers of realtime/index.js over queue and rooms together, and    *)
(* the tabs that call them: the screens of App.jsx, Matching.jsx and       *)
(* DirectCalling.jsx, each on a connection that can break, be cut by the   *)
(* server, or go down with the process.                                    *)
(*                                                                         *)
(* Rooms are those of module Rooms.  Of the queue only the set of sockets  *)
(* in it is kept: which two are paired, and when a search is given up, is  *)
(* MatchQueue's business and any choice here.                              *)
(*                                                                         *)
(* A tab's connection is a pair of ordered channels.  `sock' is what the   *)
(* tab believes, `connected' what the server does: after a break the two   *)
(* differ until the server's ping times out.                               *)
(***************************************************************************)
EXTENDS Naturals, Sequences, SequencesExt

CONSTANTS
    Users,      \* people
    Tabs,       \* browser tabs
    UserOf,     \* who is signed in in a tab
    Sockets,    \* connections
    TabOf,      \* the tab a connection is of
    RoomIds,    \* bound: rooms anybody still refers to
    MaxClicks,  \* bound: clicks in all tabs, one less for every fault before
    MaxFaults,  \* bound: breaks, restarts, suspensions, refused calls, chats
                \* that time out and searches given up, together
    NoSocket, NoRoom, Nobody

OwnerOf == [s \in Sockets |-> UserOf[TabOf[s]]]

ASSUME TabAssumption == UserOf \in [Tabs -> Users] /\ TabOf \in [Sockets -> Tabs]
ASSUME NoneAssumption ==
    NoSocket \notin Sockets /\ NoRoom \notin RoomIds /\ Nobody \notin Users
\* Every tab has a connection to begin with; what is sent at once is finite.
ASSUME SizeAssumption ==
    /\ \A t \in Tabs : \E s \in Sockets : TabOf[s] = t
    /\ IsFiniteSet(RoomIds)
    /\ MaxClicks \in Nat /\ MaxFaults \in Nat

VARIABLES
    connected, open, key, seat, on, grace, orphan, bySocket, direct, ended,
                \* as in Rooms
    queue,      \* keys of the Map `waiting'
    banned,     \* users with a suspension
    kicking,    \* the user kickUser() is at work on, or Nobody
    screen,     \* what each tab shows
    sock,       \* the connection each tab believes it has, or NoSocket
    up, down,   \* calls, and events and answers, on their way
    displaced,   \* history: tabs that lost their place untold
    strayed,    \* history: tabs whose own screen missed something: of a chat,
                \* that it was over, or a reconnection; of a search, that it
                \* was refused
    clicks, faults

R == INSTANCE Rooms

roomVars == <<connected, open, key, seat, on, grace, orphan, bySocket, direct, ended>>
roomMaps == <<connected, open, key, seat, on, grace, orphan, bySocket, direct>>
tabVars == <<screen, sock, up, strayed, clicks>>
vars == <<roomVars, queue, banned, kicking, tabVars, down, displaced, faults>>

Call == [op : {"start_chat", "cancel_match"}]
          \cup [op : {"join_direct"}, friend : Users]
          \cup [op : {"skip", "rejoin"}, room : RoomIds]
Event == [ev : {"search_timeout", "refused"}]
           \cup [ev : {"matched", "direct_matched", "partner_left", "waiting", "gone"}, room : RoomIds]
Screen == [name : {"dashboard", "matching", "timedOut", "again", "out"}]
            \cup [name : {"direct"}, friend : Users, room : RoomIds \cup {NoRoom}]
            \cup [name : {"chat"}, room : RoomIds, type : {"match", "direct"}]
            \* a chat that is not mounted yet; of a direct one, with whom
            \cup [name : {"loading"}, room : RoomIds, type : {"match"}]
            \cup [name : {"loading"}, room : RoomIds, type : {"direct"}, friend : Users]

TypeOK ==
    /\ R!TypeOK
    /\ queue \subseteq connected
    /\ banned \subseteq Users
    /\ kicking \in Users \cup {Nobody}
    /\ screen \in [Tabs -> Screen]
    /\ sock \in [Tabs -> Sockets \cup {NoSocket}]
    /\ up \in [Tabs -> Seq(Call)]
    /\ down \in [Tabs -> Seq(Event)]
    /\ displaced \subseteq Tabs /\ strayed \subseteq Tabs
    /\ clicks \in 0..MaxClicks /\ faults \in 0..MaxFaults

Dashboard == [name |-> "dashboard"]
Matching == [name |-> "matching"]
Start == <<[op |-> "start_chat"]>>

\* The tabs are open and connected.
Init ==
    /\ sock = [t \in Tabs |-> CHOOSE s \in Sockets : TabOf[s] = t]
    /\ connected = {sock[t] : t \in Tabs}
    /\ open = {} /\ ended = {}
    /\ key = [r \in RoomIds |-> {}]
    /\ seat = [r \in RoomIds |-> R!EmptySeats]
    /\ on = [r \in RoomIds |-> {}]
    /\ grace = [r \in RoomIds |-> {}]
    /\ orphan = [r \in RoomIds |-> {}]
    /\ bySocket = [s \in Sockets |-> {}]
    /\ direct = [p \in R!Pairs |-> NoRoom]
    /\ queue = {}
    /\ banned = {}
    /\ kicking = Nobody
    /\ screen = [t \in Tabs |-> Dashboard]
    /\ up = [t \in Tabs |-> <<>>]
    /\ down = [t \in Tabs |-> <<>>]
    /\ displaced = {} /\ strayed = {}
    /\ clicks = 0 /\ faults = 0

-----------------------------------------------------------------------------
(* What the server sends, and which room ids are free to be drawn.         *)

\* Events of one step for a tab go to its current connection; what is sent
\* to an older one is lost.
Hears(t, sent) == SetToSeq({m.what : m \in {x \in sent : x.to = sock[t]}})
Tell(sent) == down' = [t \in Tabs |-> down[t] \o Hears(t, sent)]

Msg(s, ev, r) == [to |-> s, what |-> [ev |-> ev, room |-> r]]

\* close(): `partner_left' to the members who are there, but for the actor.
Left(C, actor) ==
    UNION {{Msg(seat[r][u], "partner_left", r) : u \in on[r] \ {actor}} : r \in C}

Says(m, r) == "room" \in DOMAIN m /\ m.room = r
Known(r) ==
    \E t \in Tabs :
        \/ Says(screen[t], r)
        \/ \E i \in DOMAIN up[t] : Says(up[t][i], r)
        \/ \E i \in DOMAIN down[t] : Says(down[t][i], r)

\* Ids are random: any that nobody knows stands for all of them.
Unknown == {r \in RoomIds : R!Fresh(r) /\ ~Known(r)}
IsNew(r) == Unknown # {} /\ r = CHOOSE x \in Unknown : TRUE

Others(s) == {q \in Sockets : OwnerOf[q] = OwnerOf[s] /\ TabOf[q] # TabOf[s]}

\* Tabs that lose their place to socket s, and are not told.
Ousted(s, places) == {TabOf[q] : q \in places \cap Others(s)}

-----------------------------------------------------------------------------
(* The handlers.  c is the call at the head of a tab's channel.            *)

Running == kicking = Nobody

Fault == faults < MaxFaults /\ faults' = faults + 1

Received(t) == up' = [up EXCEPT ![t] = Tail(@)]

\* The rooms of the socket, which start_chat closes.
LeftBehind(s) == R!RoomsOf(s)

\* start_chat: rooms closed, the user's other searches dropped, then paired
\* at once or queued.
StartChat(t, s) ==
    LET mine == {q \in queue : OwnerOf[q] = OwnerOf[s]}
        C == LeftBehind(s)
    IN  /\ \/ \E p \in queue \ mine, r \in RoomIds :
                /\ IsNew(r)
                /\ R!CreateMatch(C, r, s, p)
                /\ queue' = queue \ (mine \cup {p})
                /\ Tell(Left(C, OwnerOf[s])
                          \cup {Msg(s, "matched", r), Msg(p, "matched", r)})
           \/ /\ R!CloseAll(C, "skip")
              /\ queue' = (queue \ mine) \cup {s}
              /\ Tell(Left(C, OwnerOf[s]))
        /\ displaced' = (displaced \ {t}) \cup Ousted(s, mine)
        /\ UNCHANGED <<connected, orphan>>

CancelMatch(s) ==
    /\ queue' = queue \ {s}
    /\ ended' = {}
    /\ UNCHANGED <<connected, open, key, seat, on, grace, orphan, bySocket,
                   direct, down, displaced>>

\* Mutant: a search goes on beside the call.
QueueWithStill(s) == queue
QueueWithout(s) == queue \ {s}

\* join_direct, of a friend: the one who waits alone is told so, the two who
\* meet are both told; a seat held from another tab moves here.
JoinDirect(t, s, friend) ==
    \E r \in RoomIds :
        LET u == OwnerOf[s]
            p == {u, friend}
            met == friend \in on[r]
        IN  /\ direct[p] = r \/ (direct[p] = NoRoom /\ IsNew(r))
            /\ R!JoinDirect(s, friend, r)
            /\ queue' = QueueWithout(s)
            /\ Tell(IF met THEN {Msg(s, "direct_matched", r),
                                 Msg(seat[r][friend], "direct_matched", r)}
                           ELSE {Msg(s, "waiting", r)})
            /\ displaced' = (displaced \ {t}) \cup Ousted(s, {seat[r][u]})

Skip(s, r) ==
    \/ /\ R!Access(r, s)
       /\ R!CloseAll({r}, IF key[r] = {} THEN "skip" ELSE "left")
       /\ Tell(Left({r}, OwnerOf[s]))
       /\ UNCHANGED <<connected, orphan, queue, displaced>>
    \/ /\ ~R!Access(r, s)
       /\ UNCHANGED <<roomVars, queue, down, displaced>>

Rejoin(t, s, r) ==
    \/ /\ R!Rejoin(r, s)
       /\ displaced' = (displaced \ {t}) \cup Ousted(s, {seat[r][OwnerOf[s]]})
       /\ UNCHANGED <<queue, down>>
    \/ /\ r \notin open \/ OwnerOf[s] \notin R!Members(r)
       /\ Tell({Msg(s, "gone", r)})
       /\ UNCHANGED <<roomVars, queue, displaced>>

Answer(t, s, c) ==
    \/ c.op = "start_chat" /\ StartChat(t, s)
    \/ c.op = "cancel_match" /\ CancelMatch(s)
    \/ c.op = "join_direct" /\ JoinDirect(t, s, c.friend)
    \/ c.op = "skip" /\ Skip(s, c.room)
    \/ c.op = "rejoin" /\ Rejoin(t, s, c.room)

\* socketLimiter() drops a call.  A call to a friend is given up, as it is
\* for an error of join_direct (DirectCalling.jsx:18); a rejoin that fails
\* ends the chat (useChat.js:70); the others do not look at the answer.
Refuse(s, c) ==
    /\ Fault
    /\ Tell(CASE c.op = "join_direct" -> {[to |-> s, what |-> [ev |-> "refused"]]}
              [] c.op = "rejoin" -> {Msg(s, "gone", c.room)}
              [] OTHER -> {})
    /\ UNCHANGED <<roomVars, queue, displaced>>

\* A screen that searches does not notice whether it does.
Searching == {"matching", "timedOut", "again"}
OfSearch(t, c) == c.op = "start_chat" /\ screen[t].name \in Searching

Handle(t) ==
    /\ Running
    /\ sock[t] \in connected
    /\ up[t] # <<>>
    /\ LET c == Head(up[t])
           s == sock[t]
       IN  \/ /\ Answer(t, s, c)
              /\ strayed' = IF OfSearch(t, c) THEN strayed \ {t} ELSE strayed
              /\ UNCHANGED faults
           \/ /\ Refuse(s, c)
              /\ strayed' = IF OfSearch(t, c) THEN strayed \cup {t} ELSE strayed
    /\ Received(t)
    /\ UNCHANGED <<banned, kicking, screen, sock, clicks>>

-----------------------------------------------------------------------------
(* The server on its own: sweeps and timers.                               *)

SweepPairs(s, p) ==
    /\ Running
    /\ {s, p} \subseteq queue
    /\ OwnerOf[s] # OwnerOf[p]
    /\ \E r \in RoomIds :
        /\ IsNew(r)
        /\ R!CreateMatch({}, r, s, p)
        /\ Tell({Msg(s, "matched", r), Msg(p, "matched", r)})
    /\ queue' = queue \ {s, p}
    /\ UNCHANGED <<connected, orphan, banned, kicking, tabVars, displaced, faults>>

SweepGivesUp(s) ==
    /\ Running
    /\ s \in queue
    /\ Fault
    /\ queue' = queue \ {s}
    /\ Tell({[to |-> s, what |-> [ev |-> "search_timeout"]]})
    /\ UNCHANGED <<roomVars, banned, kicking, tabVars, displaced>>

\* The ten minutes, the grace period, and a grace timer joinDirect() forgot,
\* whose own user is not told.
Timer(r) ==
    /\ Running
    /\ \/ /\ R!Expire(r)
          /\ Fault
          /\ Tell(Left({r}, Nobody))
          /\ UNCHANGED displaced
       \/ /\ UNCHANGED faults
          /\ \E u \in Users :
              \/ R!GraceEnds(r, u) /\ Tell(Left({r}, u)) /\ UNCHANGED displaced
              \/ /\ R!OrphanEnds(r, u)
                 /\ Tell(Left({r} \cap open, u))
                 /\ displaced' = displaced \cup {TabOf[s] : s \in {seat[r][u]} \ {NoSocket}}
    /\ UNCHANGED <<queue, banned, kicking, tabVars>>

\* The disconnect handler.  Mutant: the queue is forgotten.
GoneStill(s) ==
    /\ R!Disconnect(s)
    /\ UNCHANGED queue
Gone(s) ==
    /\ R!Disconnect(s)
    /\ queue' = queue \ {s}

\* dropSocket() closes a direct room only when nobody else is in it, so
\* there is nobody to tell; `partner_reconnecting' moves no tab.
PingTimeout(s) ==
    /\ Running
    /\ sock[TabOf[s]] # s
    /\ Gone(s)
    /\ UNCHANGED <<banned, kicking, tabVars, down, displaced, faults>>

\* Mutant: the suspended user's entries stay in the queue, and their
\* connections open.
KickedNone(u) == {}
Kicked(u) == {s \in connected : OwnerOf[s] = u}

\* kickUser(), called as a suspension is written: out of the queue, then
\* every socket of the user is closed, one disconnect handler after another.
Kick(u) ==
    /\ Running
    /\ u \notin banned
    /\ banned' = banned \cup {u}
    /\ queue' = {s \in queue : OwnerOf[s] # u}
    /\ kicking' = IF Kicked(u) = {} THEN Nobody ELSE u
    /\ Fault
    /\ UNCHANGED <<roomVars, tabVars, down, displaced>>

\* `kicked' reaches the tab before the connection closes; it signs out.
KickSocket(s) ==
    /\ kicking # Nobody
    /\ s \in Kicked(kicking)
    /\ Gone(s)
    /\ kicking' = IF Kicked(kicking) = {s} THEN Nobody ELSE kicking
    /\ LET t == TabOf[s]
       IN  IF sock[t] = s
           THEN /\ screen' = [screen EXCEPT ![t] = [name |-> "out"]]
                /\ sock' = [sock EXCEPT ![t] = NoSocket]
                /\ up' = [up EXCEPT ![t] = <<>>]
                /\ down' = [down EXCEPT ![t] = <<>>]
                /\ strayed' = strayed \ {t}
           ELSE UNCHANGED <<screen, sock, up, strayed, down>>
    /\ UNCHANGED <<banned, displaced, clicks, faults>>

-----------------------------------------------------------------------------
(* The tab.                                                                *)

\* Where a screen is entered, or the connection is back, it calls.  A chat
\* that is loading hears nothing yet; the screen before it is kept, out of
\* sight, with its listeners (Suspense, App.jsx:203), and calls once more.
CallOf(scr) ==
    CASE scr.name = "matching" -> Start
      [] scr.name = "direct" -> <<[op |-> "join_direct", friend |-> scr.friend]>>
      [] OTHER -> <<>>
\* Mutant: a chat is not rejoined.
ResumeForgets(scr) == IF scr.name \in {"timedOut", "again"} THEN Start ELSE CallOf(scr)
Resume(scr) ==
    CASE scr.name \in {"timedOut", "again"} -> Start
      [] scr.name = "chat" -> <<[op |-> "rejoin", room |-> scr.room]>>
      [] scr.name = "loading" ->
            IF scr.type = "match" THEN Start
            ELSE <<[op |-> "join_direct", friend |-> scr.friend]>>
      [] OTHER -> CallOf(scr)

\* setScreen(), after the calls first: a mounted screen calls only if the
\* connection is up, else when it is back.
Show(t, first, scr) ==
    /\ screen' = [screen EXCEPT ![t] = scr]
    /\ strayed' = strayed \ {t}
    /\ up' = [up EXCEPT ![t] = IF sock[t] = NoSocket THEN <<>>
                               ELSE @ \o first \o CallOf(scr)]

\* onEnded(): whatever session the tab shows now is what ends.
AfterEnd(scr) ==
    IF scr.name \in {"chat", "loading"} /\ scr.type = "match" THEN Matching ELSE Dashboard

\* openSocket() and every reconnection: authenticate(), onConnection().
Connect(t) ==
    /\ Running
    /\ sock[t] = NoSocket
    /\ screen[t].name # "out"
    /\ IF UserOf[t] \in banned
       THEN /\ screen' = [screen EXCEPT ![t] = [name |-> "out"]]
            /\ UNCHANGED <<roomVars, sock, up, strayed>>
       ELSE /\ \E s \in Sockets :
                 /\ TabOf[s] = t
                 /\ R!Connect(s)
                 /\ sock' = [sock EXCEPT ![t] = s]
            /\ up' = [up EXCEPT ![t] = Resume(screen[t])]
            \* the screen still says that time ran out, while it searches again
            /\ screen' = IF screen[t].name = "timedOut"
                         THEN [screen EXCEPT ![t] = [name |-> "again"]] ELSE screen
            \* a chat that is not mounted is not rejoined
            /\ strayed' = IF screen[t].name = "loading" THEN strayed \cup {t} ELSE strayed
    /\ UNCHANGED <<queue, banned, kicking, down, displaced, clicks, faults>>

\* The connection goes, with all that is on its way: call() gives an error
\* for what was not answered (socket.js:36).
Unanswered(t, op, answers) ==
    \/ \E i \in DOMAIN up[t] : up[t][i].op = op
    \/ \E i \in DOMAIN down[t] : down[t][i].ev \in answers
CutOff(t) ==
    IF Unanswered(t, "join_direct", {"waiting", "refused"}) THEN Dashboard
    ELSE IF Unanswered(t, "rejoin", {"gone"}) THEN AfterEnd(screen[t])
    ELSE screen[t]

Break(t) ==
    /\ Running
    /\ sock[t] # NoSocket
    /\ sock' = [sock EXCEPT ![t] = NoSocket]
    /\ up' = [up EXCEPT ![t] = <<>>]
    /\ down' = [down EXCEPT ![t] = <<>>]
    /\ screen' = [screen EXCEPT ![t] = CutOff(t)]
    /\ strayed' = strayed \ {t}
    /\ Fault
    /\ UNCHANGED <<roomVars, queue, banned, kicking, displaced, clicks>>

\* shutdownRealtime() and a new process: queue, rooms and timers are memory.
Restart ==
    /\ Running
    /\ Fault
    /\ connected' = {} /\ open' = {} /\ ended' = {}
    /\ key' = [r \in RoomIds |-> {}]
    /\ seat' = [r \in RoomIds |-> R!EmptySeats]
    /\ on' = [r \in RoomIds |-> {}]
    /\ grace' = [r \in RoomIds |-> {}]
    /\ orphan' = [r \in RoomIds |-> {}]
    /\ bySocket' = [s \in Sockets |-> {}]
    /\ direct' = [p \in R!Pairs |-> NoRoom]
    /\ queue' = {}
    /\ sock' = [t \in Tabs |-> NoSocket]
    /\ up' = [t \in Tabs |-> <<>>]
    /\ down' = [t \in Tabs |-> <<>>]
    /\ screen' = [t \in Tabs |-> CutOff(t)]
    /\ strayed' = {}
    /\ UNCHANGED <<banned, kicking, displaced, clicks>>

\* A screen takes any `matched' for its own: also that of a search or call
\* that was given up and begun again, whose room is closed by now, or will
\* be when the calls made since arrive.
OutOfDate(t, r) ==
    \/ up[t] # <<>>
    \/ /\ ~R!Access(r, sock[t])
       /\ \A i \in DOMAIN Tail(down[t]) :
             Tail(down[t])[i] # [ev |-> "partner_left", room |-> r]
EnterChat(t, chat) ==
    /\ screen' = [screen EXCEPT ![t] = chat]
    /\ strayed' = IF OutOfDate(t, chat.room) THEN strayed \cup {t} ELSE strayed \ {t}
    /\ UNCHANGED up

\* React has rendered the chat, whose code may have had to be fetched first
\* (App.jsx:17), and its effects have run: now it listens (useChat.js:43).
Mount(t) ==
    /\ Running
    /\ screen[t].name = "loading"
    /\ screen' = [screen EXCEPT ![t] = [name |-> "chat", room |-> @.room, type |-> @.type]]
    /\ UNCHANGED <<roomVars, queue, banned, kicking, sock, up, down, displaced, strayed,
                   clicks, faults>>

\* The listeners: App's own, and those of the screen that is mounted, which
\* for a chat that is loading is the one before it.
Behind(scr) ==
    CASE scr.name \in Searching -> "search"
      [] scr.name = "direct" -> "direct"
      [] scr.name = "loading" -> IF scr.type = "match" THEN "search" ELSE "direct"
      [] OTHER -> "none"
EndsChat(m, scr) == m.ev = "partner_left" /\ scr.name = "chat" /\ Says(scr, m.room)

Deliver(t) ==
    /\ Running
    /\ down[t] # <<>>
    /\ LET m == Head(down[t])
           scr == screen[t]
       IN  \/ /\ m.ev = "matched" /\ Behind(scr) = "search"
              /\ EnterChat(t, [name |-> "loading", room |-> m.room, type |-> "match"])
           \/ /\ m.ev = "direct_matched" /\ Behind(scr) = "direct"
              /\ EnterChat(t, [name |-> "loading", room |-> m.room, type |-> "direct",
                               friend |-> scr.friend])
           \/ /\ m.ev = "waiting" /\ scr.name = "direct"
              /\ screen' = [screen EXCEPT ![t].room = m.room]
              /\ UNCHANGED <<up, strayed>>
           \/ /\ m.ev = "search_timeout" /\ scr.name \in Searching
              /\ screen' = [screen EXCEPT ![t] = [name |-> "timedOut"]]
              /\ UNCHANGED <<up, strayed>>
           \* an answer is taken wherever the tab is by now
           \/ m.ev = "refused" /\ Show(t, <<>>, Dashboard)
           \/ (m.ev = "gone" \/ EndsChat(m, scr)) /\ Show(t, <<>>, AfterEnd(scr))
           \/ /\ \/ m.ev = "matched" /\ Behind(scr) # "search"
                 \/ m.ev = "direct_matched" /\ Behind(scr) # "direct"
                 \/ m.ev = "waiting" /\ scr.name # "direct"
                 \/ m.ev = "search_timeout" /\ scr.name \notin Searching
                 \/ m.ev = "partner_left" /\ ~EndsChat(m, scr)
              /\ strayed' = IF m.ev = "partner_left" /\ scr.name = "loading" /\ Says(scr, m.room)
                            THEN strayed \cup {t} ELSE strayed
              /\ UNCHANGED <<screen, up>>
    /\ down' = [down EXCEPT ![t] = Tail(@)]
    \* a tab that calls does not listen for the end of the room it waits in
    /\ displaced' = IF Head(down[t]).ev = "partner_left" /\ screen[t].name = "direct"
                    THEN displaced \cup {t} ELSE displaced
    /\ UNCHANGED <<roomVars, queue, banned, kicking, sock, clicks, faults>>

\* What the person in front of it clicks.
Click(t, from, first, to) ==
    /\ Running
    /\ screen[t].name \in from
    /\ clicks + faults < MaxClicks
    /\ clicks' = clicks + 1
    /\ Show(t, first, to)
    /\ UNCHANGED <<roomVars, queue, banned, kicking, sock, down, displaced, faults>>

\* The dashboard's button, and the one of a search that was given up, which
\* stays while a reconnected tab searches again.
StepIn(t) == Click(t, {"dashboard"}, <<>>, Matching)
Retry(t) == Click(t, {"timedOut", "again"}, <<>>, Matching)
Cancel(t) == Click(t, Searching, <<[op |-> "cancel_match"]>>, Dashboard)

\* An answer to an earlier call does not reach a later screen: bound here by
\* waiting for it.
NoAnswerDue(t) ==
    /\ \A i \in DOMAIN up[t] : up[t][i].op # "join_direct"
    /\ \A i \in DOMAIN down[t] : down[t][i].ev # "waiting"
Calling(friend) == [name |-> "direct", friend |-> friend, room |-> NoRoom]

\* The button in the list of friends.
CallFriend(t, friend) ==
    /\ friend # UserOf[t] /\ NoAnswerDue(t)
    /\ Click(t, {"dashboard"}, <<>>, Calling(friend))

\* The toast of an invite, which stands for 15 s over whatever the tab shows,
\* also when the caller has left: any friend may have sent one.  Over another
\* call it changes whom that is with, and the room it knows is kept
\* (DirectCalling has no key, App.jsx:191).
Called(scr, friend) ==
    IF scr.name = "direct" THEN [scr EXCEPT !.friend = friend] ELSE Calling(friend)
TakeInvite(t, friend) ==
    /\ friend # UserOf[t] /\ NoAnswerDue(t)
    /\ screen[t].name = "direct" => screen[t].friend # friend
    /\ Click(t, {"dashboard", "direct", "loading", "chat"} \cup Searching, <<>>,
             Called(screen[t], friend))
HangUp(t) ==
    /\ screen[t].name = "direct"
    /\ Click(t, {"direct"},
             IF screen[t].room = NoRoom THEN <<>>
             ELSE <<[op |-> "skip", room |-> screen[t].room]>>, Dashboard)
ClickSkip(t) ==
    /\ screen[t].name = "chat"
    /\ Click(t, {"chat"}, <<[op |-> "skip", room |-> screen[t].room]>>, AfterEnd(screen[t]))

-----------------------------------------------------------------------------

Server ==
    \/ \E t \in Tabs : Handle(t)
    \/ \E s, p \in Sockets : SweepPairs(s, p)
    \/ \E s \in Sockets : SweepGivesUp(s) \/ PingTimeout(s) \/ KickSocket(s)
    \/ \E r \in RoomIds : Timer(r)
    \/ \E u \in Users : Kick(u)

Client ==
    \E t \in Tabs :
        \/ Connect(t) \/ Break(t) \/ Deliver(t) \/ Mount(t)
        \/ StepIn(t) \/ Retry(t) \/ Cancel(t) \/ HangUp(t) \/ ClickSkip(t)
        \/ \E f \in Users : CallFriend(t, f) \/ TakeInvite(t, f)

Next == Server \/ Client \/ Restart

Spec == Init /\ [][Next]_vars

-----------------------------------------------------------------------------
(* Properties.                                                             *)

\* A socket in the queue has no seat anywhere: whoever searches has left the
\* room they were in, and nobody is matched out of a chat (index.js:132,
\* index.js:148).  rejoin does not look at the queue (index.js:323); that it
\* is the first call of its connection is what saves it.
SearchersAreFree == \A s \in queue : R!SeatsOf(s) = {}

\* Once a suspension is written and kickUser() has run, the user is nowhere:
\* no connection, no entry in the queue, no seat taken for present, in
\* whatever order tabs connect, search, rejoin and break.
BannedAreNowhere ==
    kicking = Nobody =>
        \A u \in banned :
            /\ \A s \in connected \cup queue : OwnerOf[s] # u
            /\ \A r \in open : u \notin on[r]

\* With nothing on its way, a connected tab shows what the server holds for
\* it: a tab that searches is in the queue, a tab that calls sits in the
\* direct room, a tab in a chat has its seat.  The code leaves these tabs out:
\* displaced, those that lost their place untold, to another tab of the user
\* or to a forgotten timer; and strayed, those whose start_chat was refused
\* (Matching.jsx:47), that entered a chat on news that was out of date
\* (Matching.jsx:63), or whose chat was not mounted yet when it ended or the
\* connection came back (App.jsx:203).
Quiet(t) == kicking = Nobody /\ sock[t] # NoSocket /\ up[t] = <<>> /\ down[t] = <<>>
ScreensAreTrue ==
    \A t \in Tabs : Quiet(t) /\ t \notin displaced \cup strayed =>
        LET scr == screen[t]
            u == UserOf[t]
        IN  /\ scr.name \in {"matching", "again"} => sock[t] \in queue
            /\ scr.name = "direct" => R!Access(direct[{u, scr.friend}], sock[t])
            /\ scr.name \in {"loading", "chat"} => R!Access(scr.room, sock[t])

\* Every handler, sweep, timer and kick is, for the rooms, a step of module
\* Rooms (or the restart that empties them), so its theorems hold of the rooms
\* in the running system.  What has to be true of the queue for it: two who
\* are paired are both still connected, and two users.
\* (That they may stay as they are is said for TLC, which tries it first.)
RoomsAreRooms ==
    [][UNCHANGED roomMaps \/ (open' = {} /\ connected' = {}) \/ R!Next]_roomMaps

================================================================================
