------------------------------- MODULE ChatClient ------------------------------
(***************************************************************************)
(* What a chat shows against what the server holds: useChat.js, Chat.jsx,  *)
(* ConsentRail.jsx and ReportModal.jsx in two tabs, socket.js and          *)
(* Socket.IO between, and the handlers and limits of realtime.  One match  *)
(* room from `matched' on.                                                 *)
(*                                                                         *)
(* Calls and events travel in order; an acknowledgement is the last event  *)
(* of its handler.  A broken connection loses what is on its way, and the  *)
(* awaited call fails; what is called while offline reaches a new socket   *)
(* that is refused, so it is left out.  The server learns of the break     *)
(* later, or not before the tab is back on another socket.                 *)
(* A tab waits for one answer before the next click.  A block goes the way *)
(* of a report.  Video and direct rooms are not in this module.            *)
(***************************************************************************)
EXTENDS Naturals, Sequences, FiniteSets

CONSTANTS
    Users,
    Terms,      \* bound: ends of the room, of which the last is not put off again
    MaxOnWay,   \* bound: calls on their way, and events to the partner
    MaxTexts,   \* bound: messages written
    MaxBreaks   \* bound: connections broken, calls given up or refused, a rejoin's not counted

ASSUME PairAssumption == \E u, v \in Users : u # v /\ Users = {u, v}
ASSUME BoundAssumption == Terms \in Nat \ {0} /\ {MaxOnWay, MaxTexts, MaxBreaks} \subseteq Nat

PartnerOf == [u \in Users |-> CHOOSE v \in Users : v # u]
Partner(u) == PartnerOf[u]

VARIABLES
    open,       \* the room is in the Map
    seat,       \* of each member: on a "live" socket, a "stale" one, or "away"
    enjoy, friendReq, extendReq, revealed,
    term,       \* extensions so far, modulo Terms: which endsAt the room has
    linked,     \* tabs with a connection
    up, down,   \* calls and events on their way
    inChat,     \* tabs that show the chat
    shown,      \* the state of the hook
    awaited,    \* the call whose answer the tab waits for
    missed,     \* history: tabs an event or an answer did not reach
    refused,    \* history: members whose start_chat was refused
    texts,      \* counts up to MaxTexts
    breaks      \* counts up to MaxBreaks

server == <<open, seat, enjoy, friendReq, extendReq, revealed, term>>
tab == <<inChat, shown, awaited>>
history == <<missed, refused>>
chatVars == <<server, linked, up, down, tab, history, texts, breaks>>

Asks == {"enjoy", "friend_request", "friend_accept", "friend_reject",
         "extend_request", "extend_accept", "extend_reject"}
Calls == Asks \cup {"send_message", "report", "rejoin", "skip", "start_chat"}
Events == {"enjoy_request", "enjoy_mutual", "friend_request", "friend_reject",
           "revealed", "extend_request", "extend_accept", "extend_reject",
           "partner_reconnecting", "partner_back", "partner_left", "receive_message", "ack"}
Result == {"ok", "mutual", "revealed", "error", "none"}

\* `waited' is FALSE once the tab has given the call up.
Call == [call : Calls, waited : BOOLEAN]
Event == [event : Events, result : Result, term : 0..(Terms - 1)]

Shown == [enjoy : {"none", "sent", "received", "mutual"},
          friend : {"none", "sent", "received", "friends"},
          extend : {"none", "sent", "received"},
          away : BOOLEAN,
          term : 0..(Terms - 1),
          said : Nat, heard : Nat,   \* how many messages of each
          report : {"none", "late", "done"}]         \* late: given up before it was answered

AtFirst == [enjoy |-> "none", friend |-> "none", extend |-> "none", away |-> FALSE,
            term |-> 0, said |-> 0, heard |-> 0, report |-> "none"]

ChatTypeOK ==
    /\ open \in BOOLEAN
    /\ seat \in [Users -> {"live", "stale", "away"}]
    /\ enjoy \subseteq Users /\ friendReq \subseteq Users /\ extendReq \subseteq Users
    /\ revealed \in BOOLEAN /\ term \in 0..(Terms - 1)
    /\ linked \subseteq Users /\ inChat \subseteq Users /\ missed \subseteq Users
    /\ up \in [Users -> Seq(Call)] /\ down \in [Users -> Seq(Event)]
    /\ shown \in [Users -> Shown]
    /\ awaited \in [Users -> Calls \cup {"none"}]
    /\ refused \subseteq Users /\ texts \in 0..MaxTexts
    /\ breaks \in 0..MaxBreaks

ChatInit ==
    /\ open = TRUE
    /\ seat = [u \in Users |-> "live"]
    /\ enjoy = {} /\ friendReq = {} /\ extendReq = {}
    /\ revealed = FALSE /\ term = 0
    /\ linked = Users
    /\ up = [u \in Users |-> <<>>] /\ down = [u \in Users |-> <<>>]
    /\ inChat = Users
    /\ shown = [u \in Users |-> AtFirst]
    /\ awaited = [u \in Users |-> "none"]
    /\ missed = {} /\ refused = {} /\ texts = 0 /\ breaks = 0

-----------------------------------------------------------------------------
(* The server.                                                             *)

Note(e) == [event |-> e, result |-> "none", term |-> 0]
Ack(result) == [event |-> "ack", result |-> result, term |-> 0]

\* rooms.send() to members, and the acknowledgement.  Only a tab that shows
\* the chat listens.
Hears(v) == v \in inChat /\ seat[v] = "live"
Sent(msgs) == [v \in Users |-> IF Hears(v) THEN down[v] \o msgs[v] ELSE down[v]]
Unheard(msgs) == {v \in inChat : ~Hears(v) /\ msgs[v] # <<>>}

Emit(u, msgs, result) ==
    /\ down' = IF u \in inChat /\ Head(up[u]).waited
               THEN [Sent(msgs) EXCEPT ![u] = Append(@, Ack(result))] ELSE Sent(msgs)
    /\ missed' = missed \cup Unheard(msgs)
    /\ UNCHANGED refused

ToBoth(e) == [v \in Users |-> <<e>>]
ToPartner(u, e) == [v \in Users |-> IF v = u THEN <<>> ELSE <<e>>]
ToNobody == [v \in Users |-> <<>>]

\* access(): the seat is on the socket the call comes from.
Access(u) == open /\ seat[u] = "live"

Enjoy(u) ==
    /\ enjoy' = enjoy \cup {u}
    /\ IF u \in enjoy THEN Emit(u, ToNobody, "ok")
       ELSE IF Partner(u) \in enjoy THEN Emit(u, ToBoth(Note("enjoy_mutual")), "mutual")
       ELSE Emit(u, ToPartner(u, Note("enjoy_request")), "ok")
    /\ UNCHANGED <<open, seat, friendReq, extendReq, revealed, term>>

\* reveal()
Reveal(u) ==
    /\ revealed' = TRUE
    /\ Emit(u, ToBoth(Note("revealed")), "revealed")

FriendRequest(u) ==
    /\ IF revealed THEN Emit(u, ToNobody, "ok") /\ UNCHANGED <<friendReq, revealed>>
       ELSE IF enjoy # Users THEN Emit(u, ToNobody, "error") /\ UNCHANGED <<friendReq, revealed>>
       ELSE /\ friendReq' = friendReq \cup {u}
            /\ IF Partner(u) \in friendReq THEN Reveal(u)
               ELSE Emit(u, ToPartner(u, Note("friend_request")), "ok") /\ UNCHANGED revealed
    /\ UNCHANGED <<open, seat, enjoy, extendReq, term>>

FriendRespond(u, accept) ==
    /\ IF Partner(u) \notin friendReq
       THEN Emit(u, ToNobody, "error") /\ UNCHANGED <<friendReq, revealed>>
       ELSE IF accept THEN friendReq' = friendReq \cup {u} /\ Reveal(u)
       ELSE /\ friendReq' = friendReq \ {Partner(u)}
            /\ Emit(u, ToPartner(u, Note("friend_reject")), "ok")
            /\ UNCHANGED revealed
    /\ UNCHANGED <<open, seat, enjoy, extendReq, term>>

NextTerm == (term + 1) % Terms

\* Mutant: the new end is sent to the partner only.
ExtendRoomQuietly(u) ==
    /\ extendReq' = {}
    /\ term' = NextTerm
    /\ Emit(u, ToPartner(u, [Note("extend_accept") EXCEPT !.term = NextTerm]), "ok")
\* extendRoom()
ExtendRoom(u) ==
    /\ extendReq' = {}
    /\ term' = NextTerm
    /\ Emit(u, ToBoth([Note("extend_accept") EXCEPT !.term = NextTerm]), "ok")

ExtendRequest(u) ==
    /\ IF Partner(u) \in extendReq THEN ExtendRoom(u)
       ELSE /\ extendReq' = extendReq \cup {u}
            /\ Emit(u, ToPartner(u, Note("extend_request")), "ok")
            /\ UNCHANGED term
    /\ UNCHANGED <<open, seat, enjoy, friendReq, revealed>>

ExtendRespond(u, accept) ==
    /\ IF Partner(u) \notin extendReq
       THEN Emit(u, ToNobody, "error") /\ UNCHANGED <<extendReq, term>>
       ELSE IF accept THEN ExtendRoom(u)
       ELSE /\ extendReq' = extendReq \ {Partner(u)}
            /\ Emit(u, ToPartner(u, Note("extend_reject")), "ok")
            /\ UNCHANGED term
    /\ UNCHANGED <<open, seat, enjoy, friendReq, revealed>>

Handler(u, call) ==
    \/ call = "enjoy" /\ Enjoy(u)
    \/ call = "friend_request" /\ FriendRequest(u)
    \/ call = "friend_accept" /\ FriendRespond(u, TRUE)
    \/ call = "friend_reject" /\ FriendRespond(u, FALSE)
    \/ call = "extend_request" /\ ExtendRequest(u)
    \/ call = "extend_accept" /\ ExtendRespond(u, TRUE)
    \/ call = "extend_reject" /\ ExtendRespond(u, FALSE)

\* Mutant: the whole room is told.
MessageToBoth(u) ==
    /\ Emit(u, ToBoth(Note("receive_message")), "ok")
    /\ UNCHANGED server
\* What the partner is told, who may be away: it is acknowledged all the same.
Message(u) ==
    /\ Emit(u, ToPartner(u, Note("receive_message")), "ok")
    /\ UNCHANGED server

\* close() by u; what skip and, for the rooms of its socket, start_chat do.
Forget ==
    /\ open' = FALSE
    /\ enjoy' = {} /\ friendReq' = {} /\ extendReq' = {}
    /\ revealed' = FALSE /\ term' = 0
    /\ UNCHANGED seat

Close(u) ==
    /\ Forget
    /\ Emit(u, ToPartner(u, Note("partner_left")), "ok")

\* reportTarget(), when the room is no longer open to u: the last one of the
\* socket, which close() has set for who was connected then.
ReportTarget(u) == IF ~open /\ seat[u] = "live" THEN "last" ELSE "none"

\* A report ends the room like a skip, and what is left of it can be reported.
Report(u) ==
    \/ Access(u) /\ Close(u)
    \/ /\ ~Access(u)
       /\ Emit(u, ToNobody, IF ReportTarget(u) = "last" THEN "ok" ELSE "error")
       /\ UNCHANGED server

\* Mutant: start_chat leaves the rooms of its socket alone.
EndsRoomSkipOnly(call) == call = "skip"
EndsRoom(call) == call \in {"skip", "start_chat"}

\* rejoin(): the seat moves to the new socket.
Rejoin(u) ==
    /\ seat' = [seat EXCEPT ![u] = "live"]
    /\ Emit(u, ToPartner(u, Note("partner_back")), "ok")
    /\ UNCHANGED <<open, enjoy, friendReq, extendReq, revealed, term>>

Allowed(u, call) ==
    IF call = "rejoin" THEN open
    ELSE Access(u) /\ (call \in Asks \cup {"send_message"} \/ EndsRoom(call))

Handle(u) ==
    /\ up[u] # <<>>
    /\ LET call == Head(up[u]).call
       IN  \/ call \in Asks /\ Access(u) /\ Handler(u, call)
           \/ EndsRoom(call) /\ Access(u) /\ Close(u)
           \/ call = "rejoin" /\ open /\ Rejoin(u)
           \/ call = "send_message" /\ Access(u) /\ Message(u)
           \/ call = "report" /\ Report(u)
           \/ /\ call # "report" /\ ~Allowed(u, call)
              /\ Emit(u, ToNobody, "error")
              /\ UNCHANGED server
    /\ up' = [up EXCEPT ![u] = Tail(@)]
    /\ UNCHANGED <<linked, tab, texts, breaks>>

\* socketLimiter(): the bucket of the call is empty.  That of the other calls is
\* too large for clicks.
Limit(u) ==
    /\ up[u] # <<>> /\ breaks < MaxBreaks
    /\ LET c == Head(up[u])
       IN  /\ c.call \in {"send_message", "report", "skip", "start_chat"}
           /\ down' = IF u \in inChat /\ c.waited
                      THEN [down EXCEPT ![u] = Append(@, Ack("error"))] ELSE down
           /\ refused' = IF c.call = "start_chat" THEN refused \cup {u} ELSE refused
    /\ up' = [up EXCEPT ![u] = Tail(@)]
    /\ breaks' = breaks + 1
    /\ UNCHANGED <<server, linked, tab, missed, texts>>

\* dropSocket(), when the connection is found dead.
DropSocket(u) ==
    /\ seat[u] = "stale"
    /\ seat' = [seat EXCEPT ![u] = "away"]
    /\ LET msgs == IF open THEN ToPartner(u, Note("partner_reconnecting")) ELSE ToNobody
       IN  down' = Sent(msgs) /\ missed' = missed \cup Unheard(msgs)
    /\ UNCHANGED <<open, enjoy, friendReq, extendReq, revealed, term, linked, up, tab,
                   refused, texts, breaks>>

\* The grace period, or the ten minutes, are over.
CloseAlone ==
    /\ open
    /\ Forget
    /\ down' = Sent(ToBoth(Note("partner_left")))
    /\ UNCHANGED <<linked, up, tab, history, texts, breaks>>

GraceEnds(u) == seat[u] = "away" /\ CloseAlone
Expire == CloseAlone

-----------------------------------------------------------------------------
(* The tab.                                                                *)

\* The buttons of ConsentRail and Messages.
MayAsk(u, call) ==
    LET s == shown[u]
        rail == s.friend \notin {"friends", "received", "sent"}
    IN  \/ call = "enjoy" /\ rail /\ s.enjoy \in {"none", "received"}
        \/ call = "friend_request" /\ rail /\ s.enjoy = "mutual"
        \/ call \in {"friend_accept", "friend_reject"} /\ s.friend = "received"
        \/ call = "extend_request" /\ s.extend = "none" /\ term < Terms - 1
        \/ call \in {"extend_accept", "extend_reject"} /\ s.extend = "received"

Send(u, calls) ==
    up' = [up EXCEPT ![u] = @ \o [i \in DOMAIN calls |-> [call |-> calls[i], waited |-> TRUE]]]

\* The dialog of a report that is done, with one button, covers the chat.
Covered(u) == shown[u].report = "done"

\* What a click takes: a connection, and no answer, dialog or queue in the way.
Free(u) ==
    /\ u \in inChat \cap linked
    /\ awaited[u] = "none" /\ ~Covered(u)
    /\ Len(up[u]) < MaxOnWay /\ Len(down[Partner(u)]) < MaxOnWay

\* What is called is awaited.
Called(u, call) ==
    /\ Send(u, <<call>>)
    /\ awaited' = [awaited EXCEPT ![u] = call]
    /\ UNCHANGED <<server, linked, down, inChat, shown, history, breaks>>

Ask(u, call) == MayAsk(u, call) /\ Called(u, call) /\ UNCHANGED texts

\* The composer is emptied, and has the text again when the call fails.
Write(u) == texts < MaxTexts /\ texts' = texts + 1 /\ Called(u, "send_message")

\* The dialog, whose buttons are `busy' until the answer.
SendReport(u) == Called(u, "report") /\ UNCHANGED texts

\* onEnded() unmounts the chat; Matching starts a search.
End(u, calls) ==
    /\ inChat' = inChat \ {u}
    /\ shown' = [shown EXCEPT ![u] = AtFirst]
    /\ awaited' = [awaited EXCEPT ![u] = "none"]
    /\ down' = [down EXCEPT ![u] = <<>>]
    /\ IF u \in linked' THEN Send(u, calls \o <<"start_chat">>) ELSE up' = [up EXCEPT ![u] = <<>>]

Skip(u) ==
    /\ u \in inChat /\ ~Covered(u)
    /\ UNCHANGED linked
    /\ End(u, <<"skip">>)
    /\ UNCHANGED <<server, history, texts, breaks>>

\* onDone() of the dialog.
Done(u) ==
    /\ Covered(u)
    /\ UNCHANGED linked
    /\ End(u, <<>>)
    /\ UNCHANGED <<server, history, texts, breaks>>

EnjoyAck(s, result) ==
    IF result = "mutual" THEN "mutual" ELSE IF s.enjoy = "none" THEN "sent" ELSE s.enjoy

\* Mutant: r.ok is not looked at.
RefusedNever(result) == FALSE
Refused(result) == result = "error"

\* send(): the message appears once it is acknowledged.
Appears(s) == [s EXCEPT !.said = @ + 1]

\* What a tab does with the answer to its call.
Answered(s, call, result) ==
    IF Refused(result)
    THEN IF call \in {"extend_accept", "extend_reject"} THEN [s EXCEPT !.extend = "none"] ELSE s
    ELSE CASE call = "enjoy" -> [s EXCEPT !.enjoy = EnjoyAck(s, result)]
           [] call = "friend_request" ->
                IF result # "revealed" /\ s.friend = "none" THEN [s EXCEPT !.friend = "sent"] ELSE s
           [] call = "friend_reject" -> [s EXCEPT !.friend = "none"]
           [] call = "extend_request" -> [s EXCEPT !.extend = "sent"]
           [] call \in {"extend_accept", "extend_reject"} -> [s EXCEPT !.extend = "none"]
           [] call = "send_message" -> Appears(s)
           [] call = "report" -> [s EXCEPT !.report = "done"]
           [] OTHER -> s

\* The handlers of useChat.
Told(s, m) ==
    CASE m.event = "enjoy_request" -> [s EXCEPT !.enjoy = IF @ = "sent" THEN @ ELSE "received"]
      [] m.event = "enjoy_mutual" -> [s EXCEPT !.enjoy = "mutual"]
      [] m.event = "friend_request" -> [s EXCEPT !.friend = "received"]
      [] m.event = "friend_reject" -> [s EXCEPT !.friend = "none"]
      [] m.event = "revealed" -> [s EXCEPT !.friend = "friends"]
      [] m.event = "extend_request" -> [s EXCEPT !.extend = "received"]
      [] m.event = "extend_accept" -> [s EXCEPT !.extend = "none", !.term = m.term]
      [] m.event = "extend_reject" -> [s EXCEPT !.extend = "none"]
      [] m.event = "partner_reconnecting" -> [s EXCEPT !.away = TRUE]
      [] m.event = "receive_message" -> [s EXCEPT !.heard = @ + 1]
      [] m.event = "partner_back" -> [s EXCEPT !.away = FALSE]
      [] OTHER -> s

Deliver(u) ==
    /\ down[u] # <<>>
    /\ LET m == Head(down[u])
           leaves == \/ m.event = "partner_left"
                     \/ m.event = "ack" /\ awaited[u] = "rejoin" /\ m.result = "error"
       IN  \/ /\ leaves
              /\ UNCHANGED linked
              /\ End(u, <<>>)
           \/ /\ ~leaves
              /\ down' = [down EXCEPT ![u] = Tail(@)]
              /\ shown' = [shown EXCEPT ![u] =
                    IF m.event = "ack" THEN Answered(@, awaited[u], m.result) ELSE Told(@, m)]
              /\ awaited' = [awaited EXCEPT ![u] = IF m.event = "ack" THEN "none" ELSE @]
              /\ UNCHANGED <<linked, up, inChat>>
    /\ UNCHANGED <<server, history, texts, breaks>>

-----------------------------------------------------------------------------
(* The connection.                                                         *)

\* One that befalls a rejoin is the last of its tab in this chat, and not counted.
Break(u) ==
    \/ awaited[u] = "rejoin" /\ UNCHANGED breaks
    \/ awaited[u] # "rejoin" /\ breaks < MaxBreaks /\ breaks' = breaks + 1

\* The awaited call fails with the connection.
Disconnect(u) ==
    /\ u \in linked
    /\ Break(u)
    /\ linked' = linked \ {u}
    /\ seat' = [seat EXCEPT ![u] = IF @ = "live" THEN "stale" ELSE @]
    /\ missed' = IF u \in inChat /\ (down[u] # <<>> \/ awaited[u] # "none")
                 THEN missed \cup {u} ELSE missed
    /\ IF u \in inChat /\ awaited[u] = "rejoin"
       THEN End(u, <<>>)
       ELSE /\ up' = [up EXCEPT ![u] = <<>>]
            /\ down' = [down EXCEPT ![u] = <<>>]
            /\ shown' = [shown EXCEPT ![u] = Answered(@, awaited[u], "error")]
            /\ awaited' = [awaited EXCEPT ![u] = "none"]
            /\ UNCHANGED inChat
    /\ UNCHANGED <<open, enjoy, friendReq, extendReq, revealed, term, refused, texts>>

Reconnect(u) ==
    /\ u \notin linked /\ u \in inChat
    /\ linked' = linked \cup {u}
    /\ Send(u, <<"rejoin">>)
    /\ awaited' = [awaited EXCEPT ![u] = "rejoin"]
    /\ UNCHANGED <<server, down, inChat, shown, history, texts, breaks>>

GivenUp(s, call) == IF call = "report" THEN [s EXCEPT !.report = "late"] ELSE s

\* The answer that is on its way, if any, finds nobody.
Unanswered(d) ==
    IF \A i \in DOMAIN d : d[i].event # "ack" THEN d
    ELSE LET i == CHOOSE i \in DOMAIN d : d[i].event = "ack"
         IN  SubSeq(d, 1, i - 1) \o SubSeq(d, i + 1, Len(d))

\* No answer within the eight seconds of call().
TimeOut(u) ==
    /\ awaited[u] # "none"
    /\ Break(u)
    /\ missed' = missed \cup {u}
    /\ IF awaited[u] = "rejoin"
       THEN UNCHANGED linked /\ End(u, <<>>)
       ELSE /\ up' = [up EXCEPT ![u] = [i \in DOMAIN @ |-> [@[i] EXCEPT !.waited = FALSE]]]
            /\ down' = [down EXCEPT ![u] = Unanswered(@)]
            /\ shown' = [shown EXCEPT ![u] = GivenUp(Answered(@, awaited[u], "error"), awaited[u])]
            /\ awaited' = [awaited EXCEPT ![u] = "none"]
            /\ UNCHANGED <<linked, inChat>>
    /\ UNCHANGED <<server, refused, texts>>

ChatNext ==
    \/ \E u \in Users : \/ Free(u) /\ (Write(u) \/ SendReport(u) \/ \E call \in Asks : Ask(u, call))
                        \/ Skip(u) \/ Done(u)
                        \/ Handle(u) \/ Limit(u) \/ Deliver(u)
                        \/ Disconnect(u) \/ Reconnect(u) \/ TimeOut(u)
                        \/ DropSocket(u) \/ GraceEnds(u)
    \/ Expire

ChatSpec == ChatInit /\ [][ChatNext]_chatVars

-----------------------------------------------------------------------------
(* Properties.                                                             *)

\* Whose move it is, from the requests the server holds.
Move(asked, u, both) ==
    IF asked = Users THEN both
    ELSE IF asked = {u} THEN "sent"
    ELSE IF asked = {Partner(u)} THEN "received" ELSE "none"

Quiet(u) == /\ open /\ u \in inChat /\ seat[u] = "live"
            /\ up[u] = <<>> /\ down[u] = <<>> /\ awaited[u] = "none"

\* "All chat state.  The server is the authority ...; this hook only mirrors
\* what it says" (useChat.js:8): with nothing on its way, a tab that missed
\* nothing shows the enjoys, the friend requests, the partner's wish for more
\* time, the end of the room and the partner's absence as the server has them.
\* Left out is a decline of what was accepted before: friend_respond lets it
\* pass (index.js:232), and the tabs no longer show the friendship.
RailIsRight ==
    \A u \in Users \ missed : Quiet(u) =>
        /\ shown[u].enjoy = Move(enjoy, u, "mutual")
        /\ ~revealed \/ friendReq = Users => shown[u].friend = Move(friendReq, u, "friends")
        /\ shown[u].extend = "received" <=> extendReq = {Partner(u)}
        /\ shown[u].term = term
        /\ shown[u].away <=> seat[Partner(u)] = "away"

\* PRODUCT.md:54, "Consent is mutual and visible": whatever is lost, a tab
\* never shows an agreement the server has not, nor a vote it did not get.
NothingIsShownEarly ==
    open => \A u \in inChat :
        /\ shown[u].enjoy = "mutual" => enjoy = Users
        /\ shown[u].enjoy = "sent" => u \in enjoy
        /\ shown[u].friend = "friends" => revealed

\* Who leaves the chat, by whatever way, takes the room along, so that nobody
\* writes to an empty seat: a start_chat that ends it is on its way, or a
\* timer or the discovery of a dead socket will, unless the limits of the socket
\* refused the start_chat (guard.js:24).  Who stays hears of the end, or reported
\* and was, or will be, answered, unless the dialog gave up waiting.
NobodyIsLeftBehind ==
    \A u \in Users :
        /\ open /\ u \notin inChat /\ seat[u] = "live" =>
              u \in refused \/ \E i \in DOMAIN up[u] : up[u][i].call = "start_chat"
        /\ ~open /\ u \in inChat \cap linked =>
              \/ awaited[u] = "rejoin" \/ shown[u].report # "none"
              \/ \E i \in DOMAIN down[u] :
                    \/ down[u][i].event = "partner_left"
                    \/ awaited[u] = "report" /\ down[u][i] = Ack("ok")

OnWay(u, m) == Cardinality({i \in DOMAIN down[u] : down[u][i] = m})

\* Messages are kept nowhere: a tab that missed nothing has, or will get, every
\* one its partner shows as sent, and no other but one the partner waits to see
\* acknowledged; what was given up may arrive, and be written again.
TextsAgree ==
    \A u, v \in inChat : u # v /\ v \notin missed =>
        LET arrived == shown[v].heard + OnWay(v, Note("receive_message"))
            acked == IF awaited[u] = "send_message" THEN OnWay(u, Ack("ok")) ELSE 0
        IN  /\ shown[u].said + acked <= arrived
            /\ u \notin missed => shown[u].said + acked = arrived

\* Every variable has its type, and the messages agree.
TextsAreSound == ChatTypeOK /\ TextsAgree
================================================================================
