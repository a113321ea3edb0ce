------------------------------ MODULE VideoCall ------------------------------
(***************************************************************************)
(* Video in one room: the two tabs (useVideo.js over rtc.js and media.js,  *)
(* and the buttons of Chat, Composer and VideoPanel) and the handlers that *)
(* start, end and relay a call (realtime/index.js), over connections that  *)
(* keep the order of their messages and may break.                         *)
(*                                                                         *)
(* Starting a call waits for the camera, then for the peer connection, and *)
(* anything may happen meanwhile; so a tab may have several starts going.  *)
(* A call has a number here, which the code's messages do not carry: what  *)
(* is written `call' in a message, a stream, a peer connection or a signal *)
(* is history.  Signals are an offer and an answer; candidates, bitrate,   *)
(* mute and the fall-back to voice are left out.                           *)
(***************************************************************************)
EXTENDS Integers, Sequences, FiniteSets

CONSTANTS
    Users,       \* the two members of the room
    None,
    MaxRequests, \* bound: clicks on the camera button
    MaxUpsets    \* bound: connections lost, starts failed, the room skipped or timed out

\* A room has two members; the bounds are numbers.
ASSUME TwoMembers == (\E u, v \in Users : u # v /\ Users = {u, v}) /\ None \notin Users
ASSUME BoundsAreNumbers == MaxRequests \in Nat /\ MaxUpsets \in Nat

VARIABLES
    open, locked,   \* the room is open; video is locked in it
    live,           \* members whose seat is on the socket they have
    req, call,      \* room.videoReq; the number of the call that is on, or 0
    linked,         \* tabs with a connection
    up, down,       \* calls and events on their way
    tab,            \* the state of useVideo
    starts,         \* runs of start() that have not ended
    lit,            \* streams whose camera and microphone are on
    \* ------ histories and bounds
    calls,          \* calls started
    marred,         \* members to whom the end of a call went astray, and tabs that
                    \* cleaned up while a start was going
    credit,         \* requests and acceptances of a user, less the starts
    requests, upsets

server == <<open, locked, live, req, call, calls>>
net == <<linked, up, down>>
tabs == <<tab, starts, lit>>
bounds == <<requests, upsets>>
vars == <<server, net, tabs, marred, credit, bounds>>

Partner(u) == CHOOSE v \in Users : v # u
Calls == 1..MaxRequests
Msg == [m : {"request", "accept", "reject", "end", "offer", "answer", "skip", "rejoin",
             "asked", "gone", "initiate", "start", "left"}, call : 0..MaxRequests]
M(m) == [m |-> m, call |-> 0]
Signals == {s \in Msg : s.m \in {"offer", "answer"}}

Tab == [chat : {"on", "off"}, state : {"idle", "requesting", "active"}, incoming : {"yes", "no"},
        explain : {"none", "request", "accept"}, explained : {"yes", "no"},
        media : 0..MaxRequests, pc : 0..MaxRequests, heard : {"yes", "no"}, pending : Seq(Signals)]
Start == [call : Calls, role : {"initiate", "start"}, stage : {"media", "setup"}]

Fresh == [chat |-> "on", state |-> "idle", incoming |-> "no", explain |-> "none",
          explained |-> "no", media |-> 0, pc |-> 0, heard |-> "no", pending |-> <<>>]

Init ==
    /\ open = "yes" /\ locked \in {"yes", "no"} /\ live = Users
    /\ req = None /\ call = 0 /\ calls = 0
    /\ linked = Users
    /\ up = [u \in Users |-> <<>>] /\ down = [u \in Users |-> <<>>]
    /\ tab = [u \in Users |-> Fresh]
    /\ starts = [u \in Users |-> {}] /\ lit = [u \in Users |-> {}]
    /\ marred = {} /\ credit = [u \in Users |-> 0] /\ requests = 0 /\ upsets = 0

-----------------------------------------------------------------------------
(* The server                                                              *)

\* rooms.send() to each member, then the answer to the caller.
Tell(msgs) == down' = [v \in Users |-> IF v \in live THEN down[v] \o msgs[v] ELSE down[v]]
ToPartner(u, m) == [v \in Users |-> IF v = u THEN <<>> ELSE <<m>>]
ToNobody == [v \in Users |-> <<>>]

VideoRequest(u) ==
    IF locked = "yes" \/ call # 0
    THEN Tell(ToNobody) /\ UNCHANGED server
    ELSE /\ req' = u
         /\ Tell([ToPartner(u, M("request")) EXCEPT ![u] = <<M("asked")>>])
         /\ UNCHANGED <<open, locked, live, call, calls>>

VideoAccept(u) ==
    IF req # Partner(u) THEN Tell(ToNobody) /\ UNCHANGED server
    ELSE /\ req' = None /\ call' = calls + 1 /\ calls' = calls + 1
         /\ Tell([v \in Users |-> <<[m |-> IF v = u THEN "start" ELSE "initiate", call |-> call']>>])
         /\ UNCHANGED <<open, locked, live>>

VideoReject(u) ==
    IF req # Partner(u) THEN Tell(ToNobody) /\ UNCHANGED server
    ELSE /\ req' = None
         /\ Tell(ToPartner(u, M("reject")))
         /\ UNCHANGED <<open, locked, live, call, calls>>

VideoEnd(u) ==
    /\ call' = 0
    /\ Tell(IF call # 0 THEN ToPartner(u, M("end")) ELSE ToNobody)
    /\ UNCHANGED <<open, locked, live, req, calls>>

RtcSignal(u, signal) ==
    /\ Tell(IF call # 0 THEN ToPartner(u, signal) ELSE ToNobody)
    /\ UNCHANGED server

\* close() by u, or by a timer (None): who is left is told.
Close(u) ==
    /\ open' = "no" /\ live' = {} /\ call' = 0 /\ req' = None
    /\ Tell([v \in Users |-> IF v = u THEN <<>> ELSE <<M("left")>>])
    /\ UNCHANGED <<locked, calls>>

\* Mutant: a call that is on is started again.
RejoinResumes(u) ==
    IF open = "no" THEN down' = [down EXCEPT ![u] = Append(@, M("gone"))] /\ UNCHANGED server
    ELSE /\ live' = live \cup {u}
         /\ down' = [v \in Users |-> IF v \in live' /\ call # 0
               THEN Append(down[v], [m |-> IF v = u THEN "start" ELSE "initiate", call |-> call])
               ELSE down[v]]
         /\ UNCHANGED <<open, locked, req, call, calls>>
\* rejoin: the seat moves to the new socket, and a call that is on ends.
Rejoin(u) ==
    IF open = "no" THEN down' = [down EXCEPT ![u] = Append(@, M("gone"))] /\ UNCHANGED server
    ELSE /\ live' = live \cup {u}
         /\ call' = 0
         /\ down' = [v \in Users |->
               IF v \in live' /\ call # 0 THEN Append(down[v], M("end")) ELSE down[v]]
         /\ UNCHANGED <<open, locked, req, calls>>

\* Who is not told that the call ends here: members who are away, and who sent
\* the end of an earlier call that now ends this one.
EndAstray(u, msg) ==
    IF call = 0 \/ call' # 0 THEN {}
    ELSE (Users \ (live \cup {u})) \cup (IF msg.m = "end" /\ msg.call # call THEN {u} ELSE {})

Handle(u) ==
    /\ up[u] # <<>>
    /\ LET msg == Head(up[u]) IN
       IF msg.m = "rejoin" THEN Rejoin(u)
       ELSE IF open = "no" \/ u \notin live THEN Tell(ToNobody) /\ UNCHANGED server
       ELSE \/ msg.m = "request" /\ VideoRequest(u)
            \/ msg.m = "accept" /\ VideoAccept(u)
            \/ msg.m = "reject" /\ VideoReject(u)
            \/ msg.m = "end" /\ VideoEnd(u)
            \/ msg \in Signals /\ RtcSignal(u, msg)
            \/ msg.m = "skip" /\ Close(u)
    /\ up' = [up EXCEPT ![u] = Tail(@)]
    /\ marred' = marred \cup EndAstray(u, Head(up[u]))
    /\ UNCHANGED <<linked, tabs, credit, bounds>>

\* The ten minutes, or the grace period of a member who is away.
RoomEnds ==
    /\ open = "yes"
    /\ \/ upsets < MaxUpsets /\ upsets' = upsets + 1 /\ Close(None)
       \/ UNCHANGED upsets /\ \E u \in Users \ live : Close(u)
    /\ UNCHANGED <<linked, up, tabs, marred, credit, requests>>

-----------------------------------------------------------------------------
(* The connection                                                          *)

\* What is said offline waits in front of the rejoin and is refused there, for
\* want of a seat: it is dropped at once here.
Sends(u, msgs) == up' = [up EXCEPT ![u] = IF u \in linked THEN @ \o msgs ELSE @]

Break(u) ==
    /\ u \in linked /\ upsets < MaxUpsets
    /\ upsets' = upsets + 1
    /\ linked' = linked \ {u} /\ live' = live \ {u}
    /\ up' = [up EXCEPT ![u] = <<>>] /\ down' = [down EXCEPT ![u] = <<>>]
    /\ marred' = IF M("end") \in {down[u][i] : i \in DOMAIN down[u]} THEN marred \cup {u} ELSE marred
    /\ UNCHANGED <<open, locked, req, call, calls, tabs, credit, requests>>

Reconnect(u) ==
    /\ u \notin linked
    /\ linked' = linked \cup {u}
    /\ up' = [up EXCEPT ![u] = IF tab[u].chat = "on" THEN <<M("rejoin")>> ELSE <<>>]
    /\ UNCHANGED <<server, down, tabs, marred, credit, bounds>>

-----------------------------------------------------------------------------
(* The tab                                                                 *)

\* Mutant: the stream is not stopped.
CleanupLit(u, t) ==
    /\ tab' = [tab EXCEPT ![u] = [t EXCEPT !.media = 0, !.pc = 0, !.heard = "no", !.pending = <<>>, !.state = "idle"]]
    /\ marred' = IF starts'[u] = {} THEN marred ELSE marred \cup {u}
    /\ lit' = [lit EXCEPT ![u] = @ \ {t.pc}]
\* cleanup(): the peer connection and the stream the refs hold are closed.
Cleanup(u, t) ==
    /\ tab' = [tab EXCEPT ![u] = [t EXCEPT !.media = 0, !.pc = 0, !.heard = "no", !.pending = <<>>, !.state = "idle"]]
    /\ marred' = IF starts'[u] = {} THEN marred ELSE marred \cup {u}
    /\ lit' = [lit EXCEPT ![u] = @ \ {t.pc, t.media}]

\* request() and respond(true) first explain the permission, once per device.
Ask(u) ==
    /\ Sends(u, <<M("request")>>)
    /\ credit' = [credit EXCEPT ![u] = @ + 1]
Accept(u) ==
    /\ Sends(u, <<M("accept")>>)
    /\ credit' = [credit EXCEPT ![u] = @ + 1]

\* What the chat shows: the camera button when no call is on or asked for, the
\* question of the partner unless a call is on, the explainer, the panel of a call.
CameraButton(u) == tab[u].chat = "on" /\ tab[u].state = "idle"
IncomingModal(u) == tab[u].chat = "on" /\ tab[u].incoming = "yes" /\ tab[u].state # "active"
ExplainModal(u) == tab[u].chat = "on" /\ tab[u].explain # "none"
CallPanel(u) == tab[u].chat = "on" /\ tab[u].state = "active"

ClickRequest(u) ==
    /\ CameraButton(u) /\ requests < MaxRequests
    /\ requests' = requests + 1
    /\ IF tab[u].explained = "yes" THEN Ask(u) /\ UNCHANGED tab
       ELSE tab' = [tab EXCEPT ![u].explain = "request"] /\ UNCHANGED <<up, credit>>
    /\ UNCHANGED <<server, linked, down, starts, lit, marred, upsets>>

ClickRespond(u, accept) ==
    /\ IncomingModal(u)
    /\ IF accept /\ tab[u].explained = "no"
       THEN /\ tab' = [tab EXCEPT ![u].incoming = "no", ![u].explain = "accept"]
            /\ UNCHANGED <<up, credit>>
       ELSE /\ tab' = [tab EXCEPT ![u].incoming = "no"]
            /\ IF accept THEN Accept(u) ELSE Sends(u, <<M("reject")>>) /\ UNCHANGED credit
    /\ UNCHANGED <<server, linked, down, starts, lit, marred, bounds>>

Confirm(u) ==
    /\ ExplainModal(u)
    /\ tab' = [tab EXCEPT ![u].explain = "none", ![u].explained = "yes"]
    /\ IF tab[u].explain = "request" THEN Ask(u) ELSE Accept(u)
    /\ UNCHANGED <<server, linked, down, starts, lit, marred, bounds>>

\* Who waits for the answer is not told.
CancelExplainer(u) ==
    /\ ExplainModal(u)
    /\ tab' = [tab EXCEPT ![u].explain = "none"]
    /\ UNCHANGED <<server, net, starts, lit, marred, credit, bounds>>

ClickEnd(u) ==
    /\ CallPanel(u)
    /\ UNCHANGED starts
    /\ Cleanup(u, tab[u])
    /\ Sends(u, <<[m |-> "end", call |-> tab[u].media]>>)
    /\ UNCHANGED <<server, linked, down, credit, bounds>>

\* onEnded(): the chat unmounts.
Leave(u) == Cleanup(u, [tab[u] EXCEPT !.chat = "off", !.incoming = "no", !.explain = "none"])

ClickSkip(u) ==
    /\ tab[u].chat = "on" /\ upsets < MaxUpsets
    /\ upsets' = upsets + 1
    /\ UNCHANGED starts
    /\ Leave(u)
    /\ Sends(u, <<M("skip")>>)
    /\ UNCHANGED <<server, linked, down, credit, requests>>

\* start(): getMedia() answers.
MediaReady(u) == \E s \in starts[u] :
    /\ s.stage = "media"
    /\ starts' = [starts EXCEPT ![u] = (@ \ {s}) \cup {[s EXCEPT !.stage = "setup"]}]
    /\ lit' = [lit EXCEPT ![u] = @ \cup {s.call}]
    /\ tab' = [tab EXCEPT ![u].media = s.call,
                          ![u].state = IF tab[u].chat = "on" THEN "active" ELSE @]
    /\ UNCHANGED <<server, net, marred, credit, bounds>>

\* handleSignal() of the peer connection of call c: an offer is answered.
Hears(c, signals) == IF \E i \in DOMAIN signals : signals[i].call = c THEN "yes" ELSE "no"
Answers(c, signals) ==
    [i \in 1..Cardinality({j \in DOMAIN signals : signals[j].m = "offer"}) |->
        [m |-> "answer", call |-> c]]

\* createCall(): an initiator's first signal is its offer.
Offers(s) == IF s.role = "initiate" THEN <<[m |-> "offer", call |-> s.call]>> ELSE <<>>

\* Mutant: what came before the peer connection was there is forgotten.
CallReadyForgets(u) == \E s \in starts[u] :
    /\ s.stage = "setup"
    /\ starts' = [starts EXCEPT ![u] = @ \ {s}]
    /\ tab' = [tab EXCEPT ![u].pc = s.call, ![u].pending = <<>>, ![u].heard = "no"]
    /\ Sends(u, Offers(s))
    /\ UNCHANGED <<server, linked, down, lit, marred, credit, bounds>>
\* createCall() has answered; start() hands it what came before.
CallReady(u) == \E s \in starts[u] :
    /\ s.stage = "setup"
    /\ starts' = [starts EXCEPT ![u] = @ \ {s}]
    /\ tab' = [tab EXCEPT ![u].pc = s.call, ![u].pending = <<>>, ![u].heard = Hears(s.call, tab[u].pending)]
    /\ Sends(u, Offers(s) \o Answers(s.call, tab[u].pending))
    /\ UNCHANGED <<server, linked, down, lit, marred, credit, bounds>>

\* Either fails: no permission, no device, no connection.
StartFails(u) == \E s \in starts[u] :
    /\ upsets < MaxUpsets /\ upsets' = upsets + 1
    /\ starts' = [starts EXCEPT ![u] = @ \ {s}]
    /\ Cleanup(u, tab[u])
    /\ Sends(u, <<[m |-> "end", call |-> s.call]>>)
    /\ UNCHANGED <<server, linked, down, credit, requests>>

\* An event, or the answer to a request or a rejoin, reaches the tab.
Deliver(u) ==
    /\ down[u] # <<>>
    /\ down' = [down EXCEPT ![u] = IF tab[u].chat = "on" THEN Tail(@) ELSE <<>>]
    /\ LET msg == Head(down[u])
           on == tab[u].chat = "on"
           Shows(t) == tab' = [tab EXCEPT ![u] = t] /\ UNCHANGED <<starts, lit, marred, credit, up>>
       IN \/ ~on /\ Shows(tab[u])
          \/ on /\ msg.m = "request" /\ Shows([tab[u] EXCEPT !.incoming = "yes"])
          \/ on /\ msg.m = "asked" /\ Shows([tab[u] EXCEPT !.state = "requesting"])
          \/ on /\ msg.m = "reject" /\ Shows([tab[u] EXCEPT !.state = "idle"])
          \/ /\ on /\ msg.m \in {"initiate", "start"}
             /\ starts' = [starts EXCEPT ![u] = @ \cup {[call |-> msg.call, role |-> msg.m, stage |-> "media"]}]
             /\ credit' = [credit EXCEPT ![u] = @ - 1]
             /\ UNCHANGED <<tab, lit, marred, up>>
          \/ /\ on /\ msg.m = "end"
             /\ UNCHANGED starts /\ Cleanup(u, tab[u])
             /\ UNCHANGED <<credit, up>>
          \/ /\ on /\ msg.m \in {"left", "gone"}
             /\ UNCHANGED starts /\ Leave(u)
             /\ UNCHANGED <<credit, up>>
          \/ /\ on /\ msg \in Signals /\ tab[u].pc = 0
             /\ Shows([tab[u] EXCEPT !.pending = Append(@, msg)])
          \/ /\ on /\ msg \in Signals /\ tab[u].pc # 0
             /\ tab' = [tab EXCEPT ![u].heard = IF msg.call = tab[u].pc THEN "yes" ELSE @]
             /\ Sends(u, Answers(tab[u].pc, <<msg>>))
             /\ UNCHANGED <<starts, lit, marred, credit>>
    /\ UNCHANGED <<server, linked, bounds>>

Next ==
    \/ \E u \in Users :
         \/ ClickRequest(u) \/ ClickRespond(u, TRUE) \/ ClickRespond(u, FALSE)
         \/ Confirm(u) \/ CancelExplainer(u) \/ ClickEnd(u) \/ ClickSkip(u)
         \/ MediaReady(u) \/ CallReady(u) \/ StartFails(u)
         \/ Deliver(u) \/ Handle(u) \/ Break(u) \/ Reconnect(u)
    \/ RoomEnds

Spec == Init /\ [][Next]_vars

-----------------------------------------------------------------------------
\* Every variable has its type.
TypeOK ==
    /\ open \in {"yes", "no"} /\ locked \in {"yes", "no"}
    /\ live \subseteq linked /\ linked \subseteq Users
    /\ req \in Users \cup {None} /\ call \in {0, calls} /\ calls \in 0..MaxRequests
    /\ up \in [Users -> Seq(Msg)] /\ down \in [Users -> Seq(Msg)]
    /\ tab \in [Users -> Tab] /\ starts \in [Users -> SUBSET Start]
    /\ lit \in [Users -> SUBSET Calls] /\ marred \subseteq Users
    /\ credit \in [Users -> Int] /\ requests \in 0..MaxRequests /\ upsets \in 0..MaxUpsets

\* Nothing is on its way between the tabs and the server, and nothing starts.
Quiet == \A u \in Users : u \in linked /\ up[u] = <<>> /\ down[u] = <<>> /\ starts[u] = {}

\* en.js:207, "Your camera and mic turn on if you accept": each start of the
\* camera is paid for by a request or an acceptance of that user's own, which
\* no other start has used, however requests, answers and ends cross.
StartsArePaid == \A u \in Users : credit[u] >= 0

\* Every variable has its type, and every start is paid for.
CameraNeedsConsent == TypeOK /\ StartsArePaid

\* When all is quiet, a camera that is on belongs to the call the server has.
\* It stays on otherwise only in a tab that cleaned up while a start of its own
\* was going (useVideo.js:38,45), or that the end of a call never reached: its
\* member was away or the end was lost with the connection (index.js:395), or it
\* came from an end meant for an earlier call.  No order of answers, ends,
\* failures and rejoins adds to these.
OnlyOvertakenStay ==
    Quiet => \A u \in Users \ marred : lit[u] \subseteq {call}

\* When all is quiet and both are there, a call the server has is on in both
\* tabs: each has the peer connection of this call, which was given the other's
\* offer or answer, and a tab shows a call only when there is one
\* (index.js:272, useVideo.js:54).
CallIsShared ==
    (Quiet /\ open = "yes" /\ live = Users /\ marred = {}) =>
        \A u \in Users :
            /\ tab[u].state = "active" <=> call # 0
            /\ call # 0 =>
                 /\ tab[u].media = call /\ tab[u].pc = call
                 /\ tab[u].heard = "yes"

==============================================================================
