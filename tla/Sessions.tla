-------------------------------- MODULE Sessions -------------------------------
(***************************************************************************)
(* Session tokens between the tabs of one browser and the server:          *)
(* backend/src/sessions.js, resume and logout of routes/auth.js, and       *)
(* session.js, api.js, socket.js and App.jsx of the frontend.              *)
(*                                                                         *)
(* A tab keeps its token in memory and, with the other tabs, one in        *)
(* localStorage.  HTTP calls are answered late, in any order, or not at    *)
(* all.  Landing.jsx starts a login as a guest, with a phone code, or from *)
(* Google's own button, which `loading' does not disable: a second login   *)
(* may start while one is going.  Suspensions and account deletion are in  *)
(* Moderation; cookie sessions, off by default, are left out.              *)
(***************************************************************************)
EXTENDS Naturals, FiniteSets

CONSTANTS
    Tabs, NoTab,
    Tokens,     \* bound: the tokens the server can still make up
    NoToken,
    MaxCalls    \* bound: calls on their way at once

ASSUME MaxCallsAssumption == MaxCalls \in Nat
ASSUME NoneAssumption == NoTab \notin Tabs /\ NoToken \notin Tokens

VARIABLES
    sessions,   \* token hashes in the table sessions
    issued,     \* every token made so far
    stored,     \* localStorage uc_token
    memory,     \* memoryToken of each tab
    phase,      \* the phase of App, or "closed"
    socket,     \* the token the tab's socket was admitted with; NoToken: none
    calls,      \* HTTP calls on their way, to the server or back
    crossed     \* history: tabs that started a login while another was going

client == <<stored, memory, phase, socket>>
vars == <<sessions, issued, client, calls, crossed>>

Logins == {"login", "google"}
Kinds == {"resume", "call", "logout"} \cup Logins
Maybe == Tokens \cup {NoToken}
\* `tab' is NoTab once nobody waits; `fresh' is the token in an answer.
Call == [tab : Tabs \cup {NoTab}, kind : Kinds, token : Maybe,
         reply : {"none", "ok", "unauthorized"}, fresh : Maybe]

TypeOK ==
    /\ sessions \subseteq issued /\ issued \subseteq Tokens
    /\ stored \in issued \cup {NoToken}
    /\ memory \in [Tabs -> issued \cup {NoToken}]
    /\ phase \in [Tabs -> {"closed", "boot", "landing", "app"}]
    /\ socket \in [Tabs -> Maybe]
    /\ calls \subseteq Call
    /\ crossed \subseteq Tabs

Init ==
    /\ sessions = {} /\ issued = {}
    /\ stored = NoToken
    /\ memory = [t \in Tabs |-> NoToken]
    /\ phase = [t \in Tabs |-> "closed"]
    /\ socket = [t \in Tabs |-> NoToken]
    /\ calls = {} /\ crossed = {}

GetToken(t) == IF memory[t] # NoToken THEN memory[t] ELSE stored

\* setToken(): the memory of this tab, the storage of all.
SetToken(t, token) ==
    /\ stored' = token
    /\ memory' = [memory EXCEPT ![t] = token]

Request(t, kind, token) ==
    [tab |-> t, kind |-> kind, token |-> token, reply |-> "none", fresh |-> NoToken]

Send(t, kind, token) ==
    /\ Cardinality(calls) < MaxCalls
    /\ calls' = calls \cup {Request(t, kind, token)}

Waiting(t, kind) == \E c \in calls : c.tab = t /\ c.kind = kind

\* The caller stops waiting for the calls cs.  What the server may still do
\* with them stays; an answer is lost.
Abandon(cs) ==
    calls' = (calls \ cs) \cup
        {[c EXCEPT !.tab = NoTab] : c \in {d \in cs : d.reply = "none" /\ d.kind # "call"}}

-----------------------------------------------------------------------------
(* The tab.                                                                *)

\* The page loads: with a stored token App resumes, otherwise it shows Landing.
Open(t) ==
    /\ phase[t] = "closed"
    /\ phase' = [phase EXCEPT ![t] = IF stored = NoToken THEN "landing" ELSE "boot"]
    /\ IF stored = NoToken THEN UNCHANGED calls ELSE Send(t, "resume", stored)
    /\ UNCHANGED <<sessions, issued, stored, memory, socket, crossed>>

\* Closed or reloaded: nobody waits for the answers any more.
Close(t) ==
    /\ phase[t] # "closed"
    /\ phase' = [phase EXCEPT ![t] = "closed"]
    /\ memory' = [memory EXCEPT ![t] = NoToken]
    /\ socket' = [socket EXCEPT ![t] = NoToken]
    /\ Abandon({c \in calls : c.tab = t})
    /\ crossed' = crossed \ {t}
    /\ UNCHANGED <<sessions, issued, stored>>

Start(t, kind) ==
    /\ phase[t] = "landing" /\ ~Waiting(t, kind)
    /\ Send(t, kind, NoToken)
    /\ crossed' = IF \E k \in Logins : Waiting(t, k) THEN crossed \cup {t} ELSE crossed
    /\ UNCHANGED <<sessions, issued, client>>

\* submit() for a guest and verifyCode(), one at a time; `loading' is false
\* again before a Google login is answered when a code is sent meanwhile.
Submit(t) == Start(t, "login")
VerifyCode(t) == Start(t, "login")
\* The callback of Google's button, and submit(); two of them in one tab are
\* left out.
GoogleCredential(t) == Start(t, "google")

\* Any call of a signed-in screen.
Use(t) ==
    /\ phase[t] = "app" /\ ~Waiting(t, "call")
    /\ Send(t, "call", GetToken(t))
    /\ UNCHANGED <<sessions, issued, client, crossed>>

\* Mutant: closeSocket() is forgotten.
HangUpNot(t) == UNCHANGED socket
HangUp(t) == socket' = [socket EXCEPT ![t] = NoToken]

\* logout(): setToken(null) clears localStorage, whoever wrote it.
LogOut(t) ==
    /\ SetToken(t, NoToken)
    /\ phase' = [phase EXCEPT ![t] = "landing"]
    /\ HangUp(t)

\* The button.  api() reads the token before it is cleared.
ClickLogout(t) ==
    /\ phase[t] = "app"
    /\ Send(t, "logout", GetToken(t))
    /\ LogOut(t)
    /\ UNCHANGED <<sessions, issued, crossed>>

\* api() told of a 401, whichever call and token it was about.
OnUnauthorized(t) == LogOut(t)

\* enter(): openSocket() returns the socket there is.
Enter(t, token) ==
    /\ SetToken(t, token)
    /\ phase' = [phase EXCEPT ![t] = "app"]
    /\ UNCHANGED socket

\* Mutant: the screen stays.
GiveUpBooting(t) ==
    /\ SetToken(t, NoToken)
    /\ UNCHANGED <<phase, socket>>
\* App.jsx:104, for whatever went wrong with resume.
GiveUp(t) ==
    /\ SetToken(t, NoToken)
    /\ phase' = [phase EXCEPT ![t] = "landing"]
    /\ UNCHANGED socket

\* The answer arrives.  A 401 logs the tab out, whatever token it was for; a
\* login enters even when Landing is no longer shown.
Answer(c) ==
    /\ c \in calls /\ c.tab # NoTab /\ c.reply # "none"
    /\ calls' = calls \ {c}
    /\ \/ c.reply = "ok" /\ c.kind \in {"resume"} \cup Logins /\ Enter(c.tab, c.fresh)
       \/ c.reply = "ok" /\ c.kind \in {"call", "logout"} /\ UNCHANGED client
       \/ c.reply = "unauthorized" /\ OnUnauthorized(c.tab)
    /\ UNCHANGED <<sessions, issued, crossed>>

\* A network error, or the 75 s of api() are over; the server may have the
\* call, or still get it.
Fail(c) ==
    /\ c \in calls /\ c.tab # NoTab
    /\ Abandon({c})
    /\ IF c.kind = "resume" THEN GiveUp(c.tab) ELSE UNCHANGED client
    /\ UNCHANGED <<sessions, issued, crossed>>

\* The socket connects, or reconnects, with the token of that moment.
Connect(t) ==
    /\ phase[t] = "app" /\ socket[t] = NoToken
    /\ \/ /\ GetToken(t) \in sessions
          /\ socket' = [socket EXCEPT ![t] = GetToken(t)]
          /\ UNCHANGED <<stored, memory, phase>>
       \/ GetToken(t) \notin sessions /\ LogOut(t)
    /\ UNCHANGED <<sessions, issued, calls, crossed>>

Disconnect(t) ==
    /\ socket[t] # NoToken
    /\ HangUp(t)
    /\ UNCHANGED <<sessions, issued, stored, memory, phase, calls, crossed>>

-----------------------------------------------------------------------------
(* The server.                                                             *)

Reply(c, reply, token) ==
    calls' = (calls \ {c}) \cup
        (IF c.tab = NoTab THEN {} ELSE {[c EXCEPT !.reply = reply, !.fresh = token]})

\* createSession()
Create(token) == token \in Tokens \ issued /\ issued' = issued \cup {token}

\* rotateSession()
Rotate(c) ==
    /\ c.token \in sessions
    /\ \E token \in Tokens :
          /\ Create(token)
          /\ sessions' = (sessions \ {c.token}) \cup {token}
          /\ Reply(c, "ok", token)

\* revokeSession()
Revoke(token) == sessions' = sessions \ {token}

Unauthorized(c) ==
    /\ c.token \notin sessions
    /\ Reply(c, "unauthorized", NoToken)
    /\ UNCHANGED <<sessions, issued>>

Handle(c) ==
    /\ c \in calls /\ c.reply = "none"
    /\ \/ c.kind = "resume" /\ (Rotate(c) \/ Unauthorized(c))
       \/ /\ c.kind \in Logins
          /\ \E token \in Tokens : /\ Create(token)
                                   /\ sessions' = sessions \cup {token}
                                   /\ Reply(c, "ok", token)
       \/ /\ c.kind = "call"
          /\ \/ /\ c.token \in sessions
                /\ Reply(c, "ok", NoToken)
                /\ UNCHANGED <<sessions, issued>>
             \/ Unauthorized(c)
       \/ /\ c.kind = "logout"
          /\ Revoke(c.token)
          /\ Reply(c, "ok", NoToken)
          /\ UNCHANGED issued
    /\ UNCHANGED <<client, crossed>>

\* Nobody waits for the call: it, or its answer, is gone.
Drop(c) ==
    /\ c \in calls /\ c.tab = NoTab
    /\ calls' = calls \ {c}
    /\ UNCHANGED <<sessions, issued, client, crossed>>

\* After seven days: found by validateSession().
Expire(token) ==
    /\ token \in sessions
    /\ Revoke(token)
    /\ UNCHANGED <<issued, client, calls, crossed>>

\* The hourly job, for all that are as old.
PurgeExpiredSessions(expired) ==
    /\ sessions' = sessions \ expired
    /\ UNCHANGED <<issued, client, calls, crossed>>

Next ==
    \/ \E t \in Tabs : \/ Open(t) \/ Close(t) \/ Use(t)
                       \/ Submit(t) \/ VerifyCode(t) \/ GoogleCredential(t)
                       \/ ClickLogout(t) \/ Connect(t) \/ Disconnect(t)
    \/ \E c \in calls : Answer(c) \/ Fail(c) \/ Handle(c) \/ Drop(c)
    \/ \E token \in Tokens : Expire(token)
    \/ \E expired \in SUBSET sessions : PurgeExpiredSessions(expired)

\* A call of api() is answered or aborted by its timer.
ResumeEnds(t) == \E c \in calls : c.tab = t /\ c.kind = "resume" /\ (Answer(c) \/ Fail(c))
Fairness == \A t \in Tabs : WF_vars(ResumeEnds(t))

Spec == Init /\ [][Next]_vars
FairSpec == Spec /\ Fairness

-----------------------------------------------------------------------------
(* Properties.                                                             *)

\* Tokens are "rotated on every resume" (DECISIONS.md:13): however many tabs
\* resume the same stored token, and however late they hear of it, no two
\* tabs ever hold the same one.
TokensAreNotShared ==
    /\ \A t, u \in Tabs : memory[t] = memory[u] /\ memory[t] # NoToken => t = u
    /\ \A t \in Tabs, c \in calls : c.fresh # NoToken => c.fresh # memory[t]

\* "One socket per signed-in session, created only after login" (socket.js:6),
\* and kept by the module: after a logout and a login in the same tab it must
\* not still be the old one, or the tab would chat as somebody else.  It is,
\* and the tab does, only where two logins of one tab crossed.
SocketIsOwn ==
    \A t \in Tabs \ crossed : socket[t] # NoToken => socket[t] = memory[t]

\* What an answer carries: a token nobody else was given.
Answers ==
    /\ \A c \in calls :
          /\ c.fresh \in issued \cup {NoToken}
          /\ c.reply = "none" => c.fresh = NoToken
          /\ c.reply = "ok" /\ c.kind \in {"resume"} \cup Logins => c.fresh # NoToken
    /\ \A c, d \in calls : c.fresh = d.fresh /\ c.fresh # NoToken => c = d

\* A tab waits for one call that can let it in, and only while it is outside,
\* unless its logins crossed.
Entering ==
    \A c \in calls : c.tab # NoTab =>
        /\ phase[c.tab] # "closed"
        /\ c.kind = "resume" <=> phase[c.tab] = "boot"
        /\ c.kind \in Logins /\ c.tab \notin crossed => phase[c.tab] = "landing"
        /\ c.kind = "resume" \/ (c.kind \in Logins /\ c.tab \notin crossed) =>
              \A d \in calls : d.tab = c.tab /\ d.kind \in {"resume"} \cup Logins => c = d

\* Inside, a tab has a token; outside, it has no socket.
Inside ==
    \A t \in Tabs : IF phase[t] = "app" THEN memory[t] # NoToken ELSE socket[t] = NoToken

\* Whatever tabs resume, log in and out, and however late they hear of it:
\* every token has one owner, and the socket is always the signed-in user's own.
TokensAreInOrder == TypeOK /\ Answers /\ Entering /\ Inside /\ TokensAreNotShared /\ SocketIsOwn

\* Nobody looks at the boot screen for ever.
BootEnds == \A t \in Tabs : phase[t] = "boot" ~> phase[t] # "boot"

===============================================================================
