------------------------------ MODULE Moderation ------------------------------
(***************************************************************************)
(* Reports, suspensions and accounts: backend/src/moderation.js, the ban   *)
(* and delete functions of users.js, and the handlers that call them in    *)
(* realtime/index.js, routes/auth.js and admin/routes.js.                  *)
(*                                                                         *)
(* Time is counted in hours: what is left of a suspension, and the age of  *)
(* a report up to autoban_window_hours.  Chats appear only as who may      *)
(* still report whom.  An account is told by its e-mail address, as it is  *)
(* in every table: after a deletion Google brings the same person back     *)
(* under the same address, while a guest or a phone draws a new one.       *)
(***************************************************************************)
EXTENDS Integers, FiniteSets

CONSTANTS
    Accounts, Devices,
    NoDevice,       \* device_hash is NULL
    Threshold,      \* autoban_reports of the environment
    Thresholds,     \* bound: what an admin sets it to; 0 switches the rule off
    Window,         \* autoban_window_hours
    AutoHours,      \* autoban_hours
    Timeouts,       \* hours of a `timeout'
    Forever,        \* a `ban' of ten years, which no run outlives
    Meetings,       \* bound: the pairs of accounts that meet
    Returning,      \* bound: addresses that register again after a deletion
    MaxLives,       \* bound: how often one of those registers
    Moderated       \* bound: the accounts an admin acts on

ASSUME DeviceAssumption == NoDevice \notin Devices
ASSUME HoursAssumption ==
    /\ Threshold \in Nat /\ Thresholds \subseteq Int /\ Window \in Nat \ {0} /\ Forever \in Nat
    /\ AutoHours \in 1..(Forever - 1) /\ Timeouts \subseteq 1..(Forever - 1)
ASSUME BoundAssumption ==
    /\ Meetings \subseteq {m \in SUBSET Accounts : \E r, a \in m : r # a /\ m = {r, a}}
    /\ Moderated \subseteq Accounts /\ MaxLives \in Nat \ {0}

VARIABLES
    status,     \* account -> "live": in table users, or "none": not (any more)
    lives,      \* account -> how often the address was registered
    device,     \* users.device_hash
    threshold,  \* autoban_reports in force
    left,       \* hours left of banned_until
    deviceLeft, \* hours left of the row in device_bans
    online,     \* accounts with a connected socket
    met,        \* <<r, a>>: r is in a room with a, or was in its last one
    reports,    \* <<<<r, n>>, a>> -> age of the newest report about a of r in its
                \* n-th life, or Window; r is a marker in all lives but the last
    blocks,     \* the table blocks
    complained, \* history: the pairs {r, a} with a report, while both keep
                \* the account they had then
    acted       \* whom the admin acted on, or who was deleted, in this step

bans == <<left, deviceLeft>>
moderationVars == <<status, lives, device, threshold, bans, online, met, reports, blocks, complained, acted>>

Both == Accounts \X Accounts
Filed == (Accounts \X (0..MaxLives)) \X Accounts
Live == {a \in Accounts : status[a] = "live"}

ModerationTypeOK ==
    /\ status \in [Accounts -> {"none", "live"}]
    /\ lives \in [Accounts -> 0..MaxLives]
    /\ device \in [Accounts -> Devices \cup {NoDevice}]
    /\ threshold \in Thresholds \cup {Threshold}
    /\ left \in [Accounts -> 0..Forever]
    /\ deviceLeft \in [Devices -> 0..Forever]
    /\ online \subseteq Live
    /\ met \subseteq Both
    /\ reports \in [Filed -> 0..Window]
    /\ blocks \subseteq Both
    /\ complained \subseteq SUBSET Accounts
    /\ acted \subseteq Accounts

ModerationInit ==
    /\ status = [a \in Accounts |-> "none"]
    /\ lives = [a \in Accounts |-> 0]
    /\ device = [a \in Accounts |-> NoDevice]
    /\ threshold = Threshold
    /\ left = [a \in Accounts |-> 0]
    /\ deviceLeft = [d \in Devices |-> 0]
    /\ online = {} /\ met = {}
    /\ reports = [p \in Filed |-> Window]
    /\ blocks = {} /\ complained = {} /\ acted = {}

\* deviceBanned() and banState()
DeviceBanned(d) == d \in Devices /\ deviceLeft[d] > 0
Banned(a) == left[a] > 0 \/ DeviceBanned(device[a])

-----------------------------------------------------------------------------
(* Accounts and connections.                                               *)

\* How often an address may register here.
LivesOf(a) == IF a \in Returning THEN MaxLives ELSE 1

\* An address that has no account gets one: its row of users is a new one, what
\* other tables say of the address is still true of it.
SignUp(a, d) ==
    /\ status[a] = "none"
    /\ lives[a] < LivesOf(a)
    /\ ~DeviceBanned(d)
    /\ lives' = [lives EXCEPT ![a] = @ + 1]
    /\ status' = [status EXCEPT ![a] = "live"]
    /\ device' = [device EXCEPT ![a] = d]
    /\ acted' = {}
    /\ UNCHANGED <<threshold, bans, online, met, reports, blocks, complained>>

\* A later login stores the device it comes from, even when the account turns out
\* to be suspended; one without a device id leaves it alone.
Login(a, d) ==
    /\ status[a] = "live"
    /\ d # NoDevice
    /\ device' = [device EXCEPT ![a] = d]
    /\ acted' = {}
    /\ UNCHANGED <<threshold, status, lives, bans, online, met, reports, blocks, complained>>

\* POST /guest and POST /otp/verify draw an address that nobody had before.
Register(a, d) == lives[a] = 0 /\ SignUp(a, d)

\* POST /google and POST /otp/verify register who has no account, from a device
\* that is not banned, and log in who has one, from any.  Who deleted a Google
\* account has none, and is back under the address of old.
Google(a, d) == SignUp(a, d) \/ Login(a, d)
VerifyOtp(a, d) == Register(a, d) \/ Login(a, d)

\* authenticate()
Admitted(a) == status[a] = "live" /\ ~Banned(a)

Connect(a) ==
    /\ Admitted(a)
    /\ online' = online \cup {a}
    /\ acted' = {}
    /\ UNCHANGED <<threshold, status, lives, device, bans, met, reports, blocks, complained>>

Disconnect(a) ==
    /\ a \in online
    /\ online' = online \ {a}
    /\ acted' = {}
    /\ UNCHANGED <<threshold, status, lives, device, bans, met, reports, blocks, complained>>

Apart(r, a) == <<r, a>> \in blocks \/ <<a, r>> \in blocks

\* canPair() of the queue; direct rooms are for friends, who met like this.
Pair(r, a) ==
    /\ {r, a} \in Meetings
    /\ {r, a} \subseteq online
    /\ ~Banned(r) /\ ~Banned(a) /\ ~Apart(r, a)
    /\ met' = met \cup {<<r, a>>, <<a, r>>}
    /\ acted' = {}
    /\ UNCHANGED <<threshold, status, lives, device, bans, online, reports, blocks, complained>>

\* The rows of blocks that deleteUser() removes.
Erase(a) == blocks' = {b \in blocks : a \notin {b[1], b[2]}}

\* requireAuth(), for who has a session.
Authorised(a, allowBanned) == status[a] = "live" /\ (allowBanned \/ ~Banned(a))

\* DELETE /api/me, open to suspended accounts, and the admin's delete, open to
\* the admin.  What a reported keeps counting under a marker, as one reporter
\* more if a comes back; what was reported about a counts no more.
Delete(a) ==
    /\ Authorised(a, TRUE)
    /\ status' = [status EXCEPT ![a] = "none"]
    /\ device' = [device EXCEPT ![a] = NoDevice]
    /\ left' = [left EXCEPT ![a] = 0]
    /\ online' = online \ {a}
    /\ Erase(a)
    /\ reports' = [p \in Filed |-> IF p[2] = a THEN Window ELSE reports[p]]
    /\ complained' = {p \in complained : a \notin p}
    /\ acted' = {a}
    /\ UNCHANGED <<threshold, lives, deviceLeft, met>>

-----------------------------------------------------------------------------
(* Suspensions.                                                            *)

\* setBan(), for n hours; 0 lifts the suspension.  The ban of the device is
\* the same row for every account that uses it.
SetBan(a, n) ==
    /\ left' = [left EXCEPT ![a] = n]
    /\ deviceLeft' = IF device[a] = NoDevice THEN deviceLeft
                     ELSE [deviceLeft EXCEPT ![device[a]] = n]

\* Mutant: the sockets of a suspended account stay.
KickNobody(a) == UNCHANGED online
\* kickUser()
Kick(a) == online' = online \ {a}

\* applyBanAction(), from the user's page or from a report.
Suspend(a, n) ==
    /\ a \in Moderated /\ status[a] = "live"
    /\ SetBan(a, n)
    /\ Kick(a)
    /\ acted' = {a}
    /\ UNCHANGED <<threshold, status, lives, device, met, reports, blocks, complained>>

Unban(a) ==
    /\ a \in Moderated /\ status[a] = "live"
    /\ SetBan(a, 0)
    /\ acted' = {a}
    /\ UNCHANGED <<threshold, status, lives, device, online, met, reports, blocks, complained>>

-----------------------------------------------------------------------------
(* Reports.                                                                *)

\* setSetting() takes no other number.
Accepts(n) == n \in 0..10000

\* POST /admin/settings.  Reports filed so far are counted against the new
\* threshold when the next one comes.
SetThreshold(n) ==
    /\ Accepts(n)
    /\ threshold' = n
    /\ acted' = {}
    /\ UNCHANGED <<status, lives, device, bans, online, met, reports, blocks, complained>>

\* Distinct reporters, markers among them.
Reporters(a) == {r \in Accounts \X (0..MaxLives) : reports'[<<r, a>>] < Window}

\* Mutant: a running suspension is not looked at.
DueAlways(a) == threshold # 0 /\ Cardinality(Reporters(a)) >= threshold /\ status[a] = "live"
\* applyAutoBan(): enough distinct reporters, and no suspension running.
Due(a) ==
    /\ threshold # 0
    /\ Cardinality(Reporters(a)) >= threshold
    /\ status[a] = "live"
    /\ left[a] = 0

\* Mutant: the pair is not blocked.
BlockNot(r, a) == blocks' = blocks
BlockPair(r, a) == blocks' = blocks \cup {<<r, a>>}

\* The handler of `report': fileReport() and, when that suspends the account,
\* kickUser().  The room is closed and lastRoom emptied; the reported one
\* still has theirs.
FileReport(r, a) ==
    /\ r \in online
    /\ <<r, a>> \in met
    /\ met' = met \ {<<r, a>>}
    /\ reports' = [reports EXCEPT ![<<<<r, lives[r]>>, a>>] = 0]
    /\ complained' = complained \cup {{r, a}}
    /\ BlockPair(r, a)
    /\ IF Due(a) THEN SetBan(a, AutoHours) /\ Kick(a)
                 ELSE UNCHANGED <<bans, online>>
    /\ acted' = {}
    /\ UNCHANGED <<threshold, status, lives, device>>

Less(n) == IF n \in {0, Forever} THEN n ELSE n - 1

\* An hour passes.  Of the chats only those still going on are left.
Tick ==
    /\ left' = [a \in Accounts |-> Less(left[a])]
    /\ deviceLeft' = [d \in Devices |-> Less(deviceLeft[d])]
    /\ reports' = [p \in Filed |-> IF reports[p] < Window THEN reports[p] + 1 ELSE Window]
    /\ met' = {m \in met : <<m[2], m[1]>> \in met /\ {m[1], m[2]} \subseteq online}
    /\ acted' = {}
    /\ UNCHANGED <<threshold, status, lives, device, online, blocks, complained>>

ModerationNext ==
    \/ \E a \in Accounts :
          \/ \E d \in Devices \cup {NoDevice} : Register(a, d) \/ Google(a, d) \/ VerifyOtp(a, d)
          \/ Connect(a) \/ Disconnect(a) \/ Delete(a) \/ Unban(a)
          \/ \E n \in Timeouts \cup {Forever} : Suspend(a, n)
          \/ \E r \in Accounts : Pair(r, a) \/ FileReport(r, a)
    \/ \E n \in Thresholds : SetThreshold(n)
    \/ Tick

ModerationSpec == ModerationInit /\ [][ModerationNext]_moderationVars

-----------------------------------------------------------------------------
(* Properties.                                                             *)

\* "Unauthenticated or banned sockets never connect" (index.js:50), and those
\* connected when the suspension comes are cut: nobody suspended is in a chat
\* or in the queue.
SuspendedAreOut == \A a \in online : left[a] = 0

\* A pair with a report is kept apart by a row in blocks, until one of the two
\* deletes the account, which takes the row along.
ReportedAreBlocked ==
    \A r, a \in Accounts : {r, a} \in complained => Apart(r, a)

\* Together, with the types, they are inductive: suspensions and blocks hold
\* whatever order reports, admins, logins and deletions come in.
ModerationHolds == ModerationTypeOK /\ SuspendedAreOut /\ ReportedAreBlocked

\* README:39, "A report ends the chat and blocks the pair": two of whom one
\* reported the other do not meet again while neither deletes the account of
\* then, also when the report comes late, about one who has deleted and returns.
\* More than that is not so: blocks go with an account (users.js:146), and who
\* deletes and returns with Google may meet the reporter again (en.js:224).
ReportedStayApart ==
    [][\A m \in met' \ met : {m[1], m[2]} \notin complained]_moderationVars

\* Reports lengthen nothing and shorten nothing: a suspension that is running
\* ends by the clock or by an admin, not by the fixed term of an automatic one.
ReportsKeepSuspensions ==
    [][\A a \in Accounts : left'[a] < left[a] - 1 \/ (left[a] > 0 /\ left'[a] > left[a])
            => a \in acted']_moderationVars

===============================================================================
