------------------------------- MODULE Records -------------------------------
(***************************************************************************)
(* What the service writes down about its use, and how it forgets it:      *)
(* events.js (the buffer of analytics rows and its flush), jobs.js (the    *)
(* night: totals of yesterday, purge, backup), the erasure of an account   *)
(* (me.js, users.js, admin/routes.js), web push (push.js: who subscribed,  *)
(* and what is being sent) and the life of the process around them         *)
(* (server.js: start, stop, signals).                                      *)
(*                                                                         *)
(* A row is told by its label (the pseudonymous id of an account, the word *)
(* `deleted', or no id), the day it was accepted and where it is; its      *)
(* event name and props are left out, so one total stands for all the      *)
(* counts of a day.  Time is the day: the night comes at some moment of it. *)
(***************************************************************************)
EXTENDS Integers, FiniteSets, Sequences

CONSTANTS
    People,        \* e-mail addresses
    None,          \* no account (in `account'), nothing cached (in `cached')
    Ids,           \* public ids, of which every new account draws an unused one
    MaxBuffer,     \* events.js MAX_BUFFER: rows that make track() flush
    EventsDays,    \* config.retention.eventsDays
    ReportsDays,   \* config.retention.reportsDays
    BackupKeep,    \* config.backupKeep
    LastDay,       \* bound: the last day of a run, on which little begins (Early)
    MaxRows,       \* bound: rows accepted
    ClosingDays,   \* bound: the days on which the report may be closed
    MaxFaults      \* bound: failed flushes and night, kills, second signals

ASSUME BoundsAreNumbers ==
    /\ {MaxBuffer, BackupKeep, LastDay, MaxRows} \subseteq Nat \ {0}
    /\ {MaxFaults, EventsDays, ReportsDays} \subseteq Nat
ASSUME YesterdayIsKept == EventsDays >= 2
ASSUME NamesAssumption ==
    None \notin Ids \cup {"null"} /\ {"null", "deleted", "nobody"} \cap Ids = {}

VARIABLES
    day,
    proc,          \* the process: "up", "stopping" (inside stop()) or "down"
    lastNightly,   \* jobs.js lastNightly, -1 for null
    account,       \* users: the account (public id) an address has, or None
    cached,        \* userCache: the account getUser() answers, "null", or None
    rows,          \* the rows accepted, in order, each with where it is now
    stats,         \* daily_stats: the total of a day, 0 when there is none
    report,        \* the status of a report that was filed on day 0
    resolvedAt,    \* reports.resolved_at, the day of it, -1 for NULL
    backups,       \* how many files are in backupDir
    sub,           \* push_subscriptions: an address has "none", or its browser's is "on"
    sending,       \* notify(): pushes that are not answered yet
    \* ------ histories, read by the properties only
    used,          \* ids that are, or were, an account's
    night,         \* the last day whose nightly() made its totals and its purge, or -1
    faults

vars == <<day, proc, lastNightly, account, cached, rows, stats, report,
          resolvedAt, backups, sub, sending, used, night, faults>>
people == <<account, cached, used>>
pushes == <<sub, sending>>
tables == <<stats, report, resolvedAt, backups, night>>

Days == 0..LastDay
Places == {"buffer", "events", "purged", "lost"}
Row == [label : Ids \cup {"deleted", "nobody"}, day : Days, at : Places,
        held : {"yes", "no"}]     \* held: still buffered when its account was erased

Fault == faults < MaxFaults /\ faults' = faults + 1

\* Bound: no row, account, push, digest or stop begins on the last day, which
\* has its night, erasures, flushes and faults: every day before it is told by
\* the night that follows it.
Early == day < LastDay

Init ==
    /\ day = 0
    /\ proc = "up" /\ lastNightly = -1
    /\ account = [p \in People |-> None] /\ used = {}
    /\ cached = [p \in People |-> None]
    /\ rows = <<>> /\ stats = [d \in Days |-> 0]
    /\ report = "open" /\ resolvedAt = -1
    /\ backups = 0 /\ night = -1 /\ faults = 0
    /\ sub = [p \in People |-> "none"] /\ sending = [p \in People |-> "no"]

-----------------------------------------------------------------------------
(* The buffer: events.js                                                   *)

Moved(rs, from, to) ==
    [i \in DOMAIN rs |-> IF rs[i].at = from THEN [rs[i] EXCEPT !.at = to] ELSE rs[i]]

\* flush() is one transaction: all the buffered rows are written, or, when it
\* fails, all of them are dropped and counted.
Flushed(rs, outcome) == Moved(rs, "buffer", outcome)
FlushOutcome(outcome) ==
    \/ outcome = "events" /\ UNCHANGED faults
    \/ outcome = "lost" /\ Fault

Buffered(rs) == Cardinality({i \in DOMAIN rs : rs[i].at = "buffer"})

\* users.js getUser(): the cached answer, `null' included, before the table's.
Found(p) == IF cached[p] # None THEN cached[p]
            ELSE IF account[p] # None THEN account[p] ELSE "null"
LabelOf(p) == IF Found(p) = "null" THEN "nobody" ELSE Found(p)

NewRow(label) == [label |-> label, day |-> day, at |-> "buffer", held |-> "no"]

PushLate(rs, label, outcome) ==     \* mutant: the buffer may hold MaxBuffer rows
    LET all == Append(rs, NewRow(label)) IN
    IF Buffered(all) > MaxBuffer THEN Flushed(all, outcome) ELSE all

\* track(): the row goes to the buffer, and the buffer to the table when full.
\* HARD_CAP is never reached: flush() leaves the buffer empty whatever happens.
Push(rs, label, outcome) ==
    LET all == Append(rs, NewRow(label)) IN
    IF Buffered(all) >= MaxBuffer THEN Flushed(all, outcome) ELSE all

Accept(label) ==
    /\ proc # "down" /\ Len(rows) < MaxRows /\ Early
    /\ \E o \in {"events", "lost"} :
         /\ o = "lost" => Buffered(rows) + 1 >= MaxBuffer
         /\ FlushOutcome(o)
         /\ rows' = Push(rows, label, o)

\* Something p did, or that happened to the seat p left behind: a socket's
\* handler, a request, a timer that closes a room after its member was erased.
Track(p) ==
    /\ Accept(LabelOf(p))
    /\ cached' = [cached EXCEPT ![p] = Found(p)]
    /\ UNCHANGED <<day, proc, lastNightly, account, used, tables, sub, sending>>

\* POST /events without a session.
TrackVisitor ==
    /\ Accept("nobody")
    /\ UNCHANGED <<day, proc, lastNightly, people, tables, sub, sending>>

\* The 10-s interval of startEventFlusher(), which stop() lets run to its end;
\* the admin panel's overview and funnel flush as well.
Flush ==
    /\ proc # "down" /\ Buffered(rows) > 0
    /\ \E o \in {"events", "lost"} : FlushOutcome(o) /\ rows' = Flushed(rows, o)
    /\ UNCHANGED <<day, proc, lastNightly, people, tables, sub, sending>>

CacheExpires(p) ==
    /\ cached[p] # None
    /\ cached' = [cached EXCEPT ![p] = None]
    /\ UNCHANGED <<day, proc, lastNightly, account, used, rows, tables, sub, sending,
                   faults>>

-----------------------------------------------------------------------------
(* Accounts: auth.js signs up, me.js and admin/routes.js erase.            *)

Register(p) ==
    /\ proc # "down" /\ account[p] = None /\ Early
    /\ \E id \in Ids \ used :
         /\ used' = used \cup {id}
         /\ account' = [account EXCEPT ![p] = id]
         /\ cached' = [cached EXCEPT ![p] = id]
    /\ UNCHANGED <<day, proc, lastNightly, rows, tables, sub, sending, faults>>

\* deleteUser(): the rows of the table are relabelled, those in the buffer not.
Relabelled(rs, id) ==
    [i \in DOMAIN rs |->
        CASE rs[i].label = id /\ rs[i].at = "events" -> [rs[i] EXCEPT !.label = "deleted"]
          [] rs[i].label = id /\ rs[i].at = "buffer" -> [rs[i] EXCEPT !.held = "yes"]
          [] OTHER -> rs[i]]

ErasedCached(p, rs) ==              \* mutant: the cache is not invalidated
    /\ Len(rs) <= MaxRows
    /\ rows' = Relabelled(rs, account[p])
    /\ account' = [account EXCEPT ![p] = None]
    /\ sub' = [sub EXCEPT ![p] = "none"]
    /\ UNCHANGED <<day, proc, lastNightly, cached, used, stats, report, resolvedAt, backups, night, sending>>

Erased(p, rs) ==
    /\ Len(rs) <= MaxRows
    /\ rows' = Relabelled(rs, account[p])
    /\ account' = [account EXCEPT ![p] = None]
    /\ cached' = [cached EXCEPT ![p] = None]
    /\ sub' = [sub EXCEPT ![p] = "none"]
    /\ UNCHANGED <<day, proc, lastNightly, used, stats, report, resolvedAt, backups, night, sending>>

\* kickUser(): the handlers of the account's sockets may track under its id.
Kicked(p, rs, outcome) == {rs, Push(rs, LabelOf(p), outcome)}

\* DELETE /api/me tracks the deletion, kicks, then deletes.
EraseMe(p) ==
    /\ proc # "down" /\ account[p] # None
    /\ \E o \in {"events", "lost"} :
         /\ FlushOutcome(o)
         /\ \E rs \in Kicked(p, Push(rows, "deleted", o), o) : Erased(p, rs)

\* DELETE /admin/users/:id kicks, then deletes.
EraseByAdmin(p) ==
    /\ proc # "down" /\ account[p] # None
    /\ \E o \in {"events", "lost"} :
         FlushOutcome(o) /\ \E rs \in Kicked(p, rows, o) : Erased(p, rs)

\* An admin closes the report (POST /admin/reports/:id/resolve), or closes a
\* closed one again.
Resolve ==
    /\ proc # "down" /\ report # "purged" /\ day \in ClosingDays
    /\ report' = "closed" /\ resolvedAt' = day
    /\ UNCHANGED <<day, proc, lastNightly, people, rows, stats, backups, night, pushes, faults>>

-----------------------------------------------------------------------------
(* Web push: push.js, and POST and DELETE /api/me/push                     *)

\* A browser has one endpoint, so an address has one row here.
Subscribe(p) ==
    /\ account[p] # None
    /\ Accept(LabelOf(p))
    /\ cached' = [cached EXCEPT ![p] = Found(p)]
    /\ sub' = [sub EXCEPT ![p] = "on"]
    /\ UNCHANGED <<day, proc, lastNightly, account, used, tables, sending>>

Unsubscribe(p) ==
    /\ proc # "down" /\ account[p] # None /\ sub[p] = "on"
    /\ sub' = [sub EXCEPT ![p] = "none"]
    /\ UNCHANGED <<day, proc, lastNightly, people, rows, tables, sending, faults>>

\* notify(): a friend waits for p in a direct room.  The quiet hours and the
\* cap of one in 30 minutes, which reads notify_log, only make it happen less often.
Notify(p) ==
    /\ proc # "down" /\ sub[p] # "none" /\ sending[p] = "no" /\ Early
    /\ sending' = [sending EXCEPT ![p] = "yes"]
    /\ UNCHANGED <<day, proc, lastNightly, people, rows, tables, sub, faults>>

\* The push service answers.  An endpoint the browser has dropped, by itself or
\* in a disablePush() whose call was lost, is deleted (404, 410).  The account
\* may be gone, or another, by now.
Notified(p) ==
    /\ sending[p] = "yes"
    /\ Accept(LabelOf(p))
    /\ cached' = [cached EXCEPT ![p] = Found(p)]
    /\ sub' \in {sub, [sub EXCEPT ![p] = "none"]}
    /\ sending' = [sending EXCEPT ![p] = "no"]
    /\ UNCHANGED <<day, proc, lastNightly, account, used, tables>>

-----------------------------------------------------------------------------
(* The night: jobs.js                                                      *)

CountOf(rs, d) == Cardinality({i \in DOMAIN rs : rs[i].at = "events" /\ rs[i].day = d})

RolledUpStale(rs) ==                \* mutant: the totals come before the flush
    IF day = 0 THEN stats ELSE [stats EXCEPT ![day - 1] = CountOf(rows, day - 1)]

\* rollupDay(yesterday): the totals of the rows in the table now.
RolledUp(rs) == IF day = 0 THEN stats ELSE [stats EXCEPT ![day - 1] = CountOf(rs, day - 1)]

PurgedEarly(rs, part) ==            \* mutant: a day too many is purged
    [i \in DOMAIN rs |->
        IF rs[i].at = "events" /\ rs[i].day <= day - EventsDays + 1
        THEN [rs[i] EXCEPT !.at = "purged"] ELSE rs[i]]

\* purgeRetention(): rows older than EventsDays times 24 hours, so of the first
\* day that is kept those accepted earlier in the day (the first `part' of them),
\* and the reports that are not open, by the day they were FILED: resolved_at,
\* from which DATA_INVENTORY.md:19 counts the year, is not looked at.
Purged(rs, part) ==
    [i \in DOMAIN rs |->
        IF rs[i].at = "events" /\ (rs[i].day < day - EventsDays \/ (rs[i].day = day - EventsDays /\ i <= part))
        THEN [rs[i] EXCEPT !.at = "purged"] ELSE rs[i]]
ReportPurged == IF report = "closed" /\ 0 < day - ReportsDays THEN "purged" ELSE report

\* backupNow(): one more copy of the tables, of which the BackupKeep newest stay.
BackedUp == IF backups < BackupKeep THEN backups + 1 ELSE backups

\* The first check after 00:30 of a process that has not had this night yet.
NightIsDue == proc = "up" /\ lastNightly # day

\* lastNightly is set first: a night that fails part of the way is not retried.
Nightly ==
    /\ NightIsDue
    /\ lastNightly' = day
    /\ \E o \in {"events", "lost"}, done \in {"flush", "purge", "backup"}, part \in 0..Len(rows) :
         /\ IF o = "events" /\ done = "backup" THEN UNCHANGED faults ELSE Fault
         /\ LET rs == Flushed(rows, o) IN
            IF done = "flush"
            THEN rows' = rs /\ UNCHANGED tables
            ELSE /\ stats' = RolledUp(rs)
                 /\ rows' = Purged(rs, part)
                 /\ report' = ReportPurged
                 /\ night' = day
                 /\ backups' = IF done = "backup" THEN BackedUp ELSE backups
                 /\ UNCHANGED resolvedAt
    /\ UNCHANGED <<day, proc, people, sub, sending>>

\* GET /admin/digest totals yesterday too, without a flush.
Digest ==
    /\ proc # "down" /\ Early
    /\ stats' = RolledUp(rows)
    /\ UNCHANGED <<day, proc, lastNightly, people, rows, report, resolvedAt, backups, night, pushes, faults>>

TimePasses ==
    /\ day < LastDay /\ day' = day + 1
    /\ UNCHANGED <<proc, lastNightly, people, rows, tables, sub, sending, faults>>

-----------------------------------------------------------------------------
(* The process: server.js and deploy/pm2-entry.mjs                         *)

\* The memory of the process goes, and the rows that are in the buffer with it.
Gone(rs) ==
    /\ proc' = "down" /\ lastNightly' = -1
    /\ cached' = [p \in People |-> None]
    /\ rows' = Moved(rs, "buffer", "lost")
    /\ sending' = [p \in People |-> "no"]
    /\ UNCHANGED <<day, account, used, tables, sub>>

Start ==
    /\ proc = "down" /\ proc' = "up"
    /\ UNCHANGED <<day, lastNightly, people, rows, tables, sub, sending, faults>>

\* stopJobs(): no night begins in a process that is not "up".
StopJobs == proc' = "stopping"

\* graceful(): stop() stops the jobs, then waits for sockets and requests.
Signal ==
    /\ proc = "up" /\ Early /\ StopJobs
    /\ UNCHANGED <<day, lastNightly, people, rows, tables, sub, sending, faults>>

\* A second signal, or an exception: stop() returns at once, exit(0) follows.
SecondSignal == proc = "stopping" /\ Fault /\ Gone(rows)

\* The 10-s timer of graceful(), when a request or a socket does not end.
ForceExit == proc = "stopping" /\ Fault /\ Gone(rows)

\* stopEventFlusher(): a last flush, written or lost.
StopEventFlusher(outcome) == FlushOutcome(outcome) /\ Gone(Flushed(rows, outcome))

\* Everything is closed: stopEventFlusher(), closeDb(), exit(0).
StopEnds ==
    /\ proc = "stopping"
    /\ \E o \in {"events", "lost"} : StopEventFlusher(o)

Kill == proc # "down" /\ Fault /\ Gone(rows)

Next ==
    \/ \E p \in People : Track(p) \/ CacheExpires(p) \/ Register(p)
                       \/ EraseMe(p) \/ EraseByAdmin(p)
                       \/ Subscribe(p) \/ Unsubscribe(p)
                       \/ Notify(p) \/ Notified(p)
    \/ TrackVisitor \/ Flush \/ Resolve
    \/ Nightly \/ Digest \/ TimePasses
    \/ Start \/ Signal \/ SecondSignal \/ ForceExit \/ StopEnds \/ Kill

Spec == Init /\ [][Next]_vars

-----------------------------------------------------------------------------
\* Every variable has its type; no row is left waiting in a process that is
\* down, a buffer never holds MaxBuffer rows, no more than BackupKeep files stay.
TypeOK ==
    /\ day \in Days /\ faults \in 0..MaxFaults
    /\ proc \in {"up", "stopping", "down"} /\ lastNightly \in Days \cup {-1}
    /\ account \in [People -> Ids \cup {None}] /\ used \subseteq Ids
    /\ cached \in [People -> Ids \cup {None, "null"}]
    /\ rows \in Seq(Row) /\ Len(rows) <= MaxRows
    /\ stats \in [Days -> 0..MaxRows] /\ night \in Days \cup {-1}
    /\ report \in {"open", "closed", "purged"} /\ resolvedAt \in Days \cup {-1}
    /\ backups \in 0..BackupKeep
    /\ sub \in [People -> {"none", "on"}] /\ sending \in [People -> {"no", "yes"}]
    /\ Buffered(rows) < MaxBuffer /\ (proc = "down" => Buffered(rows) = 0)

Written(d) == {i \in DOMAIN rows : rows[i].day = d /\ rows[i].at \in {"events", "purged"}}

\* Once the night after a day has made its totals, the day's total counts every
\* row of that day that was ever written, whatever happens later: another night
\* after a restart, a digest, an erasure, the purge of the rows (jobs.js:92).
TotalsAreExact ==
    night > 0 => stats[night - 1] = Cardinality(Written(night - 1))

ErasedIds == {id \in used : \A p \in People : account[p] # id}

\* Under the id of an erased account there is no row but those that were in the
\* buffer at that moment: nothing that happens later, to a seat left behind, to
\* the next account of the address, when a push is answered or out of a cache,
\* is written under it; and an address without an account has no subscription.
ErasedStayForgotten ==
    /\ \A i \in DOMAIN rows :
         rows[i].label \in ErasedIds /\ rows[i].at \in {"buffer", "events"} => rows[i].held = "yes"
    /\ \A p \in People : account[p] = None => sub[p] = "none"

\* Retention is met from both sides: a row goes only when it is EventsDays old,
\* and after a night that made its purge no older one is left.  A report goes
\* only if it was closed and is ReportsDays old since it was filed (jobs.js:64;
\* a document counts from its closing); one that is still there, closed, after
\* such a night was closed on that day or later.  An open one stays.
RetentionIsMet ==
    /\ \A i \in DOMAIN rows :
         /\ rows[i].at = "purged" => rows[i].day <= day - EventsDays
         /\ rows[i].at = "events" => rows[i].day >= night - EventsDays
    /\ report = "purged" => resolvedAt # -1 /\ ReportsDays < day
    /\ report = "closed" /\ ReportsDays < night => night <= resolvedAt

==============================================================================
