# LPU Connect in TLA+

A verification development for the LPU Connect server and client
(`src/backend`, `src/frontend`): strangers of one campus are matched for a
ten-minute chat, may turn it into video and into friendship when both want it,
and are kept apart when one of them reports or blocks the other.

The specifications are written from the code; line numbers in the modules and
in `PROJECT.json` refer to it. TLC checks them on small instances; of all but
the chat client TLAPS also proves safety properties for every value of the
constants, and of eight modules every one of them.

Contents: [inventory](#1-inventory) · [modules](#2-modules) ·
[runs](#3-runs) · [fairness](#4-fairness) · [proofs](#5-proofs) ·
[disagreements](#6-where-code-and-documents-disagree) ·
[limits](#7-what-is-not-modelled-and-why) · [plan](#8-plan)

Reproduce, in this directory:

    tlc -config MCRooms.cfg MCRooms      # a run; see the table in section 3
    tlapm RoomsProofs.tla                # a proof module

## 1. Inventory

One Node process serves HTTP, Socket.IO and the timers, over one SQLite file
accessed synchronously: handlers interleave only at an `await`, at a timer and
at the edge of the process. Clients are browser tabs and the Android wrapper;
several tabs of one browser share `localStorage`. Nothing of rooms, queue or
presence is on disk.

| component | code | state | operations | interacts with |
|---|---|---|---|---|
| Matchmaking queue | `realtime/matching.js` | Map socket → entry in insertion order; recent pairs | `add`, `remove`, `removeEmail`, `findPartner`, `pair`, `sweep` every 2 s | calls `canPair` and `onMatch` of the realtime handlers |
| Rooms | `realtime/rooms.js` | rooms, members with socket and grace timer, index by socket, index of direct rooms by pair | `createMatch`, `joinDirect`, `access`, `rejoin`, `dropSocket`, `close`, expiry and grace timers | `onClose` of the handlers |
| Realtime handlers | `realtime/index.js` | per room: `enjoy`, `friendReq`, `extendReq`, `videoReq`, `videoStartedAt`, `revealed`; `lastRoom`; Map `online` | 17 socket events, connect, disconnect, `kickUser`, `shutdownRealtime` | queue, rooms, users, moderation, push, events |
| Reports and suspensions | `moderation.js`, `users.js` | tables `reports`, `blocks`, `device_bans`, column `banned_until` | `fileReport`, `applyAutoBan`, `blockPair`, `setBan`, `banState`, `deleteUser` | handlers, `routes/auth.js`, `admin/routes.js` |
| Accounts and friends | `users.js`, `routes/me.js`, `cache.js` | tables `users`, `friends`, `consents`; LRU caches | profile, export, unfriend, block, deletion | presence, rooms |
| Sessions and login | `sessions.js`, `routes/auth.js`, `guard.js` | table `sessions` | guest, Google and phone login, resume, logout, purge | client session |
| Phone login | `otp.js` | table `otp_codes`; promise chain of sends, outcomes, kill switch | `requestOtp`, `verifyOtp`, purge | the WhatsApp gateway |
| Client session | `App.jsx`, `lib/session.js`, `lib/api.js`, `lib/socket.js` | token in memory and in `localStorage`, phase, socket | boot, enter, logout, calls with a 75 s limit | server sessions |
| Chat client | `screens/Matching.jsx`, `DirectCalling.jsx`, `screens/chat/*` | screen, chat flags | events and acknowledgements | realtime handlers |
| Video client | `screens/chat/useVideo.js`, `lib/rtc.js`, `lib/media.js` | peer connection, local media | start, end, signals | `rtc_signal` |
| Analytics, jobs | `events.js`, `jobs.js`, `admin/metrics.js` | buffer, tables `events`, `daily_stats` | `track`, `flush`, nightly roll-up, retention, backup | deletion, shutdown |
| Push | `push.js`, `lib/push.js` | tables `push_subscriptions`, `notify_log` | subscribe, notify | presence |
| Start, shutdown, deploy | `server.js`, `deploy/*` | — | graceful stop in 10 s; gate, swap, roll-back, prune | all |
| Rate limits, settings, panel, screens | `guard.js`, `settings.js`, `app.js`, `admin/*`, other screens | token buckets, settings | | |

### What is hard, and what correct means

* **Queue.** `sweep` deletes entries from a Map while a snapshot of it is
  iterated; a user searches from several tabs; a filter relaxes with time.
  Correct: one entry per user, longest waiter first, sound matches, no early
  rematch, and a finished sweep leaves no pair it could have made.
* **Rooms.** Three structures (seats, index by socket, index by pair) and three
  kinds of timer must agree while sockets drop, come back, and take a seat over
  from another tab. Correct: the structures agree, exactly the absent have a
  timer, a blip does not end a chat, an absence ends.
* **Two-sided steps.** Requests cross, are repeated, are answered after the
  room changed. Correct: no step is completed by one side, names come after
  mutual Enjoy, crossed requests meet, video stays locked for 30 s.
* **Moderation.** Suspensions of the clock, of reports and of an admin overlap;
  rooms outlive accounts; accounts share a device. Correct: the suspended are
  out, the reported pair stays apart, no suspension is shortened by a report,
  no re-registration, erasure is complete.
* **Sessions.** Every resume rotates the token that all tabs share; answers are
  late or lost. Correct: no token in two tabs, a socket belongs to the login of
  its tab, the boot screen ends, a live session is not thrown away.
* **Phone login.** Requests interleave at the `await` of a send; sends fail,
  time out, and are lost with the process. Correct: caps hold through failures
  and restarts, messages are spaced, the kill switch stops all but the line,
  guesses are bounded, every request ends.
* **Clients.** Events and acknowledgements cross on their way; a member who was
  away missed some. Correct: what a tab shows is what the server holds, once
  the channel is quiet; nothing is shown early; nobody is left in an ended or
  abandoned room.
* **Queue, rooms and tabs together.** A tab searches, sits in a room, changes
  its screen and loses its connection while sweeps, timers, suspensions and a
  restart go on; calls cross events. Correct: nobody searches from a seat, the
  suspended are nowhere, a quiet tab shows what the server holds for it.
* **Friends and presence.** Tabs come and go while friendships begin and end;
  lists are asked for over HTTP after an event on a socket. Correct: the cache
  is exact, lists and dots are right at quiet moments.
* **Video.** `start()` waits for the camera and for the peer connection while
  the call ends, is asked for again, or the chat is left. Correct: no camera
  without the consent of its owner, none left on, both tabs in one call.
* **Records.** Events are buffered while an account is deleted; nights fail part
  of the way or are repeated. Correct: nothing new is written of an erased
  account, totals equal the rows they sum up, retention is met from both sides.
* **Shutdown and deploy.** A second signal, a hanging connection, a release
  deployed twice. Correct: a stop that runs to its end loses no row; the live
  release is never pruned or half-installed.

`PROJECT.json` lists each hazard at its line, with the properties that cover it.

## 2. Modules

| module | models | lines of note |
|---|---|---|
| `MatchQueue` | the queue | the Map is a partial function with its insertion order as a relation; `sweep` takes one step per iteration and everything else waits for it, as in the single thread; ages saturate at the largest delay they are compared with |
| `Rooms` | rooms of both kinds | a room no longer in the Map is forgotten except for a timer nobody refers to (`orphan`), which is what `joinDirect` can leave behind; armed timers may fire in any later step |
| `MutualStep` | abstract: what a two-sided step promises | `asking`, who acted last, whether that completed the step |
| `Consent` | the two-sided steps of one pair over any number of rooms | implements `MutualStep` once per kind of step (`EnjoyStep`, `ExtendStep`, `VideoStep`), by substituting the Sets of the room for `asking` |
| `Moderation` | reports, suspensions, device bans, deletion | hours are counted down; a chat appears only as who may still report whom |
| `Sessions` | tokens between tabs and server | calls on their way are a set of records, answered in any order, lost, or abandoned by their tab; Google's button may start a second login while one is going (`crossed`) |
| `Otp` | codes, caps, queue of sends, tries | `requestOtp` up to its `await` is one step, each stage of a send another; several ways to write one number are normalised |
| `ChatClient` | what two tabs show of one match room | the handlers of `Consent` once more, now between ordered channels of calls, events and answers; a seat can be on a socket the server does not know to be dead; `missed` remembers who lost something |
| `Realtime` | queue, rooms, handlers and the screens of the tabs in one state | the rooms are those of `Rooms`, which it is shown to implement; of the queue only the set of sockets is kept, who is paired and who gives up is any choice; a kick is one step per socket; any call may be refused by the limiter (`Refuse`); a chat whose code is still being fetched is a screen of its own (`loading`) until `Mount`; `displaced` remembers tabs that lost their place untold, `strayed` those that missed something on a screen of their own |
| `Friends` | rows, cache, presence, lists and dots of two people | events on sockets, lists over HTTP in flights that overtake one another; a broken connection is taken for a live one until its ping times out; `astray` and `absent` remember what nothing will correct |
| `VideoCall` | one room's video: buttons, `useVideo`, `rtc` and the handlers | `start()` is a record in `starts` between its two awaits, so several may be going; calls have a number in the model that the messages of the code do not carry |
| `Records` | buffer, rows, erasure, night, push, process | a row is its label, day and place; the night comes at some moment of a day |
| `MC...` | instances for TLC | |
| `...Proofs` | theorems | |

Conventions: a definition has the name of the function it translates where it
has one; an action is a whole handler, from its guard to its last effect; a
refused call changes nothing and is left out. Operators marked *Mutant* stand
for plausible bugs; nothing uses them, and `PROJECT.json` names the property
that fails when one of them replaces the definition it precedes. Variables
marked *history* only observe.

How modules meet. `Realtime` puts queue, rooms and tabs in one state, and its
property `RoomsAreRooms` says that whatever happens there is, for the rooms, a
step of `Rooms` (or the restart that empties them): the theorems about rooms
hold in the composition. `MatchQueue` has the order inside the queue, which
`Realtime` leaves open, and sees blocks and bans as `refused`. `Consent` has one
pair in its rooms, whose members are there or away, with the timeouts that
`Rooms` allows (the orphaned timer too), and implements `MutualStep` three
times. `ChatClient` and `VideoCall` take one room of it apart into tabs and
channels. `Moderation` has accounts and reduces chats to `met`; `Friends` has the
same `block`, `report` and deletion from the side of the friend list; `Records`
has the same deletion from the side of what was written down.

## 3. Runs

| run | instance | states | shows |
|---|---|---|---|
| `queue` | one user with two tabs, two with one; filters that overlap, do not, or are absent; delays 1, 2, 2; one pair may be blocked | | `QueueIsSound` (one entry per user, longest waiter first, sound matches), `NoEarlyRematch`, `SweepLeavesNoPair`, `EverySearchEnds` |
| `rooms` | the same users and tabs, two rooms | | `RoomsInv` (seats, index, presence, timers and direct rooms agree), `SeatedIsPresent` (nobody connected is taken for absent), `BlipDoesNotEndMatch`, `AbsenceIsResolved` |
| `rooms_blip` | two users, one room | | refutes `BlipDoesNotEndChat` |
| `consent` | one pair | | `ConsentHolds` (names after mutual Enjoy, crossed requests meet, video unlocked by both), `FriendshipNeedsEnjoy`, and `StepsAreMutual`: three steps implement `MutualStep` |
| `moderation` | three accounts, of which one is deleted and registers again under its address; one device, a threshold of two reports that may be switched off and on | 0.5 M | `ModerationHolds` (the suspended are out), `ReportedStayApart` (a reported pair does not meet while both keep their account), `ReportsKeepSuspensions` |
| `sessions` | two tabs, three tokens, two calls on their way | 0.8 M | `TokensAreInOrder` (one owner per token, the socket is the login's), `BootEnds` |
| `otp` | two numbers, one address, three codes, a line of two, all times 1 or 2 | 0.3 M | `OtpHolds` (caps and kill switch), `GuessesAreBounded`, `SendsAreSpaced`, `EveryRequestEnds` |
| `chat` | two tabs, one call and one event on their way, one message, one break or call given up, and any that befalls the rejoin after it | 1.7 M | `TextsAreSound`, `RailIsRight`, `NothingIsShownEarly`, `NobodyIsLeftBehind` |
| `realtime` | two users, one with two tabs; four connections, two rooms, four clicks (three once there was a fault), one fault | 0.5 M | `SearchersAreFree`, `BannedAreNowhere`, `ScreensAreTrue`, `RoomsAreRooms` |
| `records` | an address with two accounts one after the other, visitors; four days, a buffer of two, one fault | 1.6 M | `TotalsAreExact`, `ErasedStayForgotten`, `RetentionIsMet` (rows and closed reports go in time and not before; open reports stay) |
| `video` | two tabs, two clicks on the camera button, one break, failure, skip or end of the room | 2.7 M | `CameraNeedsConsent`, `OnlyOvertakenStay`, `CallIsShared` |
| `friends` | two people, one with two tabs of which one is being opened; any two changes or faults, two requests under way | 1.5 M | `FriendsInv` (the cache is exact), `ListIsRight`, `DotsAreRight` |

Every passing run also checks the `TypeOK` of its module, alone or as a part of
an invariant, and, unless its cfg says otherwise, that nothing deadlocks. These
may stop: `consent`, where a blocked pair whose last room is behind it has
nothing left to do; `chat`, when the room is closed and both tabs have left it;
`realtime`, `records`, `video` and `friends`, when the changes of their bound are
used up.

### Bounds, and why they are enough

* *Queue.* A conflict needs a searcher, a candidate, a rival candidate and a
  second tab of one of them: three users and four tabs. Delays of 1 and 2 keep
  the order of `prefFallbackMs` and `searchTimeoutMs` and let an entry pass each
  border, with one step to spare; ages beyond the largest delay are equal to
  every comparison, so the clock needs no bound. `FiltersOf` has, between tabs,
  equal, disjoint and missing filters. `Contested` is the one pair whose block
  comes and goes.
* *Rooms.* A seat has to move between tabs while a timer runs, beside another
  room of the same socket: two rooms, and a user with two tabs.
* *Consent.* The pair is the unit; nothing is bounded.
* *Moderation.* `Threshold` 2 is the smallest that needs *distinct* reporters,
  hence three accounts; 0 turns the rule off
  (`settings.js`). `autoban_window_hours` and `autoban_hours`, settable too, are
  constants. `Forever` outlives every term; `Meetings` and
  `Moderated` keep pairs and acts to those the properties tell apart. `Returning`
  is one of the reporters, who is reported as well: two lives are enough to come
  back on either side of a report.
* *Sessions.* Two tabs race for one token; three tokens allow a login and a
  rotation by each. `MaxCalls` 2 lets an answer cross a call.
* *ChatClient.* One call of each tab and one event for it, beside the answer,
  are enough for every crossing of two requests; two values of `term` tell an
  old end of the room from a new one. That a tab waits for an answer before the
  next click (`Free`) is a bound too: the buttons allow a second one meanwhile.
  One break shows what is lost with it; a second matters only to a rejoin, and
  there it is not counted. Both tabs begin with the chat mounted: what happens
  between `matched` and the mount of the lazily fetched `Chat` (`App.jsx:17,203`),
  when a `partner_left` is lost, is outside the four properties of this run, and
  is in `Realtime`.
* *Realtime.* A second tab takes the seat or the entry of the first; the other
  user is matched or called. One tab has a spare connection, for a replacement
  beside the dead one; the others come back once the server let go of theirs.
  Four clicks are a search each, an answer and a change of mind, or three of them
  and a fault among them; two rooms let a
  direct room, taken up without leaving the chat, stand beside a match room. A refused call is a fault like a
  break. `NoAnswerDue` bounds a tab to one awaited call. A break gives an error
  for what was not answered (`CutOff`); calls that run into the 8 s of `call()`
  on a live connection, and those buffered while offline, are left to
  `ChatClient`; that more than sixty refusals cut the connection is left out
  (`Break` may come at any time). Of the screens that are fetched, only the chat
  has events to lose while it is: for the others a click is taken to happen
  when its screen is there. While the chat loads, React keeps the screen before
  it, hidden, with its listeners, which is why a `loading` tab still takes a
  `matched` and searches or calls again when it is back. An invitation accepted
  over another call takes a third user: proved, not model-checked.
* *Friends.* Every row and every event is about a pair. Two changes and a tab
  being opened are enough for an answer to be overtaken and for an event to be
  lost; two requests overtake each other.
* *VideoCall.* Two requests make an earlier call and a later one; one upset
  lands between any two steps of either.
* *Records.* Two rows fill a buffer of two, or wait in it through an erasure; on
  four days of which two are kept a row is totalled, kept and purged; on the last
  of them little begins (`Early`), because no night follows it. One fault
  at a time: a failed flush or night, a kill, or a second signal. `ClosingDays`
  is the day of the first purge that can reach the report: it is closed before
  that night, after it, or not at all; the theorem has every other day.
* *Otp.* Two codes reach every cap, a third shows that it holds; a line of two
  is the shortest that can be full behind a send that is under way. `Kept`,
  `Recent`, `HardLimit` and `Enough` scale 50, 20, 5 and 10 down to 2, 2, 1, 2:
  both branches of the kill switch are reached.
  Three ways to write a number (`Written`): plain, with 0 and 91 before it, and
  with two zeros, which is refused.

## 4. Fairness

* `MatchQueue`: `WF(Sweep)` – `setInterval` keeps firing and a loop that was
  entered runs to its end; `SF(Tick)` – time passes between sweeps, which
  disable the clock only while a loop runs. Users are not fair.
* `Rooms`: `WF(GraceEnds)` – Node fires a timer that is pending and not
  cleared. Nobody has to rejoin.
* `Sessions`: `WF(ResumeEnds)` – `api()` aborts after 75 s, so a call is
  answered or fails. The server has no fairness.
* `Otp`: weak fairness of the steps of a send – `sleep()` ends by its timer and
  the request by the 15 s of its `AbortSignal` – and of time.

The other modules state safety only: what should follow there depends on people,
or, in `Realtime`, is what `MatchQueue` and `Rooms` state of their timers.

## 5. Proofs

| module | theorems | inductive invariant |
|---|---|---|
| `MatchQueueProofs` | `QueueIsSound` and its parts, `NoEarlyRematch`, `SweepLeavesNoPair` and the two facts they rest on | `TypeOK` with the order facts of `before`, with `RecentIsExact` (the Map of recent pairs agrees with the history of matches), and with `VisitedAreUnpaired`, the loop invariant of `sweep`: an entry already visited fits none that is left, because later iterations only remove entries |
| `RoomsProofs` | `RoomsInv` and its parts, `SeatedIsPresent`, `BlipDoesNotEndMatch` | the five parts together: `dropSocket` and `close` look rooms up by socket, so presence, timers and the index need one another; and `Seating`: members sit on sockets of their own, a room not in the Map holds nothing, a match room has no orphaned timer, which `BlipDoesNotEndMatch` rests on |
| `ConsentProofs` | `ConsentHolds` and its parts, `FriendshipNeedsEnjoy`; `StepsAreMutual`: enjoy, extend and video implement `MutualStep` | `TypeOK`, the shape of rooms (`Shape`: match rooms have both members, direct rooms are revealed, only match rooms hold enjoy, friend or extend requests, one video request stands at a time), and the three invariants |
| `AccountsProofs` | of `Friends`: `FriendsInv`, `ListIsRight`, `DotsAreRight`; of `Moderation`: `ModerationHolds`, `ReportedStayApart`, `ReportsKeepSuspensions` | below |
| `LoginProofs` | of `Sessions`: `TokensAreInOrder` and its parts; of `Otp`: `OtpHolds` and its parts, `GuessesAreBounded`, `SendsAreSpaced` | where fresh tokens are – in the table, one answer or one tab – and which answers a tab in each phase can still get; `CapsHold` with `SleepIsLongEnough` (what is left of a sleep covers the gap) and `LineIsShort` (with the switch thrown the line shrinks by what has been sent since) |
| `ChatAndRecordsProofs` | of `ChatClient`: `TextsAreSound`, `RailIsRight`, `NothingIsShownEarly`, `NobodyIsLeftBehind`; of `Records`: `TotalsAreExact`, `ErasedStayForgotten`, `RetentionIsMet`, `TypeOK` | `ChatInv`, `RailInv` and `RecordsInv`, below |
| `RealtimeProofs` | `SearchersAreFree`, `BannedAreNowhere`, `RoomsAreRooms`, `ScreensAreTrue`, `TypeOK` | `RealtimeInv` and `ScreensInv`, below |
| `VideoCallProofs` | `CameraNeedsConsent`, `OnlyOvertakenStay`, `CallIsShared` | `CallInv`, `CourseInv` and `SharedInv`, below |

Three of the modules hold the proofs of two components; there the definitions of
`Moderation`, `Otp` and `ChatClient` that would clash with those of `Friends`,
`Sessions` and `Records` carry the name of their component (`OtpInit`,
`ModerationSpec`, `ChatTypeOK`).

**Reports.** For `ReportedStayApart`: two with a report between them are blocked
until one of them deletes the account (`ReportedAreBlocked`), whatever is
registered, again or for the first time, in between. A report from `lastRoom`
about one who has deleted the account writes a block that is still there when the
address returns. That the two never meet again is not claimed: see §6.

**Friends.** A friendship has a row for both or for neither, the cache says what
the rows say, who is gone has no tab, and nothing is on its way to a tab without
a connection or dated later than now: that is `FriendsFit`. The list of a tab is
right because a list that was answered after the last change is right, and a tab
whose list is older is astray, or has been told and asks again, or waits for an
answer (`ListFits`). The dot is right because the last presence event on its
way to a tab, or, if there is none, the dot itself, agrees with the presence the
server knows (`DotFits`).

**Chat.** `ChatInv` says of each tab (`TabFits`) what is on its way. The call a tab
waits for is the last one on its way or its answer is, and there is no other
answer (`AnswerIsDue`); `rejoin` is the first call of a connection and
`start_chat` or `skip` is only on the way of one that has left; an event that
names an agreement is true of the server as long as the room is open
(`EventsFit`), which is why nothing is shown early. Who is connected without the
seat asks for it or is about to be told it is gone; who left has `start_chat` on
its way; who stays in a room that ended has `partner_left`, the answer to its
report, or a `rejoin` that will be refused on its way: none of the three can be
dropped, because each excuse of `NobodyIsLeftBehind` is needed to show the others
after the next step. For the messages, a delivery moves one from the queue to the
screen, an acknowledgement likewise, and every loss marks the tab as `missed`;
the lemmas count what a queue holds.

`RailIsRight` speaks of tabs with nothing on their way, and says nothing of the
others, so it is not inductive: it is the case of an empty queue of `RailInv`.
That one reads what is on its way to a tab, events and the answer it waits for, as
one sequence of steps from what is shown to what will be (`LeadsTo`), and says that
the last of them is what the server holds now. The steps are stated as a function on
the positions of the queue, of which the proof needs that it can be extended by an
event, shifted by a delivery, and does not depend on the call waited for as long as
no answer is in it. Each handler then has to be right for two tabs only, its
caller's and the partner's: what it tells them, and what the caller makes of the
answer, turns a rail that was right before into one that is right after. Where a
tab cannot be told it is `missed`. Two facts about the requests go with it: both
have asked to be friends only once they are revealed, and both never hold a
request for more time.

**Guesses.** `GuessesAreBounded` counts pairs of a code and a try of it. There are
at most `PerNumber` codes of a number and day and at most `CodeAttempts` tries of
each, by `CapsHold` and the types, so that the guesses are among that many pairs
whatever the codes are.

**Records.** `RowFits` says of one row what day, last night and the ids in use
allow: a buffered row is not older than the last night, a stored one is not
older than that night's purge, a row under an erased id was in the buffer when
it was erased. `AccountsFit` says that ids are never used twice and that the
cache knows an id only of the account that has it. Adding a row, flushing,
relabelling and purging each keep this (a lemma for each) and change a day's
total by what they add to it. `NightsFit` says of the report what its
`resolved_at` and the last night allow.

**Realtime.** `RealtimeInv` has the invariant of `Rooms` in it, which is taken
from `RoomsProofs` step by step: every step is, for the rooms, one of theirs, or
leaves them alone, or is the restart, which is what `RoomsAreRooms` says. With
`RoomsHoldHere` the theorems about rooms therefore hold in the composition. It
adds that a tab believes in connections of its own only, that `rejoin` is the
first call of a connection and that this connection does not search, and that the
suspended have only the connection `kickUser()` is about to close.
`ScreensAreTrue` needs the calls and events under way (`ScreensInv`): the last
call on its way from a tab fits its screen, and once that has been handled either
the server holds what the screen shows or an event that will change the screen is
on its way.
`displaced` and `strayed` tabs are the exceptions, in the invariant as in the
property. A tab strays when the limiter refuses the `start_chat` of its search
(`Matching.jsx:47`), when it enters a chat on a `matched` that is out of date
(`Matching.jsx:63`), or when its chat is not mounted yet as the room ends or the
connection comes back (`App.jsx:203`); it stops straying with its next screen,
search or connection. Without any one of these four TLC refutes `ScreensAreTrue`:
none is there for the proof only.

**Video.** For consent, `CallInv` counts: the requests and acceptances of a
member that are on their way, the one the server keeps, and the starts on their
way to the member together never exceed what the member clicked for
and has not used; so a start that arrives finds its click. For cameras that stay
on, `CourseInv` describes the calls of one tab. A tab is in one call at a time;
between two starts on their way to it, and before one to a tab in a call, is an
end; no message of a call follows its end; what is not about to end is the call
the server has. It also says that who is in the chat and connected knows, or is
about to hear, whether the room is open, which is what a camera after the room's
end would contradict. Each is kept for the tabs that are not `marred`, and a tab
becomes so only where `OnlyOvertakenStay` says.

That the call is on in both tabs once all is quiet (`CallIsShared`) needs both of
them at once, and `SharedInv`, which holds while the room is open and no tab is
marred: what a tab shows is the call it holds, with its peer connection once
nothing starts (`Settled`); the call the server has has been told to every live
member whose `video_end` or `skip` is not on its way (`InTune`); and where both
have been told, one of the two is going to offer, has its offer on the way or kept
with the partner's pending signals, or has been, or is being, answered by a partner
that took the offer (`Talk`). An offer that arrives while the partner still starts
is the case that made `Talk` look at the pending signals and at the order of the
offer and the start it follows. Who left the chat of an open room
has its `skip` on its way for as long as it holds the seat (`SeatIsTold`), so that no
call is taken for shared with somebody who is no longer there.

**Assumptions.** The named `ASSUME`s of the modules: that tabs have owners,
that delays are positive, that null values are no real ones, that the terms of
suspensions order as they do in the settings, that a room or a friendship has
two people (`TwoMembers`, `PairAssumption`, `Limits`), that each person has a
tab that is not being opened (`FreshAssumption`), that yesterday's events are
kept until they are totalled (`YesterdayIsKept`), that bounds are numbers. TLC
evaluates them in the runs. No theorem bounds the number of users, tabs, rooms,
accounts, tokens, codes, rows, clicks or faults.

**Model-checked only.** Every safety invariant and every action property of the
passing runs is a theorem, except those listed here:

* the liveness properties (`EverySearchEnds`, `AbsenceIsResolved`, `BootEnds`,
  `EveryRequestEnds`), which need fairness and `ENABLED`;
* the refutation.

## 6. Where code and documents disagree

1. `rooms_blip`, a run of its own. Two friends chat in a direct room; one drops,
   and comes back through the friend list (`join_direct`) and not `rejoin`.
   `joinDirect` replaces the member object (`rooms.js:77-80`) without clearing
   its grace timer, which later closes the room on two connected people. The
   comment at `rooms.js:121` says a blip does not end the chat.

Met while modelling, each followed in its module and left out of what the
properties say, without a run of its own:

*Consent.* `reveal` leaves `friendReq`, and unfriending or blocking from the list
(`me.js:67-82`) leaves the room: one member alone sends
`friend_respond { accept: true }` again and the friendship is back, while
README.md:38 and `rooms.js:1-2` say each step takes both sides. `friend_respond`
does not look at `revealed` (`index.js:226-235`): a decline after an accept
sends `friend_reject`, and both tabs stop showing a friendship that stands.

*Moderation.* `setBan` writes one row per device for whichever account it is
called on (`users.js:113`): lifting the ban of a second account of a device
opens the device while the first is suspended; README.md:39 says device-level
bans stop instant re-registration. A report is promised to keep two people apart
for good (`en.js:224`, "you will not be matched with this person again"), but
`deleteUser` erases the blocks of the account (`users.js:146`), of either side:
one of the two deletes the account, registers again with Google under the same
address (`auth.js:95-105`) or in any other way, and the two may be matched. This
is why `ReportedStayApart` speaks of the accounts of the report and not of
people. A reporter who does so counts twice in `applyAutoBan`, once as a marker
(`users.js:149`, `moderation.js:26`). A room, or `lastRoom`, outlives the account:
a report from it writes the erased e-mail back into `reports` and `blocks`
(`moderation.js:15`; DATA_INVENTORY.md:37 lists what erasure removes).

*Sessions.* `openSocket` returns the socket it has (`socket.js:11`): where two
logins of one tab cross – Google's button is not disabled while another login
is going (`Landing.jsx:32`) – the tab chats with the first login's socket and
calls with the second's token ("One socket per signed-in session",
`socket.js:6`). A network error or the 75 s limit during resume throws away a
stored token whose session is alive (`App.jsx:104`). A session that expires or
is revoked leaves the socket it admitted (`index.js:52`).

*Phone login.* `requestOtp` stores `req.ip` in `otp_codes` (`otp.js:176-177`) for
a week; DATA_INVENTORY.md:29 says addresses are "held in memory by the rate
limiter only". A request refused because the line is full counts against the
caps all the same (`otp.js:124`).

*Chat.* Both ask for more time at once: the second request extends the chat,
`extend_accept` reaches its sender before the answer to the call, and `askExtend`
(`useChat.js:108`) then shows "asked", while nobody owes an answer; the sibling
`enjoy` has the guard (`useChat.js:97`), and PRODUCT.md:54 says the UI always
shows whose move it is. A message to a partner who is away is acknowledged and
lost (`index.js:180`). Text typed while a failing send is awaited is overwritten
(`Chat.jsx:29`). A refused `start_chat` (`guard.js:24`, five in a burst) leaves the search screen
waiting without an entry in the queue (`Matching.jsx:47`); `Realtime` has it
(`Refuse`), and `ScreensAreTrue` excepts it.

*Search and rooms.* `cancel_match` crossing `matched` leaves the canceller a seat
until the room's timer ends it. A late `matched` or `direct_matched` is taken by
the screen of a newer search (`Matching.jsx:41`, `DirectCalling.jsx:15`).
`DirectCalling` does not hear `partner_left`. A second tab's search removes the
first's entry and does not tell it (`matching.js:35`). A forgotten timer that
closes a room does not tell the member it belongs to (`rooms.js:116`). An
invitation accepted in a chat leaves it without `skip` (`App.jsx:131`). While the
code of `Chat` is being fetched (`App.jsx:17,203`) its listeners are not there: a
`partner_left` is lost, and a connection that is replaced is not rejoined, so that
the tab shows a chat whose room, or whose seat, is gone (`Mount`).

*Video.* `start()` goes on after its chat or call has ended (`useVideo.js:38`): the
camera stays on in a tab that has nothing left to turn it off with. `video_end`
to a member who is away is lost, and `rejoin` does not say so (`index.js:395`); a
late `video_end` can end the call after the one it was meant for. Cancelling the
explainer, or asking a partner who is away, leaves the button in "requesting".

*Friends.* `friend_respond` to a partner who deleted the account during the grace
period writes rows with the erased address before `friendView` fails on them
(`RevealOfDeleted`). A list stays stale after a match chat that ended in a
report or block, in the other tabs of whoever unfriends (`me.js:71`), after a
change that was told while the tab was offline, and when answers overtake one
another (`App.jsx:68`). Deletion by an administrator neither tells friends nor
drops their caches (`admin/routes.js:164`).

*Records.* `deleteUser` relabels the rows of the table; those in the buffer are
written afterwards under the erased id, while DATA_INVENTORY.md:37 says events
are relabelled "immediately" (`events.js:57`). Reports are purged a year after
they were filed (`jobs.js:64`; `RetentionIsMet` says this), so that one closed
late goes the next night, while DATA_INVENTORY.md:19 says a year after closing;
backups by number and not by age (DATA_INVENTORY.md:22). A second signal,
or an exception during the shutdown, exits before the flush (`server.js:47`;
`SecondSignal`), while `ecosystem.config.cjs:12` says that the shutdown flushes
events: the rows of the buffer are lost, and no property says otherwise. The digest totals a day without a flush (`admin/routes.js:212`). A failed
night is not retried. A shared browser's push subscription stays with the
former user after a logout; `disablePush` deletes the rows of all browsers of
the user (`me.js:101`). `HARD_CAP` of `events.js` is never reached.

## 7. What is not modelled, and why

* Text: message flags, escaping, wording, layout, languages. Profile fields
  other than the name, and the JSON export: writes and reads of one row.
* Hashing, signatures and the content of tokens: they are model values.
* Rate limits: a token bucket over real-valued time with nothing to interleave;
  that it refuses a call is `Limit` in `ChatClient` and `Refuse` in `Realtime`.
* Cookie sessions (off by default), the admin's own session, CSV and charts:
  reads, or the same token rules without rotation.
* `getMedia`'s fall-back to voice, mute, bitrate, candidates, and a restart of
  ICE: they change the stream and not who is in the call.
* Quiet hours and the cap of one push per friend and half hour, which only make
  a push rarer; the purge of `notify_log`; spike alerts.
* Migrations, which run once at boot in one transaction each; `deploy.sh`, whose
  state is the file system of the host.
* The gateway for WhatsApp messages, Google's tokens and TURN: only their
  outcomes appear, as any answer, an error, or a timeout.

Component by component this is `PROJECT.json` under `components`.

## 8. Plan

Every safety property of the runs is proved. What is left:

1. Liveness: the four properties of section 4 stay with TLC. What a proof of them
   would rest on is proved: the invariants of `MatchQueueProofs`, `RoomsProofs` and
   `LoginProofs`.
2. The five hazards of `PROJECT.json` without a property: reports against a room
   that outlives an account, the return of an account whose blocks went with it,
   two accounts of one device, a second signal to a process that is stopping, and
   the pruning of releases. For the first four the models have the behaviour; a
   property would say of the code what it does not promise.
3. `ChatClient` has one match room: a direct room, and the video call of `VideoCall`,
   could share its channel.
