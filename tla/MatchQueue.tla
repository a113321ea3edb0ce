------------------------------ MODULE MatchQueue ------------------------------
(***************************************************************************)
(* The matchmaking queue, backend/src/realtime/matching.js.  Users search  *)
(* from sockets (tabs); the queue is a Map from socket ids to entries kept *)
(* in insertion order, and a memory of the pairs it made recently.         *)
(*                                                                         *)
(* The Map is the partial function `waiting' together with its insertion   *)
(* order `before'.  Time is relative: an entry carries how long it has     *)
(* waited (Date.now() - since) and a remembered pair how long ago it was   *)
(* made, both saturating where no comparison in the code can tell larger   *)
(* values apart, so no bound on the clock is needed.                       *)
(*                                                                         *)
(* sweep() is one synchronous loop.  It is one step per iteration here,    *)
(* and every other action waits for the loop to end, as other handlers do  *)
(* in the single JavaScript thread.                                        *)
(***************************************************************************)
EXTENDS Naturals

CONSTANTS
    Users,          \* people, identified by e-mail in the code
    Sockets,        \* Socket.IO connections, one per tab
    OwnerOf,        \* the user a socket authenticated as
    FiltersOf,      \* the interest filters a tab may search with
    PrefFallback,   \* prefFallbackMs: a filter relaxes after this wait
    SearchTimeout,  \* searchTimeoutMs: a search is given up after this wait
    RecentPair,     \* recentPairMs: how long a pair is not matched again
    Contested       \* the pairs a block or a ban may come between

ASSUME OwnerAssumption == OwnerOf \in [Sockets -> Users]
ASSUME DelayAssumption ==
    /\ PrefFallback \in Nat \ {0}
    /\ SearchTimeout \in Nat \ {0}
    /\ RecentPair \in Nat \ {0}

OwnersOf(S) == {OwnerOf[s] : s \in S}
Pairs == {p \in {{u, v} : u, v \in Users} : \E u, v \in p : u # v}

InterestSets == UNION {FiltersOf[s] : s \in Sockets}

ASSUME ContestedAssumption == Contested \subseteq Pairs

VARIABLES
    waiting,    \* the Map: socket -> entry
    before,     \* its insertion order: <<s, t>> when s was inserted first
    recent,     \* the Map `recent': pair of users -> time since they met
    connected,  \* the sockets whose isConnected() is true
    refused,    \* the pairs canPair() turns down (a block, a ban)
    todo,       \* entries of the sweep's snapshot not visited yet
    sweeping,   \* inside sweep()
    matched,    \* the two sockets of this step's onMatch call, or {}
    made        \* history: the pairs matched less than RecentPair ago

vars == <<waiting, before, recent, connected, refused, todo, sweeping,
          matched, made>>

MaxAge == IF PrefFallback > SearchTimeout THEN PrefFallback ELSE SearchTimeout
Entry == [sock : Sockets, age : 0..MaxAge, interests : InterestSets]
Queued == DOMAIN waiting

TypeOK ==
    /\ Queued \subseteq Sockets
    /\ waiting \in [Queued -> Entry]
    /\ \A s \in Queued : waiting[s].sock = s
    /\ before \subseteq Queued \X Queued
    /\ DOMAIN recent \subseteq Pairs
    /\ recent \in [DOMAIN recent -> 0..RecentPair]
    /\ connected \subseteq Sockets
    /\ refused \subseteq Pairs
    /\ todo \subseteq Queued
    /\ sweeping \in BOOLEAN /\ (~sweeping => todo = {})
    /\ matched \subseteq Sockets
    /\ DOMAIN made \subseteq Pairs
    /\ made \in [DOMAIN made -> 0..RecentPair]

Init ==
    /\ waiting = [s \in {} |-> {}]
    /\ before = {}
    /\ recent = [p \in {} |-> 0]
    /\ connected = Sockets
    /\ refused = {}
    /\ todo = {}
    /\ sweeping = FALSE
    /\ matched = {}
    /\ made = [p \in {} |-> 0]

-----------------------------------------------------------------------------
(* compatible(), findPartner() and pair().                                 *)

PairedRecently(p) == p \in DOMAIN recent /\ recent[p] < RecentPair

\* Mutant: the filter never relaxes.
InterestsStrict(a, b) ==
    a.interests = {} \/ b.interests = {} \/ a.interests \cap b.interests # {}
InterestsAllow(a, b) ==
    \/ a.interests = {} \/ b.interests = {}
    \/ a.interests \cap b.interests # {}
    \/ a.age >= PrefFallback \/ b.age >= PrefFallback

Compatible(a, b) ==
    /\ OwnerOf[a.sock] # OwnerOf[b.sock]
    /\ {a.sock, b.sock} \subseteq connected
    /\ ~PairedRecently(OwnersOf({a.sock, b.sock}))
    /\ InterestsAllow(a, b)
    /\ OwnersOf({a.sock, b.sock}) \notin refused

Candidates(e) == {c \in Queued : c # e.sock /\ Compatible(e, waiting[c])}

\* The candidate findPartner(e) returns: the first in insertion order.
IsPartner(e, p) ==
    /\ p \in Candidates(e)
    /\ \A c \in Candidates(e) : c = p \/ <<p, c>> \in before

\* Entries findPartner(e) deletes on its way: dead ones, up to its result.
Dead(e) == {d \in Queued : d # e.sock /\ d \notin connected}
DeadBefore(e, p) == {d \in Dead(e) : <<d, p>> \in before}

Keep(S) == /\ waiting' = [s \in S |-> waiting[s]]
           /\ before' = before \cap (S \X S)

Drop(S) == Keep(Queued \ S)

Pair(s, t) ==
    LET p == OwnersOf({s, t})
    IN  /\ recent' = [q \in DOMAIN recent \cup {p} |-> IF q = p THEN 0 ELSE recent[q]]
        /\ made' = [q \in DOMAIN made \cup {p} |-> IF q = p THEN 0 ELSE made[q]]
        /\ matched' = {s, t}

NoPair == /\ matched' = {}
          /\ UNCHANGED <<recent, made>>

-----------------------------------------------------------------------------
(* Operations called by the socket handlers.                               *)

\* Mutant: nobody's earlier searches are found.
NoEntriesOf(u) == {}
EntriesOf(u) == {s \in Queued : OwnerOf[s] = u}

NewEntry(s, interests) == [sock |-> s, age |-> 0, interests |-> interests]

\* add(): the user's other searches go, then the new one is paired at once
\* or joins the end of the queue.
Add(s, interests) ==
    /\ ~sweeping
    /\ s \in connected
    /\ LET e   == NewEntry(s, interests)
           own == EntriesOf(OwnerOf[s])
       IN  \/ \E p \in Queued :
                /\ IsPartner(e, p)
                /\ Drop(own \cup {p} \cup DeadBefore(e, p))
                /\ Pair(s, p)
           \/ /\ Candidates(e) = {}
              /\ LET kept == Queued \ (own \cup Dead(e))
                 IN  /\ waiting' = [t \in kept \cup {s} |->
                                      IF t = s THEN e ELSE waiting[t]]
                     /\ before' = (before \cap (kept \X kept)) \cup (kept \X {s})
              /\ NoPair
    /\ UNCHANGED <<connected, refused, todo, sweeping>>

\* remove(): cancel_match, join_direct and the disconnect handler.
Remove(s) ==
    /\ ~sweeping
    /\ s \in Queued
    /\ Drop({s})
    /\ NoPair
    /\ UNCHANGED <<connected, refused, todo, sweeping>>

\* removeEmail() as kickUser() calls it, for a banned or deleted account.
RemoveEmail(u) ==
    /\ ~sweeping
    /\ EntriesOf(u) # {}
    /\ Drop(EntriesOf(u))
    /\ NoPair
    /\ UNCHANGED <<connected, refused, todo, sweeping>>

-----------------------------------------------------------------------------
(* sweep(), called by a timer every two seconds.                           *)

SweepStart ==
    /\ ~sweeping
    /\ sweeping' = TRUE
    /\ todo' = Queued
    /\ NoPair
    /\ UNCHANGED <<waiting, before, connected, refused>>

\* Mutant: no search times out.
NeverExpired(s) == FALSE
Expired(s) == waiting[s].age >= SearchTimeout

\* What findPartner() makes of an entry neither dead nor expired.
VisitLive(s) ==
    LET e == waiting[s]
    IN  \/ \E p \in Queued : /\ IsPartner(e, p)
                             /\ Drop({s, p} \cup DeadBefore(e, p))
                             /\ Pair(s, p)
        \/ /\ Candidates(e) = {}
           /\ Drop(Dead(e))
           /\ NoPair

TodoAfter(s) == (todo \cap DOMAIN waiting') \ {s}

\* One iteration, for the earliest snapshot entry still in the queue.
SweepVisit(s) ==
    /\ sweeping
    /\ s \in todo
    /\ \A t \in todo : t = s \/ <<s, t>> \in before
    /\ \/ /\ s \notin connected \/ Expired(s)
          /\ Drop({s})
          /\ NoPair
       \/ s \in connected /\ ~Expired(s) /\ VisitLive(s)
    /\ todo' = TodoAfter(s)
    /\ UNCHANGED <<connected, refused, sweeping>>

\* Mutant: the comparison is the wrong way round.
PrunedBackwards == {p \in DOMAIN recent : recent[p] >= RecentPair}
Pruned == {p \in DOMAIN recent : recent[p] < RecentPair}

SweepEnd ==
    /\ sweeping
    /\ todo = {}
    /\ sweeping' = FALSE
    /\ recent' = [p \in Pruned |-> recent[p]]
    /\ matched' = {}
    /\ UNCHANGED <<waiting, before, connected, refused, todo, made>>

-----------------------------------------------------------------------------
(* The queue's surroundings: sockets, blocks and bans, the clock.          *)

Disconnect(s) ==
    /\ ~sweeping
    /\ s \in connected
    /\ connected' = connected \ {s}
    /\ NoPair
    /\ UNCHANGED <<waiting, before, refused, todo, sweeping>>

\* Socket ids are not reused, so an entry's own socket never comes back.
Connect(s) ==
    /\ ~sweeping
    /\ s \notin connected /\ s \notin Queued
    /\ connected' = connected \cup {s}
    /\ NoPair
    /\ UNCHANGED <<waiting, before, refused, todo, sweeping>>

Refuse(p) ==
    /\ ~sweeping
    /\ refused' = IF p \in refused THEN refused \ {p} ELSE refused \cup {p}
    /\ NoPair
    /\ UNCHANGED <<waiting, before, connected, todo, sweeping>>

Older(n, max) == IF n < max THEN n + 1 ELSE n
Aged(e) == [e EXCEPT !.age = Older(@, MaxAge)]

Tick ==
    /\ ~sweeping
    /\ waiting' = [s \in Queued |-> Aged(waiting[s])]
    /\ recent' = [p \in DOMAIN recent |-> Older(recent[p], RecentPair)]
    /\ made' = [p \in {q \in DOMAIN made : made[q] + 1 < RecentPair} |-> made[p] + 1]
    /\ matched' = {}
    /\ UNCHANGED <<before, connected, refused, todo, sweeping>>

Sweep == SweepStart \/ (\E s \in Sockets : SweepVisit(s)) \/ SweepEnd

Next ==
    \/ \E s \in Sockets, i \in InterestSets : i \in FiltersOf[s] /\ Add(s, i)
    \/ \E s \in Sockets : Remove(s) \/ Disconnect(s) \/ Connect(s)
    \/ \E u \in Users : RemoveEmail(u)
    \/ \E p \in Contested : Refuse(p)
    \/ Sweep
    \/ Tick

\* Node's interval keeps firing and a loop once entered runs to its end; time
\* passes however often sweeps run.  Nothing is promised of the users.
Fairness == WF_vars(Sweep) /\ SF_vars(Tick)

Spec == Init /\ [][Next]_vars
FairSpec == Spec /\ Fairness

-----------------------------------------------------------------------------
(* Properties.                                                             *)

\* "A user is only ever in the queue once, whichever tab they search from"
\* (matching.js:27): no two entries belong to the same user, so nobody can
\* be handed two partners for one search.
OneEntryPerUser ==
    \A s, t \in Queued : OwnerOf[s] = OwnerOf[t] => s = t

\* "Insertion-ordered Map, so the longest waiter is tried first"
\* (matching.js:1): the iteration order is total and always agrees with the
\* waiting times, through re-adds, pairings and sweeps.
LongestWaiterFirst ==
    /\ \A s, t \in Queued : s = t \/ <<s, t>> \in before \/ <<t, s>> \in before
    /\ \A s, t \in Queued : <<s, t>> \in before =>
            <<t, s>> \notin before /\ waiting[s].age >= waiting[t].age

\* Whoever onMatch() is called for are two people, both connected, not kept
\* apart by a block or ban, and neither is still searching from any tab.
MatchesAreSound ==
    matched # {} =>
        /\ \E s, t \in matched : matched = {s, t} /\ OwnerOf[s] # OwnerOf[t]
        /\ matched \subseteq connected
        /\ OwnersOf(matched) \notin refused
        /\ OwnersOf(matched) \cap OwnersOf(Queued) = {}

\* The invariant of the queue.
QueueIsSound ==
    TypeOK /\ OneEntryPerUser /\ LongestWaiterFirst /\ MatchesAreSound

\* Two users are not matched again within RecentPair, although `recent' is
\* overwritten by new pairs and pruned by every sweep.
NoEarlyRematch ==
    [][matched' # {} => OwnersOf(matched') \notin DOMAIN made]_vars

\* When a sweep ends, no two entries it leaves could have been paired once
\* the interest filter is off: both connected, nothing against the pair, one
\* of them past prefFallbackMs ("so waits stay short", matching.js:2).  It
\* is not enough that each entry was tried: entries it was tried against
\* must not become eligible later in the same loop.
CouldPair(s, t) ==
    /\ OwnerOf[s] # OwnerOf[t]
    /\ {s, t} \subseteq connected
    /\ OwnersOf({s, t}) \notin DOMAIN made \cup refused
    /\ waiting[s].age >= PrefFallback \/ waiting[t].age >= PrefFallback
SweepLeavesNoPair ==
    [][sweeping /\ ~sweeping' => ~\E s, t \in Queued : CouldPair(s, t)]_vars

\* No search goes on for ever: it is matched, given up, withdrawn or started
\* over.
EverySearchEnds ==
    \A s \in Sockets : []<>(s \notin Queued \/ waiting[s].age = 0)

\* What the loop of sweep() maintains: entries already visited are not
\* compatible with any entry left.
VisitedAreUnpaired ==
    sweeping => \A s \in Queued \ todo, t \in Queued :
                    s # t => ~Compatible(waiting[s], waiting[t])

\* The memory is exact: a pair was matched less than RecentPair ago iff
\* `recent' says so.
RecentIsExact ==
    /\ DOMAIN made = {p \in DOMAIN recent : recent[p] < RecentPair}
    /\ \A p \in DOMAIN made : made[p] = recent[p]

=============================================================================
