---------------------------------- MODULE Otp ----------------------------------
(***************************************************************************)
(* Phone login, backend/src/otp.js: codes and the caps on them, the serial *)
(* queue of sends with its kill switch, and the tries at a code.           *)
(*                                                                         *)
(* JavaScript runs requestOtp() without a break up to the await of the     *)
(* send, and verifyOtp() from end to end: both are one step.  The table is *)
(* on disk, the queue and the switch are in memory.                        *)
(***************************************************************************)
EXTENDS Naturals, Sequences, FiniteSets

CONSTANTS
    Phones, Ips,
    Codes,          \* bound: rows of otp_codes at a time, by session id
    PerNumber,      \* perNumberPerDay
    PerIp,          \* perIpPerHour
    DailyCap,
    ResendGap, Ttl, Hour, Day, Week,
    CodeAttempts,
    MinSendGap,
    QueueLimit,     \* the 5 of enqueueSend()
    Kept, Recent,   \* the 50 and 20 outcomes of recordOutcome()
    HardLimit,      \* its 5
    Enough          \* its 10

ASSUME CapsAssumption == PerNumber \in Nat /\ PerIp \in Nat /\ DailyCap \in Nat
ASSUME TimesAssumption == Day \in Nat /\ Week \in Nat /\ Hour \in Nat /\ Ttl < Day
                          /\ Hour <= Day /\ Day <= Week /\ ResendGap <= Day
ASSUME TriesAssumption == CodeAttempts \in Nat \ {0}
ASSUME QueueAssumption == MinSendGap \in Nat /\ QueueLimit \in Nat \ {0}
ASSUME OutcomesAssumption == Kept \in Nat \ {0} /\ Recent \in Nat \ {0}
ASSUME CodesAssumption == IsFiniteSet(Codes)

VARIABLES
    rows,       \* otp_codes
    line,       \* the codes in the promise chain `queue', the first being sent
    stage,      \* of the first: "idle" (not begun), "asleep" or "sending"
    left,       \* what remains of its sleep
    sinceSent,  \* the time since lastSentAt
    outcomes,   \* state.outcomes
    switch,     \* "thrown" when state.disabled, else "set"
    late        \* history: sends ended since the switch was thrown

queue == <<line, stage, left, sinceSent, outcomes, switch, late>>
otpVars == <<rows, queue>>

OutcomeKinds == {"ok", "not_on_whatsapp", "hard", "other"}
\* A code is "secret" until its session id was returned to who asked, "open"
\* from then on, and "used" (used = 1) when it logged in, or is void.
Row == [phone : Phones, ip : Ips, age : 0..Week, attempts : 0..CodeAttempts,
        state : {"secret", "open", "used"}]

OtpTypeOK ==
    /\ DOMAIN rows \subseteq Codes
    /\ rows \in [DOMAIN rows -> Row]
    /\ line \in Seq(Codes)
    /\ stage \in {"idle", "asleep", "sending"}
    /\ left \in 0..MinSendGap
    /\ sinceSent \in 0..MinSendGap
    /\ outcomes \in Seq(OutcomeKinds)
    /\ switch \in {"set", "thrown"}
    /\ late \in Nat

OtpInit ==
    /\ rows = [c \in {} |-> {}]
    /\ line = <<>> /\ stage = "idle" /\ left = 0 /\ sinceSent = MinSendGap
    /\ outcomes = <<>> /\ switch = "set"
    /\ late = 0

-----------------------------------------------------------------------------
(* requestOtp() and enqueueSend().                                         *)

Within(c, time) == rows[c].age < time
InLine == {line[i] : i \in DOMAIN line}
OfPhone(p, time) == {c \in DOMAIN rows : rows[c].phone = p /\ Within(c, time)}
OfIp(ip) == {c \in DOMAIN rows : rows[c].ip = ip /\ Within(c, Hour)}
OfDay == {c \in DOMAIN rows : Within(c, Day)}

\* Mutant: a code counts when it has been sent.
AllowedUnsent(p, ip) ==
    /\ OfPhone(p, ResendGap) = {}
    /\ Cardinality(OfPhone(p, Day) \ InLine) < PerNumber
    /\ Cardinality(OfIp(ip) \ InLine) < PerIp
    /\ Cardinality(OfDay \ InLine) < DailyCap
Allowed(p, ip) ==
    /\ OfPhone(p, ResendGap) = {}
    /\ Cardinality(OfPhone(p, Day)) < PerNumber
    /\ Cardinality(OfIp(ip)) < PerIp
    /\ Cardinality(OfDay) < DailyCap

Accepting == switch = "set"

\* The row is written first; then the queue may turn out to be full.
RequestOtp(p, ip, c) ==
    /\ Accepting
    /\ Allowed(p, ip)
    /\ c \notin DOMAIN rows \cup InLine
    /\ rows' = [d \in DOMAIN rows \cup {c} |->
                  IF d # c THEN rows[d]
                  ELSE [phone |-> p, ip |-> ip, age |-> 0, attempts |-> 0,
                        state |-> "secret"]]
    /\ line' = IF Len(line) >= QueueLimit THEN line ELSE Append(line, c)
    /\ UNCHANGED <<stage, left, sinceSent, outcomes, switch, late>>

\* What is typed is a number with or without a prefix.  The caps count it
\* without, however it is written; normalizePhone() takes off a 0, a 91 or both
\* and refuses what is then not a mobile number.
Written == [prefix : {"none", "091", "00"}, number : Phones]
NormalizePhone(w) == IF w.prefix = "00" THEN {} ELSE {w.number}

\* POST /otp/request
OtpRequest(w, ip, c) == \E p \in NormalizePhone(w) : RequestOtp(p, ip, c)

-----------------------------------------------------------------------------
(* A job of the queue.                                                     *)

\* Mutant: the gap is not waited for.
PauseNot == 0
Pause == MinSendGap - sinceSent

Begin ==
    /\ stage = "idle" /\ line # <<>>
    /\ stage' = "asleep"
    /\ left' = Pause
    /\ UNCHANGED <<rows, line, sinceSent, outcomes, switch, late>>

\* Whatever the jitter adds, the sleep is over some time after `left'.
SendOpenWA ==
    /\ stage = "asleep" /\ left = 0
    /\ stage' = "sending"
    /\ UNCHANGED <<rows, line, left, sinceSent, outcomes, switch, late>>

LastOf(s, n) == IF Len(s) > n THEN SubSeq(s, Len(s) - n + 1, Len(s)) ELSE s
Count(s, kind) == Cardinality({i \in DOMAIN s : s[i] = kind})

Alarming(os) ==
    \/ Count(LastOf(os, Recent), "hard") >= HardLimit
    \/ Len(os) >= Enough /\ 10 * Count(LastOf(os, Recent), "not_on_whatsapp") > 3 * Len(os)

\* Mutant: a failed job keeps the queue.
NextJobIfOk(kind) ==
    IF kind = "ok" THEN line' = Tail(line) /\ stage' = "idle"
                   ELSE UNCHANGED <<line, stage>>
NextJob(kind) == line' = Tail(line) /\ stage' = "idle"

\* recordOutcome(), and what requestOtp() does with the result.  Its answer may
\* be lost.
Result(kind, answered) ==
    IF kind # "ok" THEN "used" ELSE IF answered THEN "open" ELSE "secret"

Sent(kind, answered) ==
    /\ stage = "sending"
    /\ NextJob(kind)
    /\ sinceSent' = 0
    /\ outcomes' = LastOf(Append(outcomes, kind), Kept)
    /\ switch' = IF Alarming(outcomes') THEN "thrown" ELSE switch
    /\ late' = IF switch = "thrown" THEN late + 1 ELSE late
    /\ rows' = [c \in DOMAIN rows |->
                  IF c # Head(line) THEN rows[c]
                  ELSE [rows[c] EXCEPT !.state = Result(kind, answered)]]
    /\ UNCHANGED left

-----------------------------------------------------------------------------
(* verifyOtp().                                                            *)

\* Mutant: one try too many.
TriesLeftOneMore(c) == rows[c].attempts <= CodeAttempts
TriesLeft(c) == rows[c].attempts < CodeAttempts

\* An expired or exhausted code is void, and so is one that logged in.
Verify(c, right) ==
    /\ c \in DOMAIN rows /\ rows[c].state = "open"
    /\ IF rows[c].age <= Ttl /\ TriesLeft(c) /\ ~right
       THEN rows' = [rows EXCEPT ![c].attempts = @ + 1]
       ELSE rows' = [rows EXCEPT ![c].state = "used"]
    /\ UNCHANGED queue

-----------------------------------------------------------------------------
(* Jobs, time and restarts.                                                *)

PurgeOldOtpCodes ==
    /\ \E c \in DOMAIN rows : ~Within(c, Week)
    /\ rows' = [c \in {d \in DOMAIN rows : Within(d, Week)} |-> rows[c]]
    /\ UNCHANGED queue

Older(age, most) == IF age < most THEN age + 1 ELSE most

Tick ==
    /\ rows' = [c \in DOMAIN rows |-> [rows[c] EXCEPT !.age = Older(@, Week)]]
    /\ left' = IF left > 0 THEN left - 1 ELSE 0
    /\ sinceSent' = Older(sinceSent, MinSendGap)
    /\ UNCHANGED <<line, stage, outcomes, switch, late>>

Restart ==
    /\ line' = <<>> /\ stage' = "idle" /\ left' = 0 /\ sinceSent' = MinSendGap
    /\ outcomes' = <<>> /\ switch' = "set"
    /\ late' = 0
    /\ UNCHANGED rows

OtpNext ==
    \/ \E w \in Written, ip \in Ips, c \in Codes : OtpRequest(w, ip, c)
    \/ Begin \/ SendOpenWA
    \/ \E kind \in OutcomeKinds, answered \in BOOLEAN : Sent(kind, answered)
    \/ \E c \in Codes, right \in BOOLEAN : Verify(c, right)
    \/ PurgeOldOtpCodes \/ Tick \/ Restart

\* Every await of a job ends: sleep() by its timer, the send by the 15 s of
\* sendOpenWA(); and time passes.
OtpFairness == WF_otpVars(Begin) /\ WF_otpVars(SendOpenWA) /\ WF_otpVars(Tick)
               /\ WF_otpVars(\E kind \in OutcomeKinds, answered \in BOOLEAN : Sent(kind, answered))

OtpSpec == OtpInit /\ [][OtpNext]_otpVars
OtpFairSpec == OtpSpec /\ OtpFairness

-----------------------------------------------------------------------------
(* Properties.                                                             *)

\* The caps of the "ban-minimizing rules" (otp.js:4-7): whatever waits in the
\* queue, fails or is lost with a restart, no number, address or day ever
\* gets more codes than it may.
CapsHold ==
    /\ \A p \in Phones : Cardinality(OfPhone(p, Day)) <= PerNumber
    /\ \A ip \in Ips : Cardinality(OfIp(ip)) <= PerIp
    /\ Cardinality(OfDay) <= DailyCap

\* "a serial queue with a human-like delay" (otp.js:6), "no bursts"
\* (otp.js:116): a message leaves MinSendGap after the one before, or later,
\* as long as the process lives.
SendsAreSpaced == [][stage' = "sending" /\ stage # "sending" => sinceSent >= MinSendGap]_otpVars

\* "an automatic kill switch on error spikes" (otp.js:7): once it is thrown
\* the sender is used for what was already in line, and for no more.
KillSwitchHolds == late < QueueLimit

\* The invariant of the sender.
OtpHolds == OtpTypeOK /\ CapsHold /\ KillSwitchHolds

\* A code can be asked for again, and each has its own tries; all the codes of
\* a day together leave a number no more wrong guesses than that.
Guesses(p) == UNION {{c} \X (1..rows[c].attempts) : c \in OfPhone(p, Day)}
GuessesAreBounded == \A p \in Phones : Cardinality(Guesses(p)) <= PerNumber * CodeAttempts

\* Who asked for a code hears of it: the queue moves on, also after failures.
EveryRequestEnds == \A c \in Codes : c \in InLine ~> c \notin InLine

===============================================================================
