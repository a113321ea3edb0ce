----------------------------- MODULE LoginProofs ------------------------------
(***************************************************************************)
(* Proofs about the two halves of logging in.  Sessions, for any number of *)
(* tabs, tokens and calls: every token has one owner, and the socket is    *)
(* always the signed-in user's own.  Otp, for every choice of its caps and *)
(* times: the caps hold through queue, failures and restarts, sends are    *)
(* spaced, and the kill switch stops the sender.                           *)
(***************************************************************************)
EXTENDS Sessions, Otp, FiniteSetTheorems, TLAPS

-----------------------------------------------------------------------------
(* How an action changes the calls.                                        *)

LEMMA SendKeeps ==
    ASSUME TokensAreInOrder, NEW t \in Tabs, NEW kind \in Kinds, NEW token \in Maybe,
           Send(t, kind, token), issued' = issued
    PROVE  /\ calls' \subseteq Call
           /\ Answers'
           /\ \A c \in calls' : c.fresh # NoToken => c \in calls
           /\ calls' = calls \cup {Request(t, kind, token)}
<1> DEFINE r == Request(t, kind, token)
<1>1. r \in Call /\ r.fresh = NoToken /\ r.reply = "none"
    BY DEF Request, Call, Maybe
<1>2. calls' = calls \cup {r}
    BY DEF Send
<1> HIDE DEF r
<1>3. QED
    BY <1>1, <1>2 DEF TokensAreInOrder, TypeOK, Answers, r

LEMMA AbandonKeeps ==
    ASSUME TokensAreInOrder, NEW cs \in SUBSET calls, Abandon(cs), issued' = issued
    PROVE  /\ calls' \subseteq Call
           /\ Answers'
           /\ \A c \in calls' : c.fresh # NoToken => c \in calls
           /\ \A c \in calls' : c.tab # NoTab => c \in calls \ cs
<1> DEFINE Left(c) == [c EXCEPT !.tab = NoTab]
<1>1. \A c \in calls : c \in Call
    BY DEF TokensAreInOrder, TypeOK
<1>2. \A c \in Call : /\ Left(c) \in Call /\ Left(c).tab = NoTab /\ Left(c).kind = c.kind
                      /\ Left(c).reply = c.reply /\ Left(c).fresh = c.fresh
    BY DEF Call
<1>3. \A c \in calls' : \/ c \in calls \ cs
                        \/ \E d \in cs : d.reply = "none" /\ c = Left(d)
    BY DEF Abandon
<1> HIDE DEF Left
<1>4. \A c \in calls' : c \notin calls \ cs =>
          c \in Call /\ c.tab = NoTab /\ c.reply = "none" /\ c.fresh = NoToken
    BY <1>1, <1>2, <1>3 DEF TokensAreInOrder, Answers
<1>5. QED
    BY <1>1, <1>4 DEF TokensAreInOrder, Answers

\* A reply with a fresh token, or with none.
LEMMA ReplyKeeps ==
    ASSUME TokensAreInOrder, NEW c \in calls, c.reply = "none",
           NEW reply \in {"ok", "unauthorized"}, NEW token \in Maybe,
           Reply(c, reply, token), issued \subseteq issued',
           token # NoToken => token \in issued' \ issued,
           reply = "ok" /\ c.kind \in {"resume"} \cup Logins => token # NoToken
    PROVE  /\ calls' \subseteq Call
           /\ Answers'
           /\ (Entering /\ UNCHANGED <<phase, crossed>>) => Entering'
           /\ \A d \in calls' : d.fresh # NoToken => d \in calls \/ d.fresh \notin issued
<1> DEFINE r == [c EXCEPT !.reply = reply, !.fresh = token]
<1>1. c \in Call /\ \A d \in calls : d \in Call
    BY DEF TokensAreInOrder, TypeOK
<1>2. r \in Call /\ r.tab = c.tab /\ r.kind = c.kind /\ r.reply = reply /\ r.fresh = token
    BY <1>1 DEF Call
<1>3. calls' = (calls \ {c}) \/ calls' = (calls \ {c}) \cup {r}
    BY DEF Reply
<1> HIDE DEF r
<1>4. calls' \subseteq Call
    BY <1>1, <1>2, <1>3
<1>5. \A d \in calls' : d \in calls \ {c} \/ d = r
    BY <1>3
<1>6. Answers'
    BY <1>2, <1>5 DEF TokensAreInOrder, Answers
<1>7. ASSUME Entering, UNCHANGED <<phase, crossed>> PROVE Entering'
    BY <1>2, <1>5, <1>7 DEF Entering
<1>8. QED
    BY <1>2, <1>4, <1>5, <1>6, <1>7

-----------------------------------------------------------------------------

LEMMA InitInv == Init => TokensAreInOrder
BY NoneAssumption DEF Init, TokensAreInOrder, TypeOK, Answers, Entering, Inside, TokensAreNotShared,
       SocketIsOwn, Maybe

\* logout() in a tab that is not closed and no longer waits for resume.
LEMMA LogOutKeeps ==
    ASSUME TokensAreInOrder, NEW t \in Tabs, LogOut(t), UNCHANGED <<issued, sessions, crossed>>,
           phase[t] # "closed", calls' \subseteq Call, Answers',
           \A c \in calls' : c.fresh # NoToken => c \in calls,
           \A c \in calls' : c.tab # NoTab /\ c \notin calls =>
               c.tab = t /\ c.kind = "logout",
           \A c \in calls' : c.tab = t => c.kind # "resume"
    PROVE  TokensAreInOrder'
<1> USE NoneAssumption DEF LogOut, SetToken, HangUp, TokensAreInOrder
<1>1. TypeOK'
    BY DEF TypeOK, Maybe
<1>2. Entering'
    BY DEF Entering, TypeOK, Logins
<1>3. Inside' /\ SocketIsOwn'
    BY DEF Inside, SocketIsOwn, TypeOK
<1>4. TokensAreNotShared'
    BY DEF TokensAreNotShared, TypeOK
<1>5. QED
    BY <1>1, <1>2, <1>3, <1>4

LEMMA AnswerKeeps ==
    ASSUME TokensAreInOrder, NEW c \in calls, Answer(c)
    PROVE  TokensAreInOrder'
<1>1. c \in Call /\ c.tab \in Tabs /\ c.reply # "none" /\ calls' = calls \ {c}
      /\ UNCHANGED <<sessions, issued, crossed>>
    BY DEF Answer, TokensAreInOrder, TypeOK, Call
<1>2. calls' \subseteq Call /\ Answers'
    BY <1>1 DEF TokensAreInOrder, TypeOK, Answers
<1>3. CASE c.reply = "ok" /\ c.kind \in {"resume"} \cup Logins /\ Enter(c.tab, c.fresh)
    <2> USE <1>1, <1>2, <1>3, NoneAssumption DEF Enter, SetToken, Logins, TokensAreInOrder
    <2>1. /\ c.fresh \in issued /\ c.fresh # NoToken
          /\ c.tab \notin crossed => socket[c.tab] = NoToken
        BY DEF Answers, Entering, Inside
    <2>2. TypeOK'
        BY <2>1 DEF TypeOK
    <2>3. Entering'
        BY <2>1 DEF Entering, TypeOK
    <2>4. Inside' /\ SocketIsOwn'
        BY <2>1 DEF Inside, SocketIsOwn, TypeOK
    <2>5. TokensAreNotShared'
        BY <2>1 DEF TokensAreNotShared, TypeOK, Answers
    <2>6. QED
        BY <2>2, <2>3, <2>4, <2>5
<1>4. CASE c.reply = "ok" /\ c.kind \in {"call", "logout"} /\ UNCHANGED client
    BY <1>1, <1>2, <1>4 DEF TokensAreInOrder, client, TypeOK, Entering, Inside, SocketIsOwn,
                            TokensAreNotShared
<1>5. CASE c.reply = "unauthorized" /\ LogOut(c.tab)
    <2>1. phase[c.tab] # "closed" /\ \A d \in calls' : d.tab = c.tab => d.kind # "resume"
        BY <1>1, NoneAssumption DEF TokensAreInOrder, Entering
    <2>2. QED
        BY <1>1, <1>2, <1>5, <2>1, LogOutKeeps
<1>6. QED
    BY <1>3, <1>4, <1>5 DEF Answer, OnUnauthorized

LEMMA HandleKeeps ==
    ASSUME TokensAreInOrder, NEW c \in calls, Handle(c)
    PROVE  TokensAreInOrder'
<1>1. c.reply = "none" /\ UNCHANGED <<client, crossed>>
    BY DEF Handle
<1> DEFINE Replied(reply, token) ==
          /\ Reply(c, reply, token)
          /\ issued \subseteq issued' /\ issued' \subseteq Tokens
          /\ sessions' \subseteq issued'
          /\ token # NoToken => token \in issued' \ issued
          /\ reply = "ok" /\ c.kind \in {"resume"} \cup Logins => token # NoToken
<1>2. \E reply \in {"ok", "unauthorized"}, token \in Maybe : Replied(reply, token)
    <2> USE NoneAssumption DEF TokensAreInOrder, TypeOK, Maybe
    <2>1. CASE c.kind = "resume" /\ Rotate(c)
        <3>1. PICK token \in Tokens : Create(token) /\ Reply(c, "ok", token)
                                     /\ sessions' = (sessions \ {c.token}) \cup {token}
            BY <2>1 DEF Rotate
        <3>2. Replied("ok", token)
            BY <3>1 DEF Create
        <3>3. QED
            BY <3>2
    <2>2. CASE Unauthorized(c)
        <3>1. Replied("unauthorized", NoToken)
            BY <2>2 DEF Unauthorized
        <3>2. QED
            BY <3>1
    <2>3. CASE \E token \in Tokens : /\ Create(token) /\ sessions' = sessions \cup {token}
                                    /\ Reply(c, "ok", token)
        <3>1. PICK token \in Tokens : /\ Create(token) /\ Reply(c, "ok", token)
                                     /\ sessions' = sessions \cup {token}
            BY <2>3
        <3>2. Replied("ok", token)
            BY <3>1 DEF Create
        <3>3. QED
            BY <3>2
    <2>4. CASE /\ c.kind \in {"call", "logout"} /\ Reply(c, "ok", NoToken)
               /\ issued' = issued /\ sessions' \subseteq sessions
        <3>1. Replied("ok", NoToken)
            BY <2>4 DEF Logins
        <3>2. QED
            BY <3>1
    <2> HIDE DEF Replied
    <2>5. QED
        BY <2>1, <2>2, <2>3, <2>4 DEF Handle, Revoke
<1>3. PICK reply \in {"ok", "unauthorized"}, token \in Maybe : Replied(reply, token)
    BY <1>2
<1>4. /\ calls' \subseteq Call /\ Answers' /\ Entering'
      /\ \A d \in calls' : d.fresh # NoToken => d \in calls \/ d.fresh \notin issued
    BY <1>1, <1>3, ReplyKeeps DEF TokensAreInOrder, client
<1>5. TypeOK'
    BY <1>1, <1>3, <1>4 DEF TokensAreInOrder, TypeOK, client
<1>6. (Inside /\ SocketIsOwn)'
    BY <1>1 DEF TokensAreInOrder, Inside, SocketIsOwn, client
<1>7. TokensAreNotShared'
    BY <1>1, <1>4 DEF TokensAreInOrder, TokensAreNotShared, client, TypeOK
<1>8. QED
    BY <1>4, <1>5, <1>6, <1>7 DEF TokensAreInOrder

-----------------------------------------------------------------------------

LEMMA StepInv == TokensAreInOrder /\ [Next]_vars => TokensAreInOrder'
<1> SUFFICES ASSUME TokensAreInOrder, [Next]_vars PROVE TokensAreInOrder'
    OBVIOUS
<1> USE NoneAssumption
<1>0. \A t \in Tabs : GetToken(t) \in Maybe
    BY DEF TokensAreInOrder, TypeOK, GetToken, Maybe
<1>1. CASE UNCHANGED vars
    BY <1>1 DEF TokensAreInOrder, vars, client, TypeOK, Answers, Entering, Inside, SocketIsOwn,
                TokensAreNotShared
<1>2. ASSUME NEW t \in Tabs, Open(t) PROVE TokensAreInOrder'
    <2>1. CASE stored = NoToken
        BY <1>2, <2>1 DEF Open, TokensAreInOrder, TypeOK, Answers, Entering, Inside, SocketIsOwn,
                          TokensAreNotShared
    <2>2. CASE stored # NoToken
        <3>1. stored \in Maybe /\ "resume" \in Kinds /\ Send(t, "resume", stored)
              /\ issued' = issued
            BY <1>2, <2>2 DEF Open, TokensAreInOrder, TypeOK, Maybe, Kinds
        <3>2. /\ calls' \subseteq Call /\ Answers'
              /\ \A c \in calls' : c.fresh # NoToken => c \in calls
              /\ calls' = calls \cup {Request(t, "resume", stored)}
            BY <3>1, SendKeeps
        <3>3. (TypeOK /\ Inside /\ SocketIsOwn /\ TokensAreNotShared)'
            BY <1>2, <2>2, <3>2 DEF Open, TokensAreInOrder, TypeOK, Inside, SocketIsOwn, TokensAreNotShared
        <3>4. Entering'
            BY <1>2, <2>2, <3>2 DEF Open, TokensAreInOrder, TypeOK, Entering, Request, Logins
        <3>5. QED
            BY <3>2, <3>3, <3>4 DEF TokensAreInOrder
    <2>3. QED
        BY <2>1, <2>2
<1>3. ASSUME NEW t \in Tabs, Close(t) PROVE TokensAreInOrder'
    <2> DEFINE mine == {c \in calls : c.tab = t}
    <2>1. /\ calls' \subseteq Call /\ Answers'
          /\ \A c \in calls' : c.fresh # NoToken => c \in calls
          /\ \A c \in calls' : c.tab # NoTab => c \in calls \ mine
        <3>1. mine \in SUBSET calls /\ Abandon(mine) /\ issued' = issued
            BY <1>3 DEF Close
        <3> HIDE DEF mine
        <3>2. QED
            BY <3>1, AbandonKeeps
    <2>2. (TypeOK /\ Inside /\ SocketIsOwn /\ TokensAreNotShared)'
        BY <1>3, <2>1 DEF Close, TokensAreInOrder, TypeOK, Maybe, Inside, SocketIsOwn, TokensAreNotShared
    <2>3. Entering'
        BY <1>3, <2>1 DEF Close, TokensAreInOrder, TypeOK, Entering
    <2>4. QED
        BY <2>1, <2>2, <2>3 DEF TokensAreInOrder
<1>4. ASSUME NEW t \in Tabs, Use(t) PROVE TokensAreInOrder'
    <2>1. /\ Send(t, "call", GetToken(t)) /\ phase[t] = "app" /\ "call" \in Kinds
          /\ UNCHANGED <<sessions, issued, client, crossed>>
        BY <1>4 DEF Use, Kinds
    <2>2. /\ calls' \subseteq Call /\ Answers'
          /\ calls' = calls \cup {Request(t, "call", GetToken(t))}
          /\ \A c \in calls' : c.fresh # NoToken => c \in calls
        BY <1>0, <2>1, SendKeeps
    <2>3. (TypeOK /\ Inside /\ SocketIsOwn /\ TokensAreNotShared)'
        BY <2>1, <2>2 DEF client, TokensAreInOrder, TypeOK, Inside, SocketIsOwn, TokensAreNotShared
    <2>4. Entering'
        BY <2>1, <2>2 DEF client, TokensAreInOrder, TypeOK, Entering, Request, Logins
    <2>5. QED
        BY <2>2, <2>3, <2>4 DEF TokensAreInOrder
<1>12. ASSUME NEW t \in Tabs, Submit(t) \/ VerifyCode(t) \/ GoogleCredential(t)
       PROVE TokensAreInOrder'
    <2>1. PICK kind \in Logins : Start(t, kind)
        BY <1>12 DEF Submit, VerifyCode, GoogleCredential, Logins
    <2>2. /\ calls' \subseteq Call /\ Answers'
          /\ calls' = calls \cup {Request(t, kind, NoToken)}
          /\ \A c \in calls' : c.fresh # NoToken => c \in calls
        BY <2>1, SendKeeps DEF Start, Kinds, Maybe
    <2>3. (TypeOK /\ Inside /\ SocketIsOwn /\ TokensAreNotShared)'
        BY <2>1, <2>2 DEF Start, client, TokensAreInOrder, TypeOK, Inside, SocketIsOwn, TokensAreNotShared
    <2>4. Entering'
        <3>1. /\ phase' = phase /\ phase[t] = "landing" /\ crossed \subseteq crossed'
              /\ t \notin crossed' => \A c \in calls : c.tab = t => c.kind \notin Logins
            BY <2>1 DEF Start, client, Waiting
        <3>2. QED
            BY <2>2, <3>1 DEF TokensAreInOrder, TypeOK, Entering, Request, Logins
    <2>5. QED
        BY <2>2, <2>3, <2>4 DEF TokensAreInOrder
<1>5. ASSUME NEW t \in Tabs, ClickLogout(t) PROVE TokensAreInOrder'
    <2>1. /\ Send(t, "logout", GetToken(t)) /\ LogOut(t) /\ phase[t] = "app"
          /\ UNCHANGED <<sessions, issued, crossed>> /\ "logout" \in Kinds
        BY <1>5 DEF ClickLogout, Kinds
    <2>2. /\ calls' \subseteq Call /\ Answers'
          /\ \A c \in calls' : c.fresh # NoToken => c \in calls
          /\ calls' = calls \cup {Request(t, "logout", GetToken(t))}
        BY <1>0, <2>1, SendKeeps
    <2>3. \A c \in calls' : /\ c \notin calls => c.tab = t /\ c.kind = "logout"
                            /\ c.tab = t => c.kind # "resume"
        BY <2>1, <2>2 DEF TokensAreInOrder, Entering, Request
    <2>4. QED
        BY <2>1, <2>2, <2>3, LogOutKeeps
<1>6. ASSUME NEW t \in Tabs, Connect(t) PROVE TokensAreInOrder'
    <2>1. CASE LogOut(t)
        <3>1. /\ calls' \subseteq Call /\ Answers' /\ phase[t] = "app" /\ calls' = calls
              /\ UNCHANGED <<sessions, issued, crossed>>
              /\ \A c \in calls' : c.tab = t => c.kind # "resume"
            BY <1>6 DEF Connect, TokensAreInOrder, TypeOK, Answers, Entering
        <3>2. QED
            BY <2>1, <3>1, LogOutKeeps
    <2>2. CASE ~LogOut(t)
        <3>1. socket' = [socket EXCEPT ![t] = memory[t]] /\ phase[t] = "app"
              /\ UNCHANGED <<sessions, issued, stored, memory, phase, calls, crossed>>
            BY <1>6, <2>2 DEF Connect, GetToken, TokensAreInOrder, Inside
        <3>2. QED
            BY <3>1 DEF TokensAreInOrder, TypeOK, Maybe, Answers, Entering, Inside, SocketIsOwn,
                        TokensAreNotShared
    <2>3. QED
        BY <2>1, <2>2
<1>7. ASSUME NEW t \in Tabs, Disconnect(t) PROVE TokensAreInOrder'
    BY <1>7 DEF Disconnect, HangUp, TokensAreInOrder, TypeOK, Maybe, Answers, Entering, Inside,
                SocketIsOwn, TokensAreNotShared
<1>8. ASSUME NEW c \in calls, Fail(c) PROVE TokensAreInOrder'
    <2>1. c \in Call /\ c.tab \in Tabs /\ UNCHANGED <<sessions, issued, crossed>>
        BY <1>8 DEF Fail, TokensAreInOrder, TypeOK, Call
    <2>2. /\ calls' \subseteq Call /\ Answers'
          /\ \A d \in calls' : d.fresh # NoToken => d \in calls
          /\ \A d \in calls' : d.tab # NoTab => d \in calls \ {c}
        <3>1. {c} \in SUBSET calls /\ Abandon({c})
            BY <1>8 DEF Fail
        <3>2. QED
            BY <2>1, <3>1, AbandonKeeps
    <2>3. CASE c.kind = "resume" /\ GiveUp(c.tab)
        <3>1. phase[c.tab] = "boot" /\ socket[c.tab] = NoToken
            BY <2>1, <2>3 DEF TokensAreInOrder, Entering, Inside
        <3>2. (TypeOK /\ Inside /\ SocketIsOwn /\ TokensAreNotShared)'
            BY <2>1, <2>2, <2>3, <3>1 DEF GiveUp, SetToken, TokensAreInOrder, TypeOK, Inside, SocketIsOwn,
                                          TokensAreNotShared
        <3>3. Entering'
            BY <2>1, <2>2, <2>3, <3>1 DEF GiveUp, SetToken, TokensAreInOrder, TypeOK, Entering
        <3>4. QED
            BY <2>2, <3>2, <3>3 DEF TokensAreInOrder
    <2>4. CASE UNCHANGED client
        BY <2>1, <2>2, <2>4 DEF client, TokensAreInOrder, TypeOK, Entering, Inside, SocketIsOwn,
                                TokensAreNotShared
    <2>5. QED
        BY <1>8, <2>3, <2>4 DEF Fail
<1>9. ASSUME NEW c \in calls, Drop(c) PROVE TokensAreInOrder'
    BY <1>9 DEF Drop, client, TokensAreInOrder, TypeOK, Answers, Entering, Inside, SocketIsOwn,
                TokensAreNotShared
<1>10. ASSUME NEW token \in Tokens, Expire(token) PROVE TokensAreInOrder'
    BY <1>10 DEF Expire, Revoke, client, TokensAreInOrder, TypeOK, Answers, Entering, Inside, SocketIsOwn,
                 TokensAreNotShared
<1>11. ASSUME NEW expired \in SUBSET sessions, PurgeExpiredSessions(expired) PROVE TokensAreInOrder'
    BY <1>11 DEF PurgeExpiredSessions, client, TokensAreInOrder, TypeOK, Answers, Entering, Inside,
                 SocketIsOwn, TokensAreNotShared
<1>13. QED
    BY <1>1, <1>2, <1>3, <1>4, <1>5, <1>6, <1>7, <1>8, <1>9, <1>10, <1>11, <1>12, AnswerKeeps, HandleKeeps
       DEF Next

\* Whatever the tabs of a browser resume, log in and out, and however late they
\* hear of it, the invariant of Sessions holds.
THEOREM AlwaysInOrder == Spec => []TokensAreInOrder
BY InitInv, StepInv, PTL DEF Spec

\* The browser's tabs and the server only ever hold tokens and calls of the
\* right kind, and no session without an issued token.
THEOREM TypeCorrect == Spec => []TypeOK
BY AlwaysInOrder, PTL DEF TokensAreInOrder

\* No interleaving of tabs resuming one stored token, late answers and lost
\* calls makes two tabs hold the same token.
THEOREM NoSharedToken == Spec => []TokensAreNotShared
BY AlwaysInOrder, PTL DEF TokensAreInOrder

\* Whatever is answered late, the socket is the signed-in user's, unless the
\* tab's logins crossed.
THEOREM OwnSocket == Spec => []SocketIsOwn
BY AlwaysInOrder, PTL DEF TokensAreInOrder

-----------------------------------------------------------------------------
(* Codes by phone (Otp).                                                   *)

\* Who sleeps will not wake before MinSendGap is over.
SleepIsLongEnough ==
    /\ stage = "asleep" => left + sinceSent >= MinSendGap
    /\ stage # "idle" => line # <<>>

\* What may still be sent after the switch is in line already.
LineIsShort ==
    /\ Len(line) <= QueueLimit
    /\ IF switch = "thrown" THEN late + Len(line) < QueueLimit ELSE late = 0

OtpInv == OtpTypeOK /\ CapsHold /\ SleepIsLongEnough /\ LineIsShort

-----------------------------------------------------------------------------
(* Sequences and windows.                                                  *)

LEMMA LastOfType ==
    ASSUME NEW S, NEW s \in Seq(S), NEW n \in Nat \ {0}
    PROVE  LastOf(s, n) \in Seq(S)
<1>1. Len(s) \in Nat /\ \A i \in 1..Len(s) : s[i] \in S
    OBVIOUS
<1>2. CASE Len(s) > n
    <2>1. Len(s) - n + 1 \in 1..Len(s)
        BY <1>1, <1>2
    <2>2. SubSeq(s, Len(s) - n + 1, Len(s)) \in Seq(S)
        BY <1>1, <2>1
    <2>3. QED
        BY <1>2, <2>2 DEF LastOf
<1>3. QED
    BY <1>1, <1>2 DEF LastOf

\* Two sets of rows, the second without anything new but one code.
LEMMA Grows ==
    ASSUME NEW S, IsFiniteSet(S), NEW T, NEW c, T \subseteq S \cup {c},
           NEW n \in Nat, Cardinality(S) < n
    PROVE  Cardinality(T) <= n
<1>1. Cardinality(S) \in Nat
    BY FS_CardinalityType
<1>2. IsFiniteSet(S \cup {c})
    BY FS_AddElement
<1>3. Cardinality(S \cup {c}) = IF c \in S THEN Cardinality(S) ELSE Cardinality(S) + 1
    BY FS_AddElement
<1>4. IsFiniteSet(T) /\ Cardinality(T) <= Cardinality(S \cup {c})
    BY <1>2, FS_Subset
<1>5. Cardinality(T) \in Nat
    BY <1>4, FS_CardinalityType
<1>6. QED
    BY <1>1, <1>3, <1>4, <1>5

LEMMA Shrinks ==
    ASSUME NEW S, IsFiniteSet(S), NEW T \in SUBSET S, NEW n \in Nat, Cardinality(S) <= n
    PROVE  Cardinality(T) <= n
<1>1. Cardinality(T) <= Cardinality(S) /\ IsFiniteSet(T)
    BY FS_Subset
<1>2. Cardinality(T) \in Nat /\ Cardinality(S) \in Nat
    BY <1>1, FS_CardinalityType
<1>3. QED
    BY <1>1, <1>2

LEMMA WindowsAreFinite ==
    ASSUME OtpTypeOK
    PROVE  /\ \A p \in Phones : IsFiniteSet(OfPhone(p, Day))
           /\ \A ip \in Ips : IsFiniteSet(OfIp(ip))
           /\ IsFiniteSet(OfDay)
<1>1. IsFiniteSet(DOMAIN rows)
    BY CodesAssumption, FS_Subset DEF OtpTypeOK
<1>2. \A p \in Phones : OfPhone(p, Day) \in SUBSET DOMAIN rows
    BY DEF OfPhone
<1>3. \A ip \in Ips : OfIp(ip) \in SUBSET DOMAIN rows
    BY DEF OfIp
<1>4. OfDay \in SUBSET DOMAIN rows
    BY DEF OfDay
<1>5. QED
    BY <1>1, <1>2, <1>3, <1>4, FS_Subset

\* A step after which the rows are no newer than before.
NothingNew ==
    \A c \in DOMAIN rows' :
        /\ c \in DOMAIN rows
        /\ rows'[c].phone = rows[c].phone /\ rows'[c].ip = rows[c].ip
        /\ rows'[c].age >= rows[c].age

LEMMA AgingKeepsCaps ==
    ASSUME OtpTypeOK, OtpTypeOK', CapsHold, NothingNew
    PROVE  CapsHold'
<1> USE DEF NothingNew
<1>0. {PerNumber, PerIp, DailyCap, Hour, Day} \subseteq Nat
    BY CapsAssumption, TimesAssumption
<1>1. \A c \in DOMAIN rows' : /\ rows[c].age \in Int /\ rows'[c].age \in Int
    BY TimesAssumption DEF OtpTypeOK, Row
<1>2. \A p \in Phones : OfPhone(p, Day)' \in SUBSET OfPhone(p, Day)
    BY <1>0, <1>1 DEF OfPhone, Within
<1>3. \A ip \in Ips : OfIp(ip)' \in SUBSET OfIp(ip)
    BY <1>0, <1>1 DEF OfIp, Within
<1>4. OfDay' \in SUBSET OfDay
    BY <1>0, <1>1 DEF OfDay, Within
<1>5. \A p \in Phones : Cardinality(OfPhone(p, Day)') <= PerNumber
    BY <1>0, <1>2, WindowsAreFinite, Shrinks DEF CapsHold
<1>6. \A ip \in Ips : Cardinality(OfIp(ip)') <= PerIp
    BY <1>0, <1>3, WindowsAreFinite, Shrinks DEF CapsHold
<1>7. Cardinality(OfDay') <= DailyCap
    BY <1>0, <1>4, WindowsAreFinite, Shrinks DEF CapsHold
<1>8. QED
    BY <1>5, <1>6, <1>7 DEF CapsHold

\* A request that changes anything names a number.
LEMMA RequestIsOfANumber ==
    ASSUME NEW w \in Written, NEW ip, NEW c, OtpRequest(w, ip, c)
    PROVE  \E p \in Phones : RequestOtp(p, ip, c)
BY DEF OtpRequest, NormalizePhone, Written

LEMMA RequestKeepsCaps ==
    ASSUME OtpTypeOK, CapsHold, NEW p \in Phones, NEW ip \in Ips, NEW c \in Codes,
           RequestOtp(p, ip, c)
    PROVE  CapsHold'
<1>0. {PerNumber, PerIp, DailyCap, Hour, Day} \subseteq Nat
    BY CapsAssumption, TimesAssumption
<1>1. /\ DOMAIN rows' = DOMAIN rows \cup {c}
      /\ \A d \in DOMAIN rows : rows'[d] = rows[d]
      /\ rows'[c].phone = p /\ rows'[c].ip = ip
      /\ Allowed(p, ip)
    BY DEF RequestOtp
<1>2. ASSUME NEW q \in Phones PROVE Cardinality(OfPhone(q, Day)') <= PerNumber
    <2>1. CASE q = p
        <3>1. OfPhone(q, Day)' \subseteq OfPhone(q, Day) \cup {c}
            BY <1>1 DEF OfPhone, Within
        <3>2. Cardinality(OfPhone(q, Day)) < PerNumber
            BY <1>1, <2>1 DEF Allowed
        <3>3. QED
            BY <1>0, <3>1, <3>2, WindowsAreFinite, Grows
    <2>2. CASE q # p
        <3>1. OfPhone(q, Day)' \in SUBSET OfPhone(q, Day)
            BY <1>1, <2>2 DEF OfPhone, Within
        <3>2. QED
            BY <1>0, <3>1, WindowsAreFinite, Shrinks DEF CapsHold
    <2>3. QED
        BY <2>1, <2>2
<1>3. ASSUME NEW a \in Ips PROVE Cardinality(OfIp(a)') <= PerIp
    <2>1. CASE a = ip
        <3>1. OfIp(a)' \subseteq OfIp(a) \cup {c}
            BY <1>1 DEF OfIp, Within
        <3>2. Cardinality(OfIp(a)) < PerIp
            BY <1>1, <2>1 DEF Allowed
        <3>3. QED
            BY <1>0, <3>1, <3>2, WindowsAreFinite, Grows
    <2>2. CASE a # ip
        <3>1. OfIp(a)' \in SUBSET OfIp(a)
            BY <1>1, <2>2 DEF OfIp, Within
        <3>2. QED
            BY <1>0, <3>1, WindowsAreFinite, Shrinks DEF CapsHold
    <2>3. QED
        BY <2>1, <2>2
<1>4. Cardinality(OfDay') <= DailyCap
    <2>1. OfDay' \subseteq OfDay \cup {c}
        BY <1>1 DEF OfDay, Within
    <2>2. Cardinality(OfDay) < DailyCap
        BY <1>1 DEF Allowed
    <2>3. QED
        BY <1>0, <2>1, <2>2, WindowsAreFinite, Grows
<1>5. QED
    BY <1>2, <1>3, <1>4 DEF CapsHold

-----------------------------------------------------------------------------

LEMMA AgesAreNumbers ==
    ASSUME OtpTypeOK
    PROVE  \A c \in DOMAIN rows : rows[c].age \in Nat
BY TimesAssumption DEF OtpTypeOK, Row

LEMMA OtpInitially == OtpInit => OtpInv
<1> SUFFICES ASSUME OtpInit PROVE OtpInv
    OBVIOUS
<1> USE QueueAssumption DEF OtpInit
<1>1. OtpTypeOK
    BY DEF OtpTypeOK
<1>2. CapsHold
    <2>1. /\ \A p \in Phones : OfPhone(p, Day) = {}
          /\ \A ip \in Ips : OfIp(ip) = {}
          /\ OfDay = {}
        BY DEF OfPhone, OfIp, OfDay
    <2>2. Cardinality({}) = 0
        BY FS_EmptySet
    <2>3. PerNumber >= 0 /\ PerIp >= 0 /\ DailyCap >= 0
        BY CapsAssumption
    <2>4. /\ \A p \in Phones : Cardinality(OfPhone(p, Day)) <= PerNumber
          /\ \A ip \in Ips : Cardinality(OfIp(ip)) <= PerIp
        BY <2>1, <2>2, <2>3
    <2>5. Cardinality(OfDay) <= DailyCap
        BY <2>1, <2>2, <2>3
    <2>6. QED
        BY <2>4, <2>5 DEF CapsHold
<1>3. SleepIsLongEnough /\ LineIsShort
    BY DEF SleepIsLongEnough, LineIsShort
<1>4. QED
    BY <1>1, <1>2, <1>3 DEF OtpInv

LEMMA OtpStep == OtpInv /\ [OtpNext]_otpVars => OtpInv'
<1> SUFFICES ASSUME OtpInv, [OtpNext]_otpVars PROVE OtpInv'
    OBVIOUS
<1> USE QueueAssumption DEF OtpInv
<1>1. CASE UNCHANGED otpVars
    <2>1. OtpTypeOK' /\ SleepIsLongEnough' /\ LineIsShort'
        BY <1>1 DEF otpVars, queue, OtpTypeOK, SleepIsLongEnough, LineIsShort
    <2>2. NothingNew
        BY <1>1, AgesAreNumbers DEF otpVars, NothingNew
    <2>3. QED
        BY <2>1, <2>2, AgingKeepsCaps
<1>2. ASSUME NEW p \in Phones, NEW ip \in Ips, NEW c \in Codes, RequestOtp(p, ip, c)
      PROVE  OtpInv'
    <2>1. OtpTypeOK'
        <3>1. rows' \in [DOMAIN rows' -> Row] /\ DOMAIN rows' \subseteq Codes
            BY <1>2, TimesAssumption, TriesAssumption DEF RequestOtp, OtpTypeOK, Row
        <3>2. line' \in Seq(Codes)
            BY <1>2 DEF RequestOtp, OtpTypeOK
        <3>3. QED
            BY <1>2, <3>1, <3>2 DEF RequestOtp, OtpTypeOK
    <2>2. \/ line' = line
          \/ line' = Append(line, c) /\ Len(line) < QueueLimit
        <3>1. Len(line) \in Nat /\ QueueLimit \in Nat
            BY DEF OtpTypeOK
        <3>2. line' = IF Len(line) >= QueueLimit THEN line ELSE Append(line, c)
            BY <1>2 DEF RequestOtp
        <3>3. CASE Len(line) < QueueLimit
            BY <3>1, <3>2, <3>3
        <3>4. CASE Len(line) >= QueueLimit
            BY <3>2, <3>4
        <3>5. QED
            BY <3>1, <3>3, <3>4
    <2>3. SleepIsLongEnough' /\ LineIsShort'
        BY <1>2, <2>2 DEF RequestOtp, Accepting, OtpTypeOK, SleepIsLongEnough, LineIsShort
    <2>4. QED
        BY <1>2, <2>1, <2>3, RequestKeepsCaps
<1>3. CASE Begin \/ SendOpenWA
    <2>1. OtpTypeOK' /\ SleepIsLongEnough' /\ LineIsShort'
        BY <1>3 DEF Begin, SendOpenWA, Pause, OtpTypeOK, SleepIsLongEnough, LineIsShort
    <2>2. NothingNew
        BY <1>3, AgesAreNumbers DEF Begin, SendOpenWA, NothingNew
    <2>3. QED
        BY <2>1, <2>2, AgingKeepsCaps
<1>4. ASSUME NEW kind \in OutcomeKinds, NEW answered \in BOOLEAN, Sent(kind, answered)
      PROVE  OtpInv'
    <2>1. line \in Seq(Codes) /\ line # <<>> /\ line' = Tail(line)
        BY <1>4 DEF Sent, NextJob, OtpTypeOK, SleepIsLongEnough
    <2>2. line' \in Seq(Codes) /\ Len(line') = Len(line) - 1 /\ Len(line) \in Nat
        BY <2>1
    <2>3. outcomes' \in Seq(OutcomeKinds)
        <3>1. Append(outcomes, kind) \in Seq(OutcomeKinds)
            BY DEF OtpTypeOK
        <3>2. QED
            BY <1>4, <3>1, LastOfType, OutcomesAssumption DEF Sent
    <2>4. Result(kind, answered) \in {"secret", "open", "used"}
        BY DEF Result
    <2>5. rows' \in [DOMAIN rows -> Row] /\ DOMAIN rows' = DOMAIN rows
        BY <1>4, <2>4 DEF Sent, OtpTypeOK, Row
    <2>6. OtpTypeOK'
        BY <1>4, <2>2, <2>3, <2>5 DEF Sent, NextJob, OtpTypeOK
    <2>7. SleepIsLongEnough' /\ LineIsShort'
        BY <1>4, <2>1, <2>2 DEF Sent, NextJob, OtpTypeOK, SleepIsLongEnough, LineIsShort
    <2>8. \A c \in DOMAIN rows : /\ rows'[c].phone = rows[c].phone
                                 /\ rows'[c].ip = rows[c].ip /\ rows'[c].age = rows[c].age
        BY <1>4 DEF Sent, OtpTypeOK, Row
    <2>9. NothingNew
        BY <2>5, <2>8, AgesAreNumbers DEF NothingNew
    <2>10. QED
        BY <2>6, <2>7, <2>9, AgingKeepsCaps
<1>5. ASSUME NEW c \in Codes, NEW right \in BOOLEAN, Verify(c, right) PROVE OtpInv'
    <2> DEFINE tried == [rows[c] EXCEPT !.attempts = @ + 1]
               void == [rows[c] EXCEPT !.state = "used"]
    <2>0. c \in DOMAIN rows /\ rows[c] \in Row /\ rows \in [DOMAIN rows -> Row]
        BY <1>5 DEF Verify, OtpTypeOK
    <2>1. PICK row \in {tried, void} : /\ rows' = [rows EXCEPT ![c] = row]
                                       /\ row = tried => rows[c].attempts < CodeAttempts
        <3>1. CASE rows[c].age <= Ttl /\ TriesLeft(c) /\ ~right
            BY <1>5, <3>1 DEF Verify, TriesLeft
        <3>2. CASE ~(rows[c].age <= Ttl /\ TriesLeft(c) /\ ~right)
            <4>1. tried # void
                BY <2>0 DEF Row
            <4>2. QED
                BY <1>5, <3>2, <4>1 DEF Verify
        <3>3. QED
            BY <3>1, <3>2
    <2>2. row \in Row /\ row.phone = rows[c].phone /\ row.ip = rows[c].ip
          /\ row.age = rows[c].age
        BY <2>0, <2>1, TriesAssumption DEF Row
    <2>3. rows' \in [DOMAIN rows -> Row] /\ DOMAIN rows' = DOMAIN rows
          /\ \A d \in DOMAIN rows : /\ rows'[d].phone = rows[d].phone
                                    /\ rows'[d].ip = rows[d].ip
                                    /\ rows'[d].age = rows[d].age
        BY <2>0, <2>1, <2>2
    <2> HIDE DEF tried, void
    <2>4. OtpTypeOK' /\ SleepIsLongEnough' /\ LineIsShort'
        BY <1>5, <2>3 DEF Verify, queue, OtpTypeOK, SleepIsLongEnough, LineIsShort
    <2>5. NothingNew
        BY <2>3, AgesAreNumbers DEF NothingNew
    <2>6. QED
        BY <2>4, <2>5, AgingKeepsCaps
<1>6. CASE PurgeOldOtpCodes
    <2>1. OtpTypeOK' /\ SleepIsLongEnough' /\ LineIsShort'
        BY <1>6 DEF PurgeOldOtpCodes, queue, OtpTypeOK, SleepIsLongEnough, LineIsShort
    <2>2. NothingNew
        BY <1>6, AgesAreNumbers DEF PurgeOldOtpCodes, NothingNew
    <2>3. QED
        BY <2>1, <2>2, AgingKeepsCaps
<1>7. CASE Tick
    <2>1. /\ rows' \in [DOMAIN rows -> Row] /\ DOMAIN rows' = DOMAIN rows
          /\ \A c \in DOMAIN rows : /\ rows'[c].phone = rows[c].phone
                                    /\ rows'[c].ip = rows[c].ip
                                    /\ rows'[c].age >= rows[c].age
        <3> DEFINE Aged(c) == [rows[c] EXCEPT !.age = Older(@, Week)]
        <3>1. \A c \in DOMAIN rows : rows[c] \in Row
            BY DEF OtpTypeOK
        <3>2. \A a \in 0..Week : Older(a, Week) \in 0..Week /\ Older(a, Week) >= a
            BY TimesAssumption DEF Older
        <3>3. \A c \in DOMAIN rows :
                  /\ Aged(c) \in Row /\ Aged(c).phone = rows[c].phone
                  /\ Aged(c).ip = rows[c].ip /\ Aged(c).age >= rows[c].age
            BY <3>1, <3>2 DEF Row
        <3>4. rows' = [c \in DOMAIN rows |-> Aged(c)]
            BY <1>7 DEF Tick
        <3> HIDE DEF Aged
        <3>5. QED
            BY <3>3, <3>4
    <2>2. OtpTypeOK' /\ SleepIsLongEnough' /\ LineIsShort'
        BY <1>7, <2>1 DEF Tick, Older, OtpTypeOK, SleepIsLongEnough, LineIsShort
    <2>3. QED
        BY <2>1, <2>2, AgingKeepsCaps DEF NothingNew
<1>8. CASE Restart
    <2>1. OtpTypeOK' /\ SleepIsLongEnough' /\ LineIsShort'
        BY <1>8 DEF Restart, OtpTypeOK, SleepIsLongEnough, LineIsShort
    <2>2. NothingNew
        BY <1>8, AgesAreNumbers DEF Restart, NothingNew
    <2>3. QED
        BY <2>1, <2>2, AgingKeepsCaps
<1>9. QED
    BY <1>1, <1>2, <1>3, <1>4, <1>5, <1>6, <1>7, <1>8, RequestIsOfANumber DEF OtpNext

\* The table, the queue and the counters keep their types.
THEOREM OtpTypesHold == OtpSpec => []OtpTypeOK
BY OtpInitially, OtpStep, PTL DEF OtpSpec, OtpInv

\* No number, address or day gets more codes than its cap, whatever waits in
\* the queue, fails, or is lost with a restart.
THEOREM CapsAlwaysHold == OtpSpec => []CapsHold
BY OtpInitially, OtpStep, PTL DEF OtpSpec, OtpInv

\* After the switch only what was in line is sent: fewer than QueueLimit.
THEOREM KillSwitchAlwaysHolds == OtpSpec => []KillSwitchHolds
<1>1. OtpInv => KillSwitchHolds
    BY QueueAssumption DEF OtpInv, OtpTypeOK, LineIsShort, KillSwitchHolds
<1>2. QED
    BY <1>1, OtpInitially, OtpStep, PTL DEF OtpSpec

\* Messages leave MinSendGap or more after one another.
THEOREM SendsAreAlwaysSpaced == OtpSpec => SendsAreSpaced
<1>1. OtpInv /\ [OtpNext]_otpVars =>
          [stage' = "sending" /\ stage # "sending" => sinceSent >= MinSendGap]_otpVars
    <2> SUFFICES ASSUME OtpInv, OtpNext, stage' = "sending", stage # "sending"
                 PROVE  sinceSent >= MinSendGap
        OBVIOUS
    <2>1. SendOpenWA
        BY RequestIsOfANumber DEF OtpNext, RequestOtp, Begin, SendOpenWA, Sent, NextJob, Verify, PurgeOldOtpCodes, queue,
               Tick, Restart
    <2>2. QED
        BY <2>1, QueueAssumption DEF SendOpenWA, OtpInv, OtpTypeOK, SleepIsLongEnough
<1>2. QED
    BY <1>1, OtpInitially, OtpStep, PTL DEF OtpSpec, SendsAreSpaced

\* The invariant of the sender: types, caps and the kill switch.
THEOREM OtpAlwaysHolds == OtpSpec => []OtpHolds
BY OtpTypesHold, CapsAlwaysHold, KillSwitchAlwaysHolds, PTL DEF OtpHolds

\* A day's codes leave a number no more wrong guesses than its codes times the
\* tries of each: every guess is one of those pairs.
THEOREM GuessesAreAlwaysBounded == OtpSpec => []GuessesAreBounded
<1>1. ASSUME OtpTypeOK, CapsHold, NEW p \in Phones
      PROVE  Cardinality(Guesses(p)) <= PerNumber * CodeAttempts
    <2> DEFINE codes == OfPhone(p, Day)
               tries == 1..CodeAttempts
    <2>1. IsFiniteSet(codes) /\ Cardinality(codes) \in Nat /\ Cardinality(codes) <= PerNumber
        BY <1>1, WindowsAreFinite, FS_CardinalityType DEF CapsHold
    <2>2. IsFiniteSet(tries) /\ Cardinality(tries) = CodeAttempts
        BY TriesAssumption, FS_Interval
    <2>3. Guesses(p) \in SUBSET (codes \X tries)
        <3>1. \A c \in codes : rows[c].attempts \in 0..CodeAttempts
            BY <1>1 DEF OtpTypeOK, OfPhone, Row
        <3>2. QED
            BY <3>1, TriesAssumption DEF Guesses
    <2> HIDE DEF codes, tries
    <2>4. IsFiniteSet(codes \X tries)
          /\ Cardinality(codes \X tries) = Cardinality(codes) * Cardinality(tries)
        BY <2>1, <2>2, FS_Product
    <2>5. IsFiniteSet(Guesses(p)) /\ Cardinality(Guesses(p)) <= Cardinality(codes \X tries)
        BY <2>3, <2>4, FS_Subset
    <2>6. Cardinality(Guesses(p)) \in Nat
        BY <2>5, FS_CardinalityType
    <2>7. \A m, n, k \in Nat : m <= n => m * k <= n * k
        OBVIOUS
    <2>8. Cardinality(codes) * CodeAttempts <= PerNumber * CodeAttempts
        BY <2>1, <2>7, CapsAssumption, TriesAssumption
    <2>9. QED
        BY <2>1, <2>2, <2>4, <2>5, <2>6, <2>8, CapsAssumption, TriesAssumption
<1>2. OtpTypeOK /\ CapsHold => GuessesAreBounded
    BY <1>1 DEF GuessesAreBounded
<1>3. QED
    BY <1>2, OtpTypesHold, CapsAlwaysHold, PTL
===============================================================================
