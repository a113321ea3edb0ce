----------------------------- MODULE ConsentProofs ----------------------------
(***************************************************************************)
(* Proofs about Consent: its invariants, and that the enjoy, extend and    *)
(* video steps implement MutualStep, for any pair.                         *)
(***************************************************************************)
EXTENDS Consent, TLAPS

\* The pair: everybody has a partner, and there is nobody else.
LEMMA PartnerIsOther ==
    ASSUME NEW u \in Users
    PROVE  Partner(u) \in Users /\ Partner(u) # u /\ Users = {u, Partner(u)}
<1>1. PICK a, b \in Users : a # b /\ Users = {a, b}
    BY PairAssumption
<1>2. \E v \in Users : v # u
    BY <1>1
<1>3. Partner(u) \in Users /\ Partner(u) # u
    BY <1>2 DEF Partner
<1>4. QED
    BY <1>1, <1>3

LEMMA InitInv == Init => ConsentHolds
<1>1. Users # {} /\ \A u \in Users : Users # {u}
    BY PairAssumption
<1>2. QED
    BY <1>1 DEF Init, ConsentHolds, TypeOK, Shape, RevealNeedsEnjoy, CrossedRequestsMeet,
                VideoIsUnlocked, Steps

\* A room that is new, or gone, is as it should be.
LEMMA NewRoomInv ==
    ASSUME ConsentHolds, NEW type \in {"none", "match", "direct"}, NEW who,
           who \subseteq Users,
           type = "match" => who = Users, type = "none" => who = {},
           NewRoom(type, who),
           NEW u \in Users \cup {Nobody}, Act(u, "nothing"),
           {last', friends', blocked'} \subseteq BOOLEAN
    PROVE  ConsentHolds'
<1>1. Users # {}
    BY PairAssumption
<1>2. TypeOK'
    BY DEF ConsentHolds, TypeOK, NewRoom, Act, Steps
<1>3. Shape'
    BY DEF NewRoom, Shape
<1>4. RevealNeedsEnjoy' /\ VideoIsUnlocked'
    BY DEF NewRoom, RevealNeedsEnjoy, VideoIsUnlocked
<1>5. CrossedRequestsMeet'
    BY <1>1 DEF NewRoom, CrossedRequestsMeet
<1>6. QED
    BY <1>2, <1>3, <1>4, <1>5 DEF ConsentHolds

LEMMA StepInv == ConsentHolds /\ [Next]_vars => ConsentHolds'
<1> SUFFICES ASSUME ConsentHolds, [Next]_vars PROVE ConsentHolds'
    OBVIOUS
<1> USE DEF ConsentHolds
<1>1. CASE UNCHANGED vars
    BY <1>1 DEF vars, room, pair, act, TypeOK, Shape, RevealNeedsEnjoy,
                CrossedRequestsMeet, VideoIsUnlocked
<1>2. ASSUME NEW u \in Users, Enjoy(u) PROVE ConsentHolds'
    <2>1. TypeOK'
        BY <1>2 DEF TypeOK, Enjoy, Act, pair, Steps
    <2>2. (RevealNeedsEnjoy /\ Shape)'
        BY <1>2 DEF TypeOK, RevealNeedsEnjoy, Shape, Enjoy, InMatch, HasPartner, Access
    <2>3. (CrossedRequestsMeet /\ VideoIsUnlocked)'
        BY <1>2 DEF CrossedRequestsMeet, VideoIsUnlocked, Enjoy
    <2>4. QED
        BY <2>1, <2>2, <2>3
<1>3. ASSUME NEW u \in Users, FriendRequest(u) PROVE ConsentHolds'
    <2>0. Users = {u, Partner(u)} /\ Partner(u) # u
        BY PartnerIsOther
    <2>1. TypeOK'
        BY <1>3 DEF TypeOK, FriendRequest, Reveal, Act, Steps
    <2>2. (RevealNeedsEnjoy /\ Shape)'
        BY <1>3 DEF RevealNeedsEnjoy, Shape, FriendRequest, Reveal,
                    MayAskFriend, InMatch, HasPartner, Access
    <2>3. (CrossedRequestsMeet /\ VideoIsUnlocked)'
        BY <1>3, <2>0 DEF TypeOK, CrossedRequestsMeet, VideoIsUnlocked, FriendRequest, Reveal
    <2>4. QED
        BY <2>1, <2>2, <2>3
<1>4. ASSUME NEW u \in Users, FriendAccept(u) PROVE ConsentHolds'
    <2>1. TypeOK'
        BY <1>4 DEF TypeOK, FriendAccept, Reveal, Act, Steps
    <2>2. (RevealNeedsEnjoy /\ Shape)'
        BY <1>4 DEF RevealNeedsEnjoy, Shape, FriendAccept, Reveal
    <2>3. (CrossedRequestsMeet /\ VideoIsUnlocked)'
        BY <1>4 DEF CrossedRequestsMeet, VideoIsUnlocked, FriendAccept, Reveal
    <2>4. QED
        BY <2>1, <2>2, <2>3
<1>5. ASSUME NEW u \in Users, FriendReject(u) PROVE ConsentHolds'
    <2>1. TypeOK'
        BY <1>5 DEF TypeOK, FriendReject, Act, pair, Steps
    <2>2. (RevealNeedsEnjoy /\ Shape)'
        BY <1>5 DEF RevealNeedsEnjoy, Shape, FriendReject
    <2>3. (CrossedRequestsMeet /\ VideoIsUnlocked)'
        BY <1>5, PartnerIsOther DEF CrossedRequestsMeet, VideoIsUnlocked, FriendReject
    <2>4. QED
        BY <2>1, <2>2, <2>3
<1>6. ASSUME NEW u \in Users, ExtendRequest(u) PROVE ConsentHolds'
    <2>0. Users = {u, Partner(u)} /\ Partner(u) # u
        BY PartnerIsOther
    <2>1. TypeOK'
        BY <1>6 DEF TypeOK, ExtendRequest, AskExtend, ExtendRoom, Act, pair, Steps
    <2>2. (RevealNeedsEnjoy /\ Shape)'
        BY <1>6 DEF RevealNeedsEnjoy, Shape, ExtendRequest, InMatch
    <2>3. (CrossedRequestsMeet /\ VideoIsUnlocked)'
        BY <1>6, <2>0 DEF TypeOK, CrossedRequestsMeet, VideoIsUnlocked, ExtendRequest,
                    AskExtend, ExtendRoom
    <2>4. QED
        BY <2>1, <2>2, <2>3
<1>7. ASSUME NEW u \in Users, ExtendRespond(u) PROVE ConsentHolds'
    <2>1. TypeOK'
        BY <1>7 DEF TypeOK, ExtendRespond, ExtendRoom, Act, pair, Steps
    <2>2. (RevealNeedsEnjoy /\ Shape)'
        BY <1>7 DEF RevealNeedsEnjoy, Shape, ExtendRespond, ExtendRoom
    <2>3. (CrossedRequestsMeet /\ VideoIsUnlocked)'
        BY <1>7, PartnerIsOther DEF CrossedRequestsMeet, VideoIsUnlocked,
                                    ExtendRespond, ExtendRoom
    <2>4. QED
        BY <2>1, <2>2, <2>3
<1>8. ASSUME NEW u \in Users, VideoRequest(u) PROVE ConsentHolds'
    <2>1. TypeOK'
        BY <1>8 DEF TypeOK, VideoRequest, Act, pair, Steps
    <2>2. (RevealNeedsEnjoy /\ CrossedRequestsMeet /\ VideoIsUnlocked)'
        BY <1>8 DEF RevealNeedsEnjoy, CrossedRequestsMeet, VideoIsUnlocked,
                    VideoRequest, MayAskVideo
    <2>3. Shape'
        BY <1>8 DEF Shape, VideoRequest, MayAskVideo, HasPartner, Access
    <2>4. QED
        BY <2>1, <2>2, <2>3
<1>9. ASSUME NEW u \in Users, VideoRespond(u) PROVE ConsentHolds'
    <2>1. TypeOK'
        BY <1>9 DEF TypeOK, VideoRespond, Act, pair, Steps
    <2>2. (RevealNeedsEnjoy /\ CrossedRequestsMeet /\ VideoIsUnlocked)'
        BY <1>9 DEF RevealNeedsEnjoy, CrossedRequestsMeet, VideoIsUnlocked,
                    VideoRespond, VideoAsked
    <2>3. Shape'
        BY <1>9 DEF Shape, VideoRespond, HasPartner, Access
    <2>4. QED
        BY <2>1, <2>2, <2>3
<1>10. ASSUME NEW u \in Users, VideoEnd(u) \/ Rejoin(u) PROVE ConsentHolds'
    <2>1. TypeOK'
        BY <1>10 DEF TypeOK, VideoEnd, Rejoin, Act, pair, Steps
    <2>2. (Shape /\ RevealNeedsEnjoy /\ CrossedRequestsMeet /\ VideoIsUnlocked)'
        BY <1>10 DEF RevealNeedsEnjoy, CrossedRequestsMeet, VideoIsUnlocked, Shape,
                    VideoEnd, Rejoin
    <2>3. QED
        BY <2>1, <2>2
<1>11. ASSUME NEW u \in Users, JoinDirect(u) PROVE ConsentHolds'
    <2>1. CASE kind = "none" /\ NewRoom("direct", {u})
        BY <1>11, <2>1, NewRoomInv DEF JoinDirect, pair, TypeOK
    <2>2. CASE kind # "none"
        <3>1. TypeOK'
            BY <1>11, <2>2 DEF TypeOK, JoinDirect, Act, pair, Steps
        <3>2. (Shape /\ RevealNeedsEnjoy /\ CrossedRequestsMeet /\ VideoIsUnlocked)'
            BY <1>11, <2>2 DEF RevealNeedsEnjoy, CrossedRequestsMeet,
                               VideoIsUnlocked, Shape, JoinDirect
        <3>3. QED
            BY <3>1, <3>2
    <2>3. QED
        BY <1>11, <2>1, <2>2 DEF JoinDirect
<1>12. ASSUME NEW u \in Users, Leave(u) \/ TimeOut PROVE ConsentHolds'
    <2>1. NewRoom("none", {}) /\ (Act(u, "nothing") \/ Act(Nobody, "nothing"))
        BY <1>12 DEF Leave, TimeOut, CloseRoom, NoRoom
    <2>2. {last', friends', blocked'} \subseteq BOOLEAN
        BY <1>12 DEF Leave, TimeOut, CloseRoom, TypeOK
    <2>3. QED
        BY <2>1, <2>2, NewRoomInv
<1>13. ASSUME NEW u \in Users, Block(u) PROVE ConsentHolds'
    <2>1. Act(u, "nothing") /\ {last', friends', blocked'} \subseteq BOOLEAN
        BY <1>13 DEF Block, CloseRoom, TypeOK
    <2>2. CASE NewRoom("none", {})
        BY <2>1, <2>2, NewRoomInv
    <2>3. CASE UNCHANGED room
        BY <2>1, <2>3 DEF room, Act, TypeOK, Shape, RevealNeedsEnjoy,
                          CrossedRequestsMeet, VideoIsUnlocked, Steps
    <2>4. QED
        BY <1>13, <2>2, <2>3 DEF Block, CloseRoom, NoRoom
<1>14. ASSUME NEW u \in Users, Unfriend(u) PROVE ConsentHolds'
    BY <1>14 DEF Unfriend, room, Act, TypeOK, Shape, RevealNeedsEnjoy,
                 CrossedRequestsMeet, VideoIsUnlocked, Steps
<1>15. ASSUME NEW u \in Users, Drop(u) PROVE ConsentHolds'
    <2>1. CASE NoRoom
        BY <1>15, <2>1, NewRoomInv DEF Drop, NoRoom, pair, TypeOK
    <2>2. CASE ~NoRoom
        <3>1. TypeOK'
            BY <1>15, <2>2 DEF TypeOK, Drop, Act, pair, Steps
        <3>2. (Shape /\ RevealNeedsEnjoy /\ CrossedRequestsMeet /\ VideoIsUnlocked)'
            BY <1>15, <2>2 DEF RevealNeedsEnjoy, CrossedRequestsMeet,
                               VideoIsUnlocked, Shape, Drop
        <3>3. QED
            BY <3>1, <3>2
    <2>3. QED
        BY <2>1, <2>2
<1>16. CASE Match
    BY <1>16, NewRoomInv DEF Match, pair, TypeOK
<1>17. CASE Unlock
    BY <1>17 DEF Unlock, pair, Act, TypeOK, Shape, RevealNeedsEnjoy,
                 CrossedRequestsMeet, VideoIsUnlocked, Steps
<1>18. CASE TimeOut
    BY <1>18, <1>12, PairAssumption
<1>19. QED
    BY <1>1, <1>2, <1>3, <1>4, <1>5, <1>6, <1>7, <1>8, <1>9, <1>10, <1>11, <1>12,
       <1>13, <1>14, <1>15, <1>16, <1>17, <1>18 DEF Next

THEOREM SpecInv == Spec => []ConsentHolds
BY InitInv, StepInv, PTL DEF Spec

\* TypeOK is an invariant.
THEOREM ConsentTypeCorrect == Spec => []TypeOK
BY SpecInv, PTL DEF ConsentHolds

\* README:84: names are shown in a match room only after both enjoyed it.
THEOREM RevealAlwaysNeedsEnjoy == Spec => []RevealNeedsEnjoy
BY SpecInv, PTL DEF ConsentHolds

\* Never do both have asked and both still wait.
THEOREM CrossedRequestsAlwaysMeet == Spec => []CrossedRequestsMeet
BY SpecInv, PTL DEF ConsentHolds

\* No call, and no prompt for one, while video is locked.
THEOREM VideoIsAlwaysUnlocked == Spec => []VideoIsUnlocked
BY SpecInv, PTL DEF ConsentHolds

\* A friendship comes from a match room in which both enjoyed the chat.
THEOREM FriendshipAlwaysNeedsEnjoy == Spec => FriendshipNeedsEnjoy
<1>1. ASSUME ConsentHolds, [Next]_vars, friends', ~friends
      PROVE  kind = "match" /\ enjoy = Users
    <2>1. PICK u \in Users : FriendRequest(u) \/ FriendAccept(u)
        BY <1>1 DEF Next, vars, room, pair, Enjoy, FriendReject, ExtendRequest,
                    ExtendRespond, VideoRequest, VideoRespond, VideoEnd, JoinDirect,
                    Leave, Block, Unfriend, Drop, Rejoin, Match, TimeOut, Unlock
    <2>2. CASE FriendRequest(u)
        BY <2>2 DEF FriendRequest, MayAskFriend, InMatch
    <2>3. CASE FriendAccept(u)
        <3>1. friendReq # {}
            BY <2>3 DEF FriendAccept
        <3>2. QED
            BY <1>1, <3>1 DEF ConsentHolds, Shape, RevealNeedsEnjoy
    <2>4. QED
        BY <2>1, <2>2, <2>3
<1>2. ConsentHolds /\ [Next]_vars => [friends' /\ ~friends => kind = "match" /\ enjoy = Users]_vars
    BY <1>1
<1>3. QED
    BY <1>2, SpecInv, PTL DEF Spec, FriendshipNeedsEnjoy

-----------------------------------------------------------------------------
(* The refinements.  Every act flips `turn'; an act that does not complete *)
(* the step leaves at most the actor's own asking behind.                  *)

LEMMA EveryActTurns == Next => turn' = ~turn /\ by' \in Users \cup {Nobody}
<1> SUFFICES ASSUME Next PROVE turn' = ~turn /\ by' \in Users \cup {Nobody}
    OBVIOUS
<1>1. (\E u \in Users : \E step \in Steps \cup {"nothing"} : Act(u, step)) \/ Act(Nobody, "nothing")
    BY DEF Next, Enjoy, FriendRequest, FriendAccept, Reveal, FriendReject, ExtendRequest,
           AskExtend, ExtendRespond, ExtendRoom, VideoRequest, VideoRespond, VideoEnd,
           JoinDirect, Leave, Block, Unfriend, Drop, Rejoin, Match, TimeOut, Unlock, Steps
<1>2. QED
    BY <1>1 DEF Act

\* What one act does to the requests to extend.
LEMMA ExtendEffect ==
    ASSUME Next
    PROVE  \/ extendReq' \subseteq extendReq /\ did' # "extend"
           \/ \E u \in Users :
                 /\ by' = u
                 /\ \/ extendReq' = extendReq \cup {u} /\ did' # "extend"
                    \/ extendReq' = {} /\ did' = "extend" /\ Partner(u) \in extendReq
<1>1. ASSUME NEW u \in Users, ExtendRequest(u) \/ ExtendRespond(u)
      PROVE  /\ by' = u
             /\ \/ extendReq' = extendReq \cup {u} /\ did' # "extend"
                \/ extendReq' \subseteq extendReq /\ did' # "extend"
                \/ extendReq' = {} /\ did' = "extend" /\ Partner(u) \in extendReq
    BY <1>1 DEF ExtendRequest, AskExtend, ExtendRespond, ExtendRoom, Act
<1>2. ASSUME NEW u \in Users,
             \/ Enjoy(u) \/ FriendRequest(u) \/ FriendAccept(u) \/ FriendReject(u)
             \/ VideoRequest(u) \/ VideoRespond(u) \/ VideoEnd(u)
             \/ JoinDirect(u) \/ Leave(u) \/ Block(u) \/ Unfriend(u)
             \/ Drop(u) \/ Rejoin(u)
      PROVE  (extendReq' = extendReq \/ extendReq' = {}) /\ did' # "extend"
    BY <1>2 DEF Enjoy, FriendRequest, FriendAccept, FriendReject, Reveal, VideoRequest,
                VideoRespond, VideoEnd, JoinDirect, Leave, Block, Unfriend, Drop, Rejoin,
                CloseRoom, NoRoom, NewRoom, Act, pair, room
<1>3. ASSUME Match \/ TimeOut \/ Unlock
      PROVE  (extendReq' = extendReq \/ extendReq' = {}) /\ did' # "extend"
    BY <1>3 DEF Match, TimeOut, Unlock, CloseRoom, NoRoom, NewRoom, Act, pair, room
<1>4. QED
    BY <1>1, <1>2, <1>3 DEF Next

\* An extension is agreed by somebody whose partner asked for it, and uses the
\* asking up (README:38).
THEOREM ExtendImplementsMutualStep == Spec => ExtendIsMutual
<1>1. Init => ExtendStep!Init
    BY DEF Init, ExtendStep!Init
<1>2. [Next]_vars => [ExtendStep!Next]_<<extendReq, by, did = "extend", turn>>
    <2>1. ASSUME Next PROVE ExtendStep!Next
        <3>1. turn' = ~turn
            BY <2>1, EveryActTurns
        <3>2. ExtendStep!Lapse \/ \E u \in Users : ExtendStep!Ask(u) \/ ExtendStep!Agree(u)
            BY <2>1, ExtendEffect, PartnerIsOther
               DEF ExtendStep!Lapse, ExtendStep!Ask, ExtendStep!Agree
        <3>3. QED
            BY <3>1, <3>2 DEF ExtendStep!Next
    <2>2. QED
        BY <2>1 DEF vars, room, act
<1>3. QED
    BY <1>1, <1>2, PTL DEF Spec, ExtendIsMutual, ExtendStep!Spec

\* What one act does to the request for video: a new one replaces the old.
LEMMA VideoEffect ==
    ASSUME Next
    PROVE  \/ videoReq' \subseteq videoReq /\ did' # "video"
           \/ \E u \in Users :
                 /\ by' = u
                 /\ \/ videoReq' = {u} /\ did' # "video"
                    \/ videoReq' = {} /\ did' = "video" /\ Partner(u) \in videoReq
<1>1. ASSUME NEW u \in Users, VideoRequest(u) \/ VideoRespond(u)
      PROVE  /\ by' = u
             /\ \/ videoReq' = {u} /\ did' # "video"
                \/ videoReq' = {} /\ did' # "video"
                \/ videoReq' = {} /\ did' = "video" /\ Partner(u) \in videoReq
    BY <1>1 DEF VideoRequest, VideoRespond, VideoAsked, Act
<1>2. ASSUME NEW u \in Users,
             \/ Enjoy(u) \/ FriendRequest(u) \/ FriendAccept(u) \/ FriendReject(u)
             \/ ExtendRequest(u) \/ ExtendRespond(u) \/ VideoEnd(u)
             \/ JoinDirect(u) \/ Leave(u) \/ Block(u) \/ Unfriend(u)
             \/ Drop(u) \/ Rejoin(u)
      PROVE  (videoReq' = videoReq \/ videoReq' = {}) /\ did' # "video"
    BY <1>2 DEF Enjoy, FriendRequest, FriendAccept, FriendReject, Reveal, ExtendRequest,
                AskExtend, ExtendRespond, ExtendRoom, VideoEnd, JoinDirect, Leave, Block,
                Unfriend, Drop, Rejoin, CloseRoom, NoRoom, NewRoom, Act, pair, room
<1>3. ASSUME Match \/ TimeOut \/ Unlock
      PROVE  (videoReq' = videoReq \/ videoReq' = {}) /\ did' # "video"
    BY <1>3 DEF Match, TimeOut, Unlock, CloseRoom, NoRoom, NewRoom, Act, pair, room
<1>4. QED
    BY <1>1, <1>2, <1>3 DEF Next

\* A call starts when somebody accepts what the partner asked for, once.
THEOREM VideoImplementsMutualStep == Spec => VideoIsMutual
<1>1. Init => VideoStep!Init
    BY DEF Init, VideoStep!Init
<1>2. [Next]_vars => [VideoStep!Next]_<<videoReq, by, did = "video", turn>>
    <2>1. ASSUME Next PROVE VideoStep!Next
        <3>1. turn' = ~turn
            BY <2>1, EveryActTurns
        <3>2. VideoStep!Lapse \/ \E u \in Users : VideoStep!Ask(u) \/ VideoStep!Agree(u)
            BY <2>1, VideoEffect, PartnerIsOther
               DEF VideoStep!Lapse, VideoStep!Ask, VideoStep!Agree
        <3>3. QED
            BY <3>1, <3>2 DEF VideoStep!Next
    <2>2. QED
        BY <2>1 DEF vars, room, act
<1>3. QED
    BY <1>1, <1>2, PTL DEF Spec, VideoIsMutual, VideoStep!Spec

\* What one act does to the Enjoys: they stand until the room is left, and the
\* second one completes the step.
LEMMA EnjoyEffect ==
    ASSUME Next, TypeOK
    PROVE  \/ (enjoy' = enjoy \/ enjoy' = {}) /\ did' # "enjoy"
           \/ \E u \in Users :
                 /\ by' = u
                 /\ u \notin enjoy
                 /\ enjoy' = enjoy \cup {u}
                 /\ did' = "enjoy" <=> Partner(u) \in enjoy
<1>1. ASSUME NEW u \in Users, Enjoy(u)
      PROVE  /\ by' = u
             /\ u \notin enjoy
             /\ enjoy' = enjoy \cup {u}
             /\ did' = "enjoy" <=> Partner(u) \in enjoy
    BY <1>1 DEF Enjoy, Act
<1>2. ASSUME NEW u \in Users,
             \/ FriendRequest(u) \/ FriendAccept(u) \/ FriendReject(u)
             \/ ExtendRequest(u) \/ ExtendRespond(u)
             \/ VideoRequest(u) \/ VideoRespond(u) \/ VideoEnd(u)
             \/ JoinDirect(u) \/ Leave(u) \/ Block(u) \/ Unfriend(u)
             \/ Drop(u) \/ Rejoin(u)
      PROVE  (enjoy' = enjoy \/ enjoy' = {}) /\ did' # "enjoy"
    BY <1>2 DEF FriendRequest, FriendAccept, FriendReject, Reveal, ExtendRequest,
                AskExtend, ExtendRespond, ExtendRoom, VideoRequest, VideoRespond, VideoEnd,
                JoinDirect, Leave, Block, Unfriend, Drop, Rejoin, CloseRoom, NoRoom,
                NewRoom, Act, pair, room
<1>3. ASSUME Match \/ TimeOut \/ Unlock
      PROVE  (enjoy' = enjoy \/ enjoy' = {}) /\ did' # "enjoy"
    BY <1>3 DEF Match, TimeOut, Unlock, CloseRoom, NoRoom, NewRoom, Act, pair, room
<1>4. QED
    BY <1>1, <1>2, <1>3 DEF Next

\* The chat counts as mutually enjoyed by the act of the second of the two, and
\* once for the life of the room.
THEOREM EnjoyImplementsMutualStep == Spec => EnjoyIsMutual
<1> DEFINE open == IF enjoy = Users THEN {} ELSE enjoy
<1>0. Users # {}
    BY PairAssumption
<1>1. Init => EnjoyStep!Init
    BY <1>0 DEF Init, EnjoyStep!Init
<1>2. TypeOK /\ [Next]_vars => [EnjoyStep!Next]_<<open, by, did = "enjoy", turn>>
    <2>1. ASSUME TypeOK, Next PROVE EnjoyStep!Next
        <3>1. turn' = ~turn
            BY <2>1, EveryActTurns
        <3>2. CASE (enjoy' = enjoy \/ enjoy' = {}) /\ did' # "enjoy"
            BY <3>1, <3>2, <1>0 DEF EnjoyStep!Lapse, EnjoyStep!Next
        <3>3. ASSUME NEW u \in Users, by' = u, u \notin enjoy, enjoy' = enjoy \cup {u},
                     did' = "enjoy" <=> Partner(u) \in enjoy
              PROVE  EnjoyStep!Next
            <4>1. Partner(u) \in Users /\ Partner(u) # u /\ Users = {u, Partner(u)}
                BY PartnerIsOther
            <4>2. CASE Partner(u) \in enjoy
                <5>1. enjoy' = Users /\ enjoy # Users /\ Partner(u) \in enjoy \ {u}
                    BY <2>1, <3>3, <4>1, <4>2 DEF TypeOK
                <5>2. EnjoyStep!Agree(u)
                    BY <3>3, <4>2, <5>1 DEF EnjoyStep!Agree
                <5>3. QED
                    BY <3>1, <5>2 DEF EnjoyStep!Next
            <4>3. CASE Partner(u) \notin enjoy
                <5>1. enjoy = {} /\ enjoy' = {u} /\ enjoy' # Users
                    BY <2>1, <3>3, <4>1, <4>3 DEF TypeOK
                <5>2. EnjoyStep!Ask(u)
                    BY <3>3, <4>3, <5>1 DEF EnjoyStep!Ask
                <5>3. QED
                    BY <3>1, <5>2 DEF EnjoyStep!Next
            <4>4. QED
                BY <4>2, <4>3
        <3>4. QED
            BY <2>1, <3>2, <3>3, EnjoyEffect
    <2>2. QED
        BY <2>1 DEF vars, room, act
<1>3. QED
    BY <1>1, <1>2, ConsentTypeCorrect, PTL DEF Spec, EnjoyIsMutual, EnjoyStep!Spec

\* README:38: enjoying, extending and calling each take the two of them.
THEOREM StepsAreAlwaysMutual == Spec => StepsAreMutual
BY EnjoyImplementsMutualStep, ExtendImplementsMutualStep, VideoImplementsMutualStep
   DEF StepsAreMutual

===============================================================================
