-------------------------------- MODULE Consent -------------------------------
(***************************************************************************)
(* The two-sided steps of a chat, backend/src/realtime/index.js: enjoy,    *)
(* friend, extend and video requests and their answers, with the           *)
(* friendship and the block of the pair, which outlive the room.           *)
(*                                                                         *)
(* One pair and one room at a time.  Sockets, seats and grace periods are  *)
(* the business of Rooms; here a member is in the room or away.  A refused *)
(* call changes nothing and is left out.                                   *)
(***************************************************************************)
CONSTANTS Users, Nobody

ASSUME PairAssumption == \E u, v \in Users : u # v /\ Users = {u, v}
ASSUME NobodyAssumption == Nobody \notin Users

Partner(u) == CHOOSE v \in Users : v # u

VARIABLES
    kind,       \* room.type, or "none" while the pair has no room
    members,    \* who has ever been in the room
    here,       \* members with connected = true
    unlocked,   \* videoUnlockAt has passed
    enjoy, friendReq, extendReq,    \* the Sets of the room
    videoReq,   \* room.videoReq: one user at most, {} for null
    video,      \* videoStartedAt is set
    revealed,
    last,       \* lastRoom: a match room of the pair has closed
    friends,    \* the table friends holds the pair
    blocked,    \* the table blocks holds the pair, either way
    by, did,    \* the user of the last act, and the step it completed
    turn        \* flips with every act

room == <<kind, members, here, unlocked, enjoy, friendReq, extendReq,
          videoReq, video, revealed>>
pair == <<last, friends, blocked>>
act == <<by, did, turn>>
vars == <<room, pair, act>>

Steps == {"enjoy", "friend", "extend", "video"}

TypeOK ==
    /\ kind \in {"none", "match", "direct"}
    /\ members \subseteq Users /\ here \subseteq members
    /\ enjoy \subseteq Users /\ friendReq \subseteq Users
    /\ extendReq \subseteq Users /\ videoReq \subseteq Users
    /\ {unlocked, video, revealed, last, friends, blocked, turn} \subseteq BOOLEAN
    /\ by \in Users \cup {Nobody}
    /\ did \in Steps \cup {"nothing"}

\* The room after createMatch(), the first joinDirect() and close().
NewRoom(type, who) ==
    /\ kind' = type
    /\ members' = who /\ here' = who
    /\ unlocked' = (type = "direct")
    /\ enjoy' = {} /\ friendReq' = {} /\ extendReq' = {} /\ videoReq' = {}
    /\ video' = FALSE
    /\ revealed' = (type = "direct")

NoRoom == NewRoom("none", {})

Act(u, step) == by' = u /\ did' = step /\ turn' = ~turn

Init ==
    /\ kind = "none"
    /\ members = {} /\ here = {}
    /\ unlocked = FALSE
    /\ enjoy = {} /\ friendReq = {} /\ extendReq = {} /\ videoReq = {}
    /\ video = FALSE /\ revealed = FALSE
    /\ last = FALSE /\ friends = FALSE /\ blocked = FALSE
    /\ by = Nobody /\ did = "nothing" /\ turn = FALSE

\* access(): in the room and connected; most calls need a partner, who may be
\* away.
Access(u) == kind # "none" /\ u \in here
HasPartner(u) == Access(u) /\ members = Users
InMatch(u) == HasPartner(u) /\ kind = "match"

-----------------------------------------------------------------------------
Enjoy(u) ==
    /\ InMatch(u)
    /\ u \notin enjoy
    /\ enjoy' = enjoy \cup {u}
    /\ Act(u, IF Partner(u) \in enjoy THEN "enjoy" ELSE "nothing")
    /\ UNCHANGED <<pair, kind, members, here, unlocked, friendReq, extendReq,
                   videoReq, video, revealed>>

\* reveal(): the INSERT OR IGNORE adds a friendship only where there is none.
Reveal(u) ==
    /\ revealed' = TRUE
    /\ friends' = TRUE
    /\ Act(u, IF friends THEN "nothing" ELSE "friend")

\* Mutant: no mutual Enjoy needed.
MayAskFriendAnyone(u) == InMatch(u) /\ ~revealed
MayAskFriend(u) == InMatch(u) /\ ~revealed /\ enjoy = Users

FriendRequest(u) ==
    /\ MayAskFriend(u)
    /\ friendReq' = friendReq \cup {u}
    /\ \/ Partner(u) \in friendReq /\ Reveal(u)
       \/ /\ Partner(u) \notin friendReq
          /\ Act(u, "nothing")
          /\ UNCHANGED <<revealed, friends>>
    /\ UNCHANGED <<last, blocked, kind, members, here, unlocked, enjoy,
                   extendReq, videoReq, video>>

FriendAccept(u) ==
    /\ HasPartner(u)
    /\ Partner(u) \in friendReq
    /\ friendReq' = friendReq \cup {u}
    /\ Reveal(u)
    /\ UNCHANGED <<last, blocked, kind, members, here, unlocked, enjoy,
                   extendReq, videoReq, video>>

FriendReject(u) ==
    /\ HasPartner(u)
    /\ Partner(u) \in friendReq
    /\ friendReq' = friendReq \ {Partner(u)}
    /\ Act(u, "nothing")
    /\ UNCHANGED <<pair, kind, members, here, unlocked, enjoy, extendReq,
                   videoReq, video, revealed>>

-----------------------------------------------------------------------------
\* Mutant: a crossed request is only added.
ExtendUncrossed(u) ==
    /\ extendReq' = extendReq \cup {u}
    /\ Act(u, "nothing")

\* extendRoom(), which clears the requests of both.
ExtendRoom(u) ==
    /\ extendReq' = {}
    /\ Act(u, "extend")

AskExtend(u) ==
    \/ Partner(u) \in extendReq /\ ExtendRoom(u)
    \/ /\ Partner(u) \notin extendReq
       /\ extendReq' = extendReq \cup {u}
       /\ Act(u, "nothing")

ExtendRequest(u) ==
    /\ InMatch(u)
    /\ AskExtend(u)
    /\ UNCHANGED <<pair, kind, members, here, unlocked, enjoy, friendReq,
                   videoReq, video, revealed>>

ExtendRespond(u) ==
    /\ HasPartner(u)
    /\ Partner(u) \in extendReq
    /\ \/ ExtendRoom(u)
       \/ extendReq' = extendReq \ {Partner(u)} /\ Act(u, "nothing")
    /\ UNCHANGED <<pair, kind, members, here, unlocked, enjoy, friendReq,
                   videoReq, video, revealed>>

-----------------------------------------------------------------------------
MayAskVideo(u) == HasPartner(u) /\ (revealed \/ unlocked) /\ ~video

\* A request replaces the partner's.
VideoRequest(u) ==
    /\ MayAskVideo(u)
    /\ videoReq' = {u}
    /\ Act(u, "nothing")
    /\ UNCHANGED <<pair, kind, members, here, unlocked, enjoy, friendReq,
                   extendReq, video, revealed>>

\* Mutant: any request may be answered, one's own too.
VideoAskedByAny(u) == videoReq # {}
VideoAsked(u) == videoReq = {Partner(u)}

VideoRespond(u) ==
    /\ HasPartner(u)
    /\ VideoAsked(u)
    /\ videoReq' = {}
    /\ \E accept \in BOOLEAN :
          /\ video' = (accept \/ video)
          /\ Act(u, IF accept THEN "video" ELSE "nothing")
    /\ UNCHANGED <<pair, kind, members, here, unlocked, enjoy, friendReq,
                   extendReq, revealed>>

VideoEnd(u) ==
    /\ Access(u)
    /\ video' = FALSE
    /\ Act(u, "nothing")
    /\ UNCHANGED <<pair, kind, members, here, unlocked, enjoy, friendReq,
                   extendReq, videoReq, revealed>>

-----------------------------------------------------------------------------
(* The room comes and goes.                                                *)

\* canPair() keeps blocked pairs apart; friends may be matched again.
Match ==
    /\ kind = "none" /\ ~blocked
    /\ NewRoom("match", Users)
    /\ Act(Nobody, "nothing")
    /\ UNCHANGED pair

\* join_direct: into a new room, or the one that is open, which keeps its
\* running call.
JoinDirect(u) ==
    /\ friends /\ ~blocked
    /\ \/ kind = "none" /\ NewRoom("direct", {u})
       \/ /\ kind = "direct"
          /\ members' = members \cup {u}
          /\ here' = here \cup {u}
          /\ UNCHANGED <<kind, unlocked, enjoy, friendReq, extendReq, videoReq,
                         video, revealed>>
    /\ Act(u, "nothing")
    /\ UNCHANGED pair

\* onRoomClose() leaves a match room in lastRoom.
CloseRoom ==
    /\ NoRoom
    /\ last' = (last \/ kind = "match")

\* skip
Leave(u) ==
    /\ Access(u)
    /\ CloseRoom
    /\ Act(u, "nothing")
    /\ UNCHANGED <<friends, blocked>>

\* The end of a match's ten minutes, and of the grace period of a member who
\* is absent or, in a direct room, has been (Rooms, BlipDoesNotEndChat).
TimeOut ==
    /\ kind # "none"
    /\ CloseRoom
    /\ Act(Nobody, "nothing")
    /\ UNCHANGED <<friends, blocked>>

\* report and block end in blockPair(), for the room or for the last one.
Block(u) ==
    /\ \/ HasPartner(u) /\ CloseRoom
       \/ ~HasPartner(u) /\ last /\ UNCHANGED <<room, last>>
    /\ blocked' = TRUE /\ friends' = FALSE
    /\ Act(u, "nothing")

\* DELETE /api/me/friends/:id and POST /api/me/friends/:id/block leave the
\* room alone.
Unfriend(u) ==
    /\ friends
    /\ friends' = FALSE
    /\ blocked' \in {blocked, TRUE}
    /\ Act(u, "nothing")
    /\ UNCHANGED <<room, last>>

\* dropSocket()
Drop(u) ==
    /\ u \in here
    /\ \/ /\ kind = "direct" /\ members = {u}
          /\ NoRoom
       \/ /\ ~(kind = "direct" /\ members = {u})
          /\ here' = here \ {u}
          /\ UNCHANGED <<kind, members, unlocked, enjoy, friendReq, extendReq,
                         videoReq, video, revealed>>
    /\ Act(u, "nothing")
    /\ UNCHANGED pair

\* rejoin, from the same or another tab, ends a running call.
Rejoin(u) ==
    /\ u \in members
    /\ here' = here \cup {u}
    /\ video' = FALSE
    /\ Act(u, "nothing")
    /\ UNCHANGED <<pair, kind, members, unlocked, enjoy, friendReq, extendReq,
                   videoReq, revealed>>

\* Date.now() reaches videoUnlockAt.
Unlock ==
    /\ kind = "match" /\ ~unlocked
    /\ unlocked' = TRUE
    /\ Act(Nobody, "nothing")
    /\ UNCHANGED <<pair, kind, members, here, enjoy, friendReq, extendReq,
                   videoReq, video, revealed>>

Next ==
    \/ \E u \in Users :
          \/ Enjoy(u) \/ FriendRequest(u) \/ FriendAccept(u) \/ FriendReject(u)
          \/ ExtendRequest(u) \/ ExtendRespond(u)
          \/ VideoRequest(u) \/ VideoRespond(u) \/ VideoEnd(u)
          \/ JoinDirect(u) \/ Leave(u) \/ Block(u) \/ Unfriend(u)
          \/ Drop(u) \/ Rejoin(u)
    \/ Match \/ TimeOut \/ Unlock

Spec == Init /\ [][Next]_vars

-----------------------------------------------------------------------------
(* Properties.                                                             *)

\* README:38, "Enjoy, extend, friend, video and name-reveal each require both
\* sides": these steps implement MutualStep.  An Enjoy stands for the life of
\* the room, but counts for one step.  Friendship does not: friend_respond
\* accepts a request once more after the friendship was ended.
EnjoyStep == INSTANCE MutualStep WITH
    People <- Users, asking <- IF enjoy = Users THEN {} ELSE enjoy,
    agreed <- did = "enjoy"
ExtendStep == INSTANCE MutualStep WITH
    People <- Users, asking <- extendReq, agreed <- did = "extend"
VideoStep == INSTANCE MutualStep WITH
    People <- Users, asking <- videoReq, agreed <- did = "video"

EnjoyIsMutual == EnjoyStep!Spec
ExtendIsMutual == ExtendStep!Spec
VideoIsMutual == VideoStep!Spec
StepsAreMutual == EnjoyIsMutual /\ ExtendIsMutual /\ VideoIsMutual

\* DESIGN.md and README:84, "Nobody is identified before both say yes": in a
\* match room names are shown, or asked for, only after both enjoyed it, and a
\* friendship comes from nowhere else.
RevealNeedsEnjoy ==
    kind = "match" /\ (revealed \/ friendReq # {}) => enjoy = Users
FriendshipNeedsEnjoy ==
    [][friends' /\ ~friends => kind = "match" /\ enjoy = Users]_vars

\* Crossed requests meet: never do both have asked and both still wait.
CrossedRequestsMeet ==
    /\ extendReq # Users
    /\ friendReq = Users => revealed

\* Strangers have no call, and no prompt for one, in the first 30 s, and no
\* prompt is left standing beside a running call.
VideoIsUnlocked ==
    /\ video \/ videoReq # {} => unlocked \/ revealed
    /\ video => videoReq = {}

\* What a closed, a direct and a match room look like, and which requests can
\* stand together: the part of the invariant no single property states.
Shape ==
    /\ kind = "match" => members = Users
    /\ kind = "none" => members = {} /\ videoReq = {} /\ ~video
    /\ kind = "direct" => revealed
    /\ kind # "match" => enjoy = {} /\ friendReq = {} /\ extendReq = {}
    /\ \A u, v \in videoReq : u = v

\* The invariant of the pair and its room: what RevealNeedsEnjoy,
\* CrossedRequestsMeet and VideoIsUnlocked say, for rooms of every shape.
ConsentHolds ==
    TypeOK /\ Shape /\ RevealNeedsEnjoy /\ CrossedRequestsMeet /\ VideoIsUnlocked

===============================================================================
