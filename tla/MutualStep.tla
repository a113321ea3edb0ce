------------------------------ MODULE MutualStep ------------------------------
(***************************************************************************)
(* What the server promises about a step that takes two people (README:38, *)
(* rooms.js:1-2): it is completed by somebody whose partner has asked for  *)
(* it, it uses the asking up, and nobody is put down as asking but by an   *)
(* act of their own.                                                       *)
(***************************************************************************)
CONSTANTS People, Nobody

VARIABLES
    asking,     \* those who asked, and whose asking no step has used up
    by,         \* who acted last
    agreed,     \* whether that act completed the step
    turn        \* flips with every act, so that two alike are told apart

Init ==
    /\ asking = {}
    /\ by = Nobody
    /\ agreed = FALSE
    /\ turn = FALSE

Ask(u) ==
    /\ by' = u
    /\ u \in asking' /\ asking' \subseteq asking \cup {u}
    /\ ~agreed'

Agree(u) ==
    /\ by' = u
    /\ asking \ {u} # {}
    /\ asking' = {}
    /\ agreed'

\* Askings are refused, replaced or forgotten with the room.
Lapse ==
    /\ asking' \subseteq asking
    /\ ~agreed'

Next ==
    /\ turn' = ~turn
    /\ Lapse \/ \E u \in People : Ask(u) \/ Agree(u)

Spec == Init /\ [][Next]_<<asking, by, agreed, turn>>
===============================================================================
