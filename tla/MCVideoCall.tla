----------------------------- MODULE MCVideoCall ------------------------------
(* Two tabs, two clicks on the camera button, one upset.                     *)
EXTENDS VideoCall, TLC

TabsAreAlike == Permutations(Users)
==============================================================================
