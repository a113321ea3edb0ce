------------------------------- MODULE MCFriends -------------------------------
(* Two people, the first with two tabs.                                     *)
EXTENDS Friends, TLC

CONSTANTS u1, u2, a, b, c

MCUserOf == (a :> u1) @@ (b :> u1) @@ (c :> u2)

=============================================================================
