------------------------------- MODULE MCRooms --------------------------------
\* Instances of Rooms for TLC: a user with two tabs, and partners with one.
EXTENDS Rooms, TLC

CONSTANTS u1, u2, u3, s1, s2, s3, s4, r1, r2

TwoUsers == {u1, u2}
ThreeTabs == {s1, s2, s3}
ThreeOwners == (s1 :> u1) @@ (s2 :> u1) @@ (s3 :> u2)

ThreeUsers == {u1, u2, u3}
FourTabs == {s1, s2, s3, s4}
FourOwners == (s1 :> u1) @@ (s2 :> u1) @@ (s3 :> u2) @@ (s4 :> u3)
================================================================================
