------------------------------- MODULE MCRealtime ------------------------------
\* An instance of Realtime for TLC: a user with two tabs and one with one.
EXTENDS Realtime, TLC

CONSTANTS u1, u2, t1, t2, t3, a1, a2, b1, c1, r1, r2

TwoRooms == {r1, r2}
TwoUsers == {u1, u2}
ThreeTabs == {t1, t2, t3}
TabOwners == (t1 :> u1) @@ (t2 :> u1) @@ (t3 :> u2)

\* One tab has a second connection, which it may get while the server still
\* holds the first; that of another comes back once the server let go of it.
FourSockets == {a1, a2, b1, c1}
SocketTabs == (a1 :> t1) @@ (a2 :> t1) @@ (b1 :> t2) @@ (c1 :> t3)
================================================================================
