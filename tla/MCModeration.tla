------------------------------ MODULE MCModeration ----------------------------
\* Instances of Moderation for TLC: a is reported by b and c, reports b back,
\* and may share a device with them; an admin acts on a; b may delete the
\* account and return under the same address.
EXTENDS Moderation

CONSTANTS a, b, c

ThreeAccounts == {a, b, c}
OnePairOrTwo == {{a, b}, {a, c}}
First == {a}
Second == {b}
===============================================================================
