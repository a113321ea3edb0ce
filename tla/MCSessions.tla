------------------------------- MODULE MCSessions ------------------------------
\* Two tabs of one browser and the few tokens they can use up.
EXTENDS Sessions, TLC

CONSTANTS t1, t2, k1, k2, k3

TwoTabs == {t1, t2}
ThreeTokens == {k1, k2, k3}
===============================================================================
