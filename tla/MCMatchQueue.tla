----------------------------- MODULE MCMatchQueue -----------------------------
\* One user with two tabs and two users with one each; filters that overlap,
\* that do not, and none at all.
EXTENDS MatchQueue, TLC, FiniteSets

CONSTANTS u1, u2, u3, s1, s2, s3, s4, chess, films

ThreeUsers == {u1, u2, u3}
FourTabs == {s1, s2, s3, s4}
FourOwners == (s1 :> u1) @@ (s2 :> u1) @@ (s3 :> u2) @@ (s4 :> u3)

FourFilters == (s1 :> {{chess}}) @@ (s2 :> {{films}}) @@ (s3 :> {{}, {films}})
               @@ (s4 :> {{chess}})

OnePair == {{u2, u3}}
===============================================================================
