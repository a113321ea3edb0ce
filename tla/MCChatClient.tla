------------------------------ MODULE MCChatClient ----------------------------
\* The two tabs of one match room, which are interchangeable.
EXTENDS ChatClient, TLC

CONSTANTS u1, u2

Interchangeable == Permutations({u1, u2})
================================================================================
