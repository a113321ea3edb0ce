SPECIFICATION Spec
CONSTANTS
    u1 = u1  u2 = u2
    Users = {u1, u2}
    Nobody = Nobody
\* A pair that blocked each other has nothing left to do.
CHECK_DEADLOCK FALSE
INVARIANTS ConsentHolds
PROPERTIES StepsAreMutual FriendshipNeedsEnjoy
