SPECIFICATION Spec
CONSTANTS
    u1 = u1
    u2 = u2
    a = a
    b = b
    c = c
    Users = {u1, u2}
    Tabs = {a, b, c}
    UserOf <- MCUserOf
    Fresh = {b}
    Hidden = Hidden
    Unknown = Unknown
    MaxActs = 2
    MaxFlights = 2
INVARIANTS
    FriendsInv
    ListIsRight
    DotsAreRight
CHECK_DEADLOCK FALSE
