SPECIFICATION Spec
CONSTANTS
    Users = {a, b}
    None = None
    MaxRequests = 2
    MaxUpsets = 1
SYMMETRY TabsAreAlike
INVARIANTS
    CameraNeedsConsent
    OnlyOvertakenStay
    CallIsShared
CHECK_DEADLOCK FALSE
