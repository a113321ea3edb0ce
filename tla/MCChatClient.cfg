SPECIFICATION ChatSpec
CONSTANTS
    u1 = u1  u2 = u2
    Users = {u1, u2}
    Terms = 2
    MaxOnWay = 1
    MaxTexts = 1
    MaxBreaks = 1
SYMMETRY Interchangeable
\* Nothing is left to do once the room is closed and both have left it.
CHECK_DEADLOCK FALSE
INVARIANTS TextsAreSound RailIsRight NothingIsShownEarly NobodyIsLeftBehind
