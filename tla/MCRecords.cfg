SPECIFICATION Spec
CONSTANTS
    People = {p1}
    None = None
    Ids = {id1, id2}
    MaxBuffer = 2
    EventsDays = 2
    ReportsDays = 1
    BackupKeep = 1
    LastDay = 3
    ClosingDays = {2}
    MaxRows = 2
    MaxFaults = 1
SYMMETRY IdsAreAlike
INVARIANTS
    TypeOK
    TotalsAreExact
    ErasedStayForgotten
    
CHECK_DEADLOCK FALSE
