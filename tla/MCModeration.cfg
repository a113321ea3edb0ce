SPECIFICATION ModerationSpec
CONSTANTS
    a = a  b = b  c = c
    Accounts <- ThreeAccounts
    Devices = {d}
    NoDevice = NoDevice
    Threshold = 2
    Thresholds = {0, 2}
    Window = 2
    AutoHours = 1
    Timeouts = {2}
    Forever = 3
    Meetings <- OnePairOrTwo
    Moderated <- First
    Returning <- Second
    MaxLives = 2
INVARIANTS ModerationHolds
PROPERTIES ReportedStayApart ReportsKeepSuspensions
