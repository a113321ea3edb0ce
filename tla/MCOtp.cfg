SPECIFICATION OtpFairSpec
CONSTANTS
    p1 = p1  p2 = p2  i1 = i1
    c1 = c1  c2 = c2  c3 = c3
    Phones <- TwoPhones
    Ips = {i1}
    Codes <- ThreeCodes
    PerNumber = 2  PerIp = 2  DailyCap = 2
    ResendGap = 1  Ttl = 1  Hour = 1  Day = 2  Week = 2
    CodeAttempts = 1
    MinSendGap = 1
    QueueLimit = 2
    Kept = 2  Recent = 2  HardLimit = 1  Enough = 2
INVARIANTS OtpHolds GuessesAreBounded
PROPERTIES SendsAreSpaced EveryRequestEnds
