SPECIFICATION FairSpec
CONSTANTS
    t1 = t1  t2 = t2
    k1 = k1  k2 = k2  k3 = k3
    Tabs <- TwoTabs
    NoTab = NoTab  MaxCalls = 2
    NoToken = NoToken
    Tokens <- ThreeTokens
INVARIANTS TokensAreInOrder
PROPERTIES BootEnds
