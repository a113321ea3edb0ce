SPECIFICATION FairSpec
CONSTANTS
    u1 = u1  u2 = u2  u3 = u3
    s1 = s1  s2 = s2  s3 = s3  s4 = s4
    chess = chess  films = films
    Users <- ThreeUsers
    Sockets <- FourTabs
    OwnerOf <- FourOwners
    FiltersOf <- FourFilters
    PrefFallback = 1
    SearchTimeout = 2
    RecentPair = 2
    Contested <- OnePair
INVARIANTS QueueIsSound
PROPERTIES NoEarlyRematch SweepLeavesNoPair EverySearchEnds
