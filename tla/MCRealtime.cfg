SPECIFICATION Spec
CONSTANTS
    u1 = u1  u2 = u2
    t1 = t1  t2 = t2  t3 = t3
    a1 = a1  a2 = a2  b1 = b1  c1 = c1
    r1 = r1  r2 = r2
    Users <- TwoUsers
    Tabs <- ThreeTabs
    UserOf <- TabOwners
    Sockets <- FourSockets
    TabOf <- SocketTabs
    RoomIds <- TwoRooms
    MaxClicks = 4
    MaxFaults = 1
    NoSocket = NoSocket
    NoRoom = NoRoom
    Nobody = Nobody
INVARIANTS TypeOK SearchersAreFree BannedAreNowhere ScreensAreTrue
PROPERTIES RoomsAreRooms
CHECK_DEADLOCK FALSE
