SPECIFICATION FairSpec
CONSTANTS
    u1 = u1  u2 = u2  u3 = u3
    s1 = s1  s2 = s2  s3 = s3  s4 = s4
    r1 = r1  r2 = r2
    Users <- ThreeUsers
    Sockets <- FourTabs
    OwnerOf <- FourOwners
    RoomIds = {r1, r2}
    NoSocket = NoSocket
    NoRoom = NoRoom
INVARIANTS RoomsInv SeatedIsPresent
PROPERTIES BlipDoesNotEndMatch AbsenceIsResolved
