SPECIFICATION Spec
CONSTANTS
    u1 = u1  u2 = u2  u3 = u3
    s1 = s1  s2 = s2  s3 = s3  s4 = s4
    r1 = r1  r2 = r2
    Users <- TwoUsers
    Sockets <- ThreeTabs
    OwnerOf <- ThreeOwners
    RoomIds = {r1}
    NoSocket = NoSocket
    NoRoom = NoRoom
PROPERTIES BlipDoesNotEndChat
