SPECIFICATION LiveSpec
CONSTANTS
    s1 = s1
    u1 = u1
    u2 = u2
    u3 = u3
    Nobody = Nobody
    PoolSize = 1
    MaxConn = 2
    Sessions <- MCSessions
    Users <- MCThreeUsers
    Rooms <- MCRooms
    Sizes <- MCSizes
    DbFaults = TRUE
INVARIANTS
    TypeOK
    TerminatedRoomIsEmpty
PROPERTIES
    HostStartsAlone
    ImplementsLobby
    RequestIsAnswered
