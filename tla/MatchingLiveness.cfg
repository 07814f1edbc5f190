SPECIFICATION LiveSpec
CONSTANTS
    Sessions = {s1}
    Users = {u1}
    p1 = p1
    Ports = {p1}
    Tokens = {t1, t2}
    Ips = {a1}
    MaxPending = 3
    NoSession = NoSession
    NoToken = NoToken
    NoPort = NoPort
    NoIp = NoIp
    Nobody = Nobody
    Unknown = Unknown
    Rooms <- MCTwoRooms
    Games = {g1}
    Sizes <- MCSizes
    PortOf <- MCPortOf
    DbFaults = FALSE
    Crashes = FALSE
    Stops = FALSE
PROPERTIES
    ClosedSessionEnds
    IdleSessionIsClosed
    SilentPlayerLeaves
