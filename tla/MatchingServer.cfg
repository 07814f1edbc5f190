SPECIFICATION Spec
CONSTANTS
    Sessions = {s1, s2}
    Users = {u1}
    p1 = p1
    Ports = {p1}
    Tokens = {t1, t2}
    Ips = {a1}
    MaxPending = 2
    NoSession = NoSession
    NoToken = NoToken
    NoPort = NoPort
    NoIp = NoIp
    Nobody = Nobody
    Unknown = Unknown
    Rooms <- MCRooms
    Games = {}
    Sizes <- MCSizes
    PortOf <- MCPortOf
    DbFaults = FALSE
    Crashes = TRUE
    Stops = TRUE
SYMMETRY Symmetry
INVARIANTS
    NoDanglingEntry
    ConversationContinues
PROPERTIES
    OnlyCrashesStrandPlayers
    EndFreesSeats
