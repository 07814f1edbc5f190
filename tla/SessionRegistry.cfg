SPECIFICATION Spec
CONSTANTS
    Sessions = {s1, s2}
    Users = {u1, u2}
    Ports = {}
    Tokens = {t1, t2, t3, t4}
    Ips = {a1}
    MaxPending = 2
    NoSession = NoSession
    NoToken = NoToken
    NoPort = NoPort
    NoIp = NoIp
    Nobody = Nobody
    Unknown = Unknown
SYMMETRY Symmetry
INVARIANTS
    TypeOK
    OneSessionPerUser
    LoginIsRegistered
    NoStaleAddress
PROPERTIES
    UnregisteredByOwnEnd
    LoginEndsWithItsSession
