SPECIFICATION Spec
CONSTANTS
    Sessions = {s1, s2}
    Users = {u1, u2}
    Ports = {p1}
    Tokens = {t1, t2, t3}
    Ips = {a1}
    MaxPending = 2
    NoSession = NoSession
    NoToken = NoToken
    NoPort = NoPort
    NoIp = NoIp
    Nobody = Nobody
    Unknown = Unknown
INVARIANT LoggedInUserHasSession
