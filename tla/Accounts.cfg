SPECIFICATION Spec
CONSTANTS
    bob = bob
    Bob = Bob
    amy = amy
    p1 = p1
    p2 = p2
    nick = nick
    longNick = longNick
    default = default
    Names = {bob, Bob, amy}
    Lower <- MCLower
    ValidNames = {bob, Bob}
    Passwords = {p1, p2}
    Nicks = {nick, longNick}
    LongNicks = {longNick}
    DefaultNick = default
    MaxUsers = 2
    PoolSize = 2
    MaxLost = 3
INVARIANTS
    TypeOK
    OnlyLostConnectionsLeak
PROPERTIES
    TakenNamesAreRefused
    SuccessNamesAnAccount
