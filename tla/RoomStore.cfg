SPECIFICATION Spec
CONSTANTS
    u1 = u1
    u2 = u2
    u3 = u3
    mirror = mirror
    g1 = g1
    g2 = g2
    Users <- MCUsers
    Callers <- MCCallers
    Games <- MCGames
    Rooms <- MCRooms
    Sizes <- MCSizes
    DbFaults = TRUE
SYMMETRY Symmetry
INVARIANTS
    TypeOK
    NoRoomOverfull
    TerminatedRoomIsEmpty
    RunningGameHoldsItsRoom
PROPERTIES
    EnterOnlyWhileWaiting
    LastExitTerminates
    ImplementsLobby
