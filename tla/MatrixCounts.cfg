SPECIFICATION Spec
CONSTANTS
    Classes = {1, 100, 1000}
    Maps = {1, 2}
    Counts = {4}
    Pool = 7
    RoundSize = 2
    Logs <- MCLogs
    MaxPlayers = 2
INVARIANTS
    SharesCountPlayers
    TransitionsAreCoexistences
    TotalsAreSums
CHECK_DEADLOCK FALSE
