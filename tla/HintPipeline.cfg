SPECIFICATION PipelineSpec
CONSTANTS
    g1 = g1
    g2 = g2
    b1 = b1
    b2 = b2
    v1 = v1
    o1 = o1
    Games = {g1, g2}
    Versions = {v1}
    VersionOf <- MCVersionOf
    Requests <- MCRequests
    Operators = {o1}
    PickDocs = {1}
    WinDocs = {2}
    MaxBatch = 2
    Ambiguous = {g2}
    DbFaults = TRUE
    NoVersion = NoVersion
    RecordsOf <- MCRecordsOf
    Other = Other
    Malformed = Malformed
INVARIANTS
    TypeOK
    CountedGamesAreLogged
PROPERTIES
    CarryOverIsComplete
    ImplementsLedger
