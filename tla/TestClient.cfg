SPECIFICATION Spec
CONSTANTS
    MaxRequests = 3
    MaxPings = 2
INVARIANTS
    TypeOK
    AnswersKeepTheirOrder
PROPERTIES
    AnswersMatchUntilOneSlips
    StopEndsOnceClosed
CHECK_DEADLOCK FALSE
