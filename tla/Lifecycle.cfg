SPECIFICATION FairSpec
CONSTANTS
    Requests = {r1, r2}
    Early = {prices}
    Late = {processor}
    MaxConns = 2
    Queries = 2
INVARIANTS
    IInv
    CutOnlyIfCancelled
PROPERTIES
    SignalStops
    ServerFailureStops
    RequestsAnswered
CHECK_DEADLOCK FALSE
