SPECIFICATION Spec
CONSTANTS
    Requests = {r1, r2}
    Early = {prices}
    Late = {processor}
    MaxConns = 2
    Queries = 2
INVARIANT
    GracefulShutdown
CHECK_DEADLOCK FALSE
