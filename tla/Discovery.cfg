SPECIFICATION FairSpec
CONSTANTS
    s1 = s1  s2 = s2  r = r  q = q  x = x
    a1 = a1  a2 = a2  a3 = a3
    k1 = k1  k2 = k2  k3 = k3  k4 = k4
    NoAdmin = NoAdmin
    Contracts = {s1, s2, r, q, x}
    Accounts = {a1, a2, a3}
    Codes = {k1, k2, k3, k4}
    ContractInfo <- MCContractInfo
    Seeds = {s1, s2}
    ExtraCodes = {k3}
    Refresh = TRUE
    MaxFaults = 1
    MaxBoots = 2
INVARIANTS
    IInv
    KnownReachable
    SavedAtRest
PROPERTIES
    AllFound
    ExpansionComplete
    ExpansionProgress
    ImplementsMap
CHECK_DEADLOCK FALSE
