SPECIFICATION Spec
CONSTANTS
    t1 = t1  t2 = t2  t3 = t3
    c1 = c1  c2 = c2
    a1 = a1  a2 = a2
    k1 = k1  k2 = k2
    NoAdmin = NoAdmin
    Txs = {t1, t2, t3}
    Contracts = {c1, c2}
    Accounts = {a1, a2}
    Codes = {k1, k2}
    TxInfo <- MCTxInfo
    ContractInfo <- MCContractInfo
    MaxHeight = 2
    StartHeight = 0
    SkipCodes = {}
    FlushEvery = 2
    MaxFaults = 1
INVARIANTS
    IInv
    NoGapLeft
PROPERTY ImplementsLedger
CHECK_DEADLOCK FALSE
