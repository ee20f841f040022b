SPECIFICATION FairSpec
CONSTANTS
    t1 = t1  t2 = t2  t3 = t3  t4 = t4  t5 = t5
    c1 = c1
    a1 = a1  a2 = a2
    k1 = k1  k2 = k2
    NoAdmin = NoAdmin
    NoKey = NoKey
    Txs = {t1, t2, t3, t4, t5}
    Contracts = {c1}
    Accounts = {a1, a2}
    Codes = {k1, k2}
    TxInfo <- MCTxInfo
    ContractInfo <- MCContractInfo
    MaxHeight = 2
    Contract = c1
    Sender = a1
    KnownCodes = {k1}
    N = 2
    FilteredParts = {2}
    Finds <- MCFinds
    Rank <- MCRank
    Limit = 2
INVARIANTS
    IInv
    AnswerSound
    AnswerComplete
PROPERTIES
    ImplementsCall
    NeverAsksTwice
    Terminates
CHECK_DEADLOCK FALSE
