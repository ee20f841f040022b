SPECIFICATION FairSpec
CONSTANTS
    Writers = {w1, w2}
    t1 = t1  t2 = t2
    Txs = {t1, t2}
    TimeOf <- MCTimeOf
    PageSize = 1
INVARIANTS
    IInv
    LackOnlyContested
    PricedWithinCounted
    NoRowSkipped
PROPERTIES
    ImplementsTotals
    LoneInsertRepairs
    StatementsEnd
CHECK_DEADLOCK FALSE
