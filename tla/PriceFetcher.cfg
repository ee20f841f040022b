SPECIFICATION FairSpec
CONSTANTS
    DayLen = 2
    MinInterval = 1
    MaxRetries = 2
    GrantDate = 2
    Glitches = {2}
    MaxNow = 3
    MaxBoots = 2
INVARIANTS
    IInv
    PricesFit
    CurrentPriceIsTodays
    RangeCached
PROPERTIES
    RequestsSpaced
    CallsReturn
CHECK_DEADLOCK FALSE
