SPECIFICATION FairSpec
CONSTANTS
    Runners <- MCLoopAndAdmin
    Loop = "loop"
    NumCycles = 2
    Threshold = 4
    TreasuryBps = 3000
    MasternodeBps = 2000
    Rate = 3
    Income = 5
    MaxIncome = 2
    MaxUpsets = 3
    MaxOverlaps = 1
INVARIANTS
    TxsAccountedFor
    OneOpenCycle
    CompleteMeansDistributed
    NoWfairLeft
PROPERTY
    BuybackEnds
