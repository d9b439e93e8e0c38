SPECIFICATION FairSpec
CONSTANTS
    Runners <- MCLoopAndAdmin
    Loop = "loop"
    NumNodes = 2
    NumCycles = 2
    MinBalance = 8
    PayoutFee = 5
    Income = 9
    MaxReceived = 18
    MaxUpsets = 3
    MaxOverlaps = 1
INVARIANTS
    PayoutsAccountedFor
    CompleteMeansPaid
    SpentWithinPool
PROPERTY
    EveryCycleEnds
