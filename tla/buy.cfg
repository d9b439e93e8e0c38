SPECIFICATION FairSpec
CONSTANTS
    NumOrders = 1
    Price = 2
    Amounts <- MCAmounts
    MaxPaid = 3
    MaxPerTick = 1
    Rate = 2
    Funder = FALSE
    MaxUpsets = 3
    Attempts = 2
    MaxStalls = 1
INVARIANTS
    TxsAccountedFor
    DeliveringMeansBurned
    FailedDeliversNothing
PROPERTIES
    QueuedOrderEnds
    BurnedOrderMovesOn
