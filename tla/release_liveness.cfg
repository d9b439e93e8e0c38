SPECIFICATION FairSpec
CONSTANTS
    SatsToWei = 10
    FeeBps = 100
    Attempts = 2
    MaxStalls = 1
    NumBurns = 2
    BurnLog <- MCDustLog
    Verdicts <- MCVerdicts
    DailyCap = 3959
    MaxErrors = 1
    Confirmations = 1
    MaxLogRange = 1
    Backfill = 10
    ReconcileLimit = 2
    MaxTip = 3
    MaxCrashes = 1
    MaxStops = 0
PROPERTY
    EveryBurnSettles
