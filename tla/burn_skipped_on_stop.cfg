SPECIFICATION Spec
CONSTANTS
    SatsToWei = 10
    FeeBps = 100
    Attempts = 2
    MaxStalls = 1
    NumBurns = 2
    BurnLog <- MCBurnLog
    Verdicts <- MCVerdicts
    DailyCap = 3959
    MaxErrors = 0
    Confirmations = 1
    MaxLogRange = 2
    Backfill = 10
    ReconcileLimit = 1
    MaxTip = 3
    MaxCrashes = 0
    MaxStops = 1
INVARIANT
    ProgressSurvivesRestart
