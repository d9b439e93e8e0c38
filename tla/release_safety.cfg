SPECIFICATION Spec
CONSTANTS
    SatsToWei = 10
    FeeBps = 100
    Attempts = 2
    MaxStalls = 1
    NumBurns = 2
    BurnLog <- MCBurnLog
    Verdicts <- MCVerdicts
    DailyCap = 3970
    MaxErrors = 1
    Confirmations = 1
    MaxLogRange = 2
    Backfill = 10
    ReconcileLimit = 1
    MaxTip = 3
    MaxCrashes = 1
    MaxStops = 1
INVARIANTS
    TypeOK
    PaymentsAccountedFor
    PaidOnlyForConfirmedBurns
    DailyCapHolds
    CursorCovers
    ClaimedHasJob
PROPERTY
    ReleaseIsLedger
