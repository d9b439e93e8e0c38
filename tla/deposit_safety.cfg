SPECIFICATION Spec
CONSTANTS
    SatsToWei = 1
    FeeBps = 100
    Attempts = 2
    MaxStalls = 1
    NumAddrs = 1
    Owner <- MCOneOwner
    NumVouts = 2
    VoutLog <- MCReuseLog
    OrphanAge = 1
    Day = 1
    FairConfirmations = 1
    Backfill = 10
    ReconcileLimit = 1
    MinSats = 100
    DailyCap = 1500
    MaxTvl = 1500
    MaxUpsets = 2
    MaxTip = 3
    AuthModes <- MCBoth
    MaxSwitches = 1
INVARIANTS
    MintsAccountedFor
    MintsAreBacked
    TvlBounded
    DepositsCovered
    DailyCapHolds
