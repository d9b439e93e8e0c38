SPECIFICATION FairSpec
CONSTANTS
    SatsToWei = 1
    FeeBps = 100
    Attempts = 2
    MaxStalls = 1
    NumAddrs = 2
    Owner <- MCTwoOwners
    NumVouts = 2
    VoutLog <- MCDustLog
    OrphanAge = 1
    Day = 1
    FairConfirmations = 1
    Backfill = 10
    ReconcileLimit = 1
    MinSats = 100
    DailyCap = 1500
    MaxTvl = 1500
    MaxUpsets = 2
    MaxTip = 2
    AuthModes <- MCBoth
    MaxSwitches = 0
PROPERTIES
    MintIsLedger
    EveryDepositSettles
