SPECIFICATION FairSeedSpec
CONSTANTS
    Account <- MCAccount
    Admin = "admin"
    Minter = "minter"
    Npm = "npm"
    Pool = "pool"
    Holder = "holder"
    Seed = 100
    Dust = 1
    TickSpacing = 60
    TickInit = 283457
    TickLow = 283255
    TickHigh = 269392
    MaxMints = 2
    MaxMishaps = 3
INVARIANTS
    DoneMeansSeededOnce
    HeldOnce
PROPERTY
    EventuallySeeded
CHECK_DEADLOCK FALSE
