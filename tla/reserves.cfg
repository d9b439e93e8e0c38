SPECIFICATION Spec
CONSTANTS
    SatsToWei = 10
    FeeBps = 100
    Deposit = {"d1"}
    Burn = {"b1", "b2"}
    Sats <- MCSats
    Wei <- MCWei
    Endowment = 150
    SeedWei = 1500
    NetworkFee = 1
    Income = 20
    MaxReceived = 20
    MaxCycles = 2
    Payouts = {20}
    MaxAgain = 20
    MaxPays = 2
INVARIANT
    Backed
PROPERTY
    AlarmHasReason
CHECK_DEADLOCK FALSE
