------------------------------- MODULE Reserves -------------------------------
(***************************************************************************)
(* Both directions of the bridge over the FAIR that backs WFAIR, and the   *)
(* snapshots workers/reserves-snapshot.ts takes of it.  Each direction is  *)
(* taken as PayoutLedger, which DepositMint (as long as MINT_AUTH_MODE     *)
(* stays) and BurnRelease implement; a deposit reaches an address whose    *)
(* key the service does not have (hd/derive.ts holds an xpub), so it is    *)
(* not in getbalance until the operator moves it to the node's wallet,     *)
(* which pays releases, masternode rewards and the network's fees.         *)
(***************************************************************************)
EXTENDS BridgeAmounts, FiniteSetsExt

CONSTANTS
    Deposit, Burn,   \* the outputs ever paid, the BridgeBurn events ever mined
    Sats,            \* Sats[d]: what output d pays
    Wei,             \* Wei[b]: what burn b takes
    Endowment,       \* sats in the node's wallet when the bridge opens
    SeedWei,         \* what seed-pool.ts minted then
    NetworkFee,      \* bound: what a payment of the node costs beside it
    Income,          \* sats that reach the masternode reward address at a time
    MaxReceived,     \* bound: sats that ever reach it
    MaxCycles,       \* bound: reward cycles
    Payouts,         \* what one payment of a cycle may be, its fee included
    MaxAgain,        \* bound: sats that cycles pay beyond what they shared out
    MaxPays          \* bound: payments ever made for one liability

ASSUME ReservesAssumption ==
    /\ IsFiniteSet(Deposit) /\ IsFiniteSet(Burn) /\ Deposit \cap Burn = {}
    /\ \A d \in Deposit : Sats[d] \in Nat
    /\ \A b \in Burn : Wei[b] \in Nat
    /\ {Endowment, SeedWei, NetworkFee, Income, MaxReceived, MaxCycles, MaxAgain, MaxPays}
          \subseteq Nat
    /\ Payouts \subseteq Nat
    /\ SatsAsWei(Endowment) >= SeedWei

VARIABLES
    hot,       \* sats in the node's wallet
    cold,      \* sats at the deposit addresses
    supply,    \* totalSupply of WFAIR, in wei
    arrived,   \* the deposits and burns that have happened
    mints,     \* mints[d]: mint transactions sent for deposit d
    minted,    \* minted[d]: those that minted
    bounced,   \* bounced[d]: those that reverted
    mintFiled, mintState,
               \* the transaction on file, and whether d is open, settled, void
    sends,     \* sends[b]: payments the node made for burn b
    sendFiled, sendState,
    refunded,  \* void deposits and burns the operator has paid back by hand
    pool,      \* what the reward address received, the cycles begun and the sum of
               \* their pools, what was paid out of those and what was paid again
    snap,      \* the snapshot that is being taken
    doc        \* the last document of the reserves collection

mintBook == <<mints, mintFiled, mintState>>
sendBook == <<sends, sendFiled, sendState>>
vars == <<hot, cold, supply, arrived, minted, bounced, mintBook, sendBook, refunded, pool,
          snap, doc>>

MintLedger == INSTANCE PayoutLedger WITH
    Liability <- Deposit, Bounces <- TRUE,
    paid <- mints, filed <- mintFiled, state <- mintState

SendLedger == INSTANCE PayoutLedger WITH
    Liability <- Burn, Bounces <- FALSE,
    paid <- sends, filed <- sendFiled, state <- sendState

\* read is the half of captureSnapshot's Promise.all that is answered, value
\* its answer.  History: aside are the sats that the wallet's balance leaves
\* out, at the deposit addresses when it was read or come in since; burned the
\* WFAIR burned since the supply was read.
Snapshot == [read : {"none", "custody", "supply"}, value : Nat, aside : Nat, burned : Nat]
NoSnapshot == [read |-> "none", value |-> 0, aside |-> 0, burned |-> 0]

\* What the document says of the peg, "none" before the first one.
ReservesDoc == {"none", "healthy", "broken"}

PayoutState == {"open", "settled", "void"}

TypeOK ==
    /\ {hot, cold, supply} \subseteq Nat
    /\ arrived \in SUBSET (Deposit \union Burn)
    /\ minted \in [Deposit -> SUBSET (1..MaxPays)]
    /\ bounced \in [Deposit -> SUBSET (1..MaxPays)]
    /\ mints \in [Deposit -> 0..MaxPays] /\ mintFiled \in [Deposit -> 0..MaxPays]
    /\ mintState \in [Deposit -> PayoutState]
    /\ sends \in [Burn -> 0..MaxPays] /\ sendFiled \in [Burn -> 0..MaxPays]
    /\ sendState \in [Burn -> PayoutState]
    /\ refunded \in SUBSET (Deposit \union Burn)
    /\ pool \in [received : 0..MaxReceived, cycles : 0..MaxCycles, planned : Nat,
                 shared : Nat, again : 0..MaxAgain]
    /\ snap \in Snapshot
    /\ doc \in ReservesDoc

\* docs/DEPLOYMENT.md: FAIR in the hot wallet backs the WFAIR of the pool.
Init ==
    /\ hot = Endowment /\ cold = 0 /\ supply = SeedWei
    /\ arrived = {}
    /\ minted = [d \in Deposit |-> {}] /\ bounced = [d \in Deposit |-> {}]
    /\ MintLedger!LedgerInit
    /\ SendLedger!LedgerInit
    /\ refunded = {}
    /\ pool = [received |-> 0, cycles |-> 0, planned |-> 0, shared |-> 0, again |-> 0]
    /\ snap = NoSnapshot
    /\ doc = "none"

\* Between the two reads coins come in, or WFAIR is burned.
CameIn(sats) == snap' = IF snap.read = "custody" THEN [snap EXCEPT !.aside = @ + sats]
                                                ELSE snap
BurnedNow(wei) == snap' = IF snap.read = "supply" THEN [snap EXCEPT !.burned = @ + wei]
                                                  ELSE snap

-----------------------------------------------------------------------------
(***************************************************************************)
(* Deposits and their mints.                                               *)
(***************************************************************************)
MintWei(d) == ApplyFee(SatsAsWei(Sats[d]))

DepositArrives(d) ==
    /\ d \notin arrived
    /\ arrived' = arrived \union {d}
    /\ cold' = cold + Sats[d]
    /\ CameIn(Sats[d])
    /\ UNCHANGED <<hot, supply, minted, bounced, mintBook, sendBook, refunded, pool, doc>>

\* Mutant: a transaction that does not succeed at once counts as reverted.
MayVoid_Mutant(d) == IF mintFiled[d] = 0 THEN mints[d] = 0 ELSE mintFiled[d] \notin minted[d]

\* Closed as FAILED: refused before a mint was filed, or with the one on file
\* reverted.
MayVoid(d) ==
    IF mintFiled[d] = 0 THEN mints[d] = 0 ELSE mintFiled[d] \in bounced[d]

\* The service's steps on a deposit, as PayoutLedger allows them.
MintStep(d) ==
    /\ d \in arrived
    /\ \/ mints[d] < MaxPays /\ MintLedger!Pay(d)
       \/ MintLedger!File(d)
       \/ mintFiled[d] \in minted[d] /\ MintLedger!Settle(d)
       \/ MayVoid(d) /\ (MintLedger!Void(d) \/ MintLedger!Bounce(d))
    /\ UNCHANGED <<hot, cold, supply, arrived, minted, bounced, sendBook, refunded, pool, snap, doc>>

Unmined(d, i) == i \in 1..mints[d] /\ i \notin minted[d] \union bounced[d]

MintMined(d, i) ==
    /\ Unmined(d, i)
    /\ minted' = [minted EXCEPT ![d] = @ \union {i}]
    /\ supply' = supply + MintWei(d)
    /\ UNCHANGED <<hot, cold, arrived, bounced, mintBook, sendBook, refunded, pool, snap, doc>>

MintReverts(d, i) ==
    /\ Unmined(d, i)
    /\ bounced' = [bounced EXCEPT ![d] = @ \union {i}]
    /\ UNCHANGED <<hot, cold, supply, arrived, minted, mintBook, sendBook, refunded, pool, snap, doc>>

-----------------------------------------------------------------------------
(***************************************************************************)
(* Burns and their releases.                                               *)
(***************************************************************************)

\* Mutant: half a sat is rounded up and the fee forgotten.
ReleaseSats_Mutant(b) == (Wei[b] + SatsToWei - 1) \div SatsToWei

ReleaseSats(b) == ApplyFee(WeiToSats(Wei[b]))

BurnMined(b) ==
    /\ b \notin arrived /\ Wei[b] <= supply
    /\ arrived' = arrived \union {b}
    /\ supply' = supply - Wei[b]
    /\ BurnedNow(Wei[b])
    /\ UNCHANGED <<hot, cold, minted, bounced, mintBook, sendBook, refunded, pool, doc>>

Release(b) ==
    /\ b \in arrived /\ sends[b] < MaxPays
    /\ SendLedger!Pay(b)
    /\ hot >= ReleaseSats(b) + NetworkFee
    /\ hot' = hot - ReleaseSats(b) - NetworkFee
    /\ UNCHANGED <<cold, supply, arrived, minted, bounced, mintBook, refunded, pool, snap, doc>>

SendStep(b) ==
    /\ b \in arrived
    /\ SendLedger!File(b) \/ SendLedger!Settle(b) \/ SendLedger!Void(b)
    /\ UNCHANGED <<hot, cold, supply, arrived, minted, bounced, mintBook, refunded, pool, snap, doc>>

-----------------------------------------------------------------------------
(***************************************************************************)
(* The operator and the masternode rewards.                                *)
(***************************************************************************)

\* Coins go from the deposit addresses to the node's wallet.
Sweep ==
    /\ cold > 0
    /\ cold' = 0 /\ hot' = hot + cold
    /\ UNCHANGED <<supply, arrived, minted, bounced, mintBook, sendBook, refunded, pool, snap,
                   doc>>

\* "tvl cap exceeded - deposit failed, manual refund".
RefundDeposit(d) ==
    /\ mintState[d] = "void" /\ d \notin refunded
    /\ cold >= Sats[d]
    /\ cold' = cold - Sats[d]
    /\ refunded' = refunded \union {d}
    /\ UNCHANGED <<hot, supply, arrived, minted, bounced, mintBook, sendBook, pool, snap, doc>>

RewardIncome ==
    /\ pool.received + Income <= MaxReceived
    /\ pool' = [pool EXCEPT !.received = @ + Income]
    /\ hot' = hot + Income
    /\ CameIn(Income)
    /\ UNCHANGED <<cold, supply, arrived, minted, bounced, mintBook, sendBook, refunded, doc>>

\* getreceivedbyaddress tells all the address ever received, what earlier
\* cycles shared out of it as well.
ReceivedByAddress == pool.received

RewardCycle ==
    /\ pool.cycles < MaxCycles
    /\ pool' = [pool EXCEPT !.cycles = @ + 1, !.planned = @ + ReceivedByAddress]
    /\ UNCHANGED <<hot, cold, supply, arrived, minted, bounced, mintBook, sendBook, refunded,
                   snap, doc>>

\* The payouts of a cycle, with the fees set aside for them, fit its pool.
RewardPayout(sats) ==
    /\ pool.shared + sats <= pool.planned
    /\ hot >= sats /\ hot' = hot - sats
    /\ pool' = [pool EXCEPT !.shared = @ + sats]
    /\ UNCHANGED <<cold, supply, arrived, minted, bounced, mintBook, sendBook, refunded, snap,
                   doc>>

\* A share whose txid was forgotten, or that a tick which overlaps has paid,
\* is paid again (MasternodeRewards); the network may take more than the fee
\* that was set aside.
RewardAgain(sats) ==
    /\ pool.cycles > 0 /\ pool.again + sats <= MaxAgain
    /\ hot >= sats /\ hot' = hot - sats
    /\ pool' = [pool EXCEPT !.again = @ + sats]
    /\ UNCHANGED <<cold, supply, arrived, minted, bounced, mintBook, sendBook, refunded, snap,
                   doc>>

-----------------------------------------------------------------------------
(***************************************************************************)
(* captureSnapshot.                                                        *)
(***************************************************************************)
ReadFirst ==
    /\ snap.read = "none"
    /\ \/ snap' = [read |-> "custody", value |-> hot, aside |-> cold, burned |-> 0]
       \/ snap' = [read |-> "supply", value |-> supply, aside |-> 0, burned |-> 0]
    /\ UNCHANGED <<hot, cold, supply, arrived, minted, bounced, mintBook, sendBook, refunded,
                   pool, doc>>

fairCustodySats == IF snap.read = "custody" THEN snap.value ELSE hot
wfairSupplyWei == IF snap.read = "supply" THEN snap.value ELSE supply

\* Mutant: what is in the wei beyond whole sats counts for one.
wfairSupplySats_Mutant == WeiToSats(wfairSupplyWei) + 1

wfairSupplySats == WeiToSats(wfairSupplyWei)
pegHealthy == fairCustodySats - wfairSupplySats >= 0

\* The other read is answered, and the document written.
StoreSnapshot ==
    /\ snap.read # "none"
    /\ doc' = IF pegHealthy THEN "healthy" ELSE "broken"
    /\ snap' = NoSnapshot
    /\ UNCHANGED <<hot, cold, supply, arrived, minted, bounced, mintBook, sendBook, refunded, pool>>

\* A read or the write rejects, or the process dies.
SnapshotFails ==
    /\ snap.read # "none"
    /\ snap' = NoSnapshot
    /\ UNCHANGED <<hot, cold, supply, arrived, minted, bounced, mintBook, sendBook, refunded,
                   pool, doc>>

Next ==
    \/ \E d \in Deposit : DepositArrives(d)
    \/ \E d \in Deposit : MintStep(d)
    \/ \E d \in Deposit : RefundDeposit(d)
    \/ \E d \in Deposit, i \in 1..MaxPays : MintMined(d, i)
    \/ \E d \in Deposit, i \in 1..MaxPays : MintReverts(d, i)
    \/ \E b \in Burn : BurnMined(b)
    \/ \E b \in Burn : Release(b)
    \/ \E b \in Burn : SendStep(b)
    \/ Sweep
    \/ RewardIncome
    \/ RewardCycle
    \/ \E sats \in Payouts : RewardPayout(sats)
    \/ \E sats \in Payouts : RewardAgain(sats)
    \/ ReadFirst
    \/ StoreSnapshot
    \/ SnapshotFails

Spec == Init /\ [][Next]_vars

-----------------------------------------------------------------------------
(***************************************************************************)
(* Properties.                                                             *)
(***************************************************************************)
NonNegative(n) == IF n < 0 THEN 0 ELSE n

\* The mint on file, or as long as none is, one that may yet be filed.
OnFile(d) == IF mintFiled[d] # 0 THEN mintFiled[d] ELSE CHOOSE i \in 0..MaxPays :
                IF minted[d] = {} THEN i = 0 ELSE i \in minted[d]

\* What is still to be minted, refunded or released.
MintDue(d) ==
    IF d \in arrived /\ mintState[d] = "open" /\ OnFile(d) \notin minted[d] \union bounced[d]
    THEN MintWei(d) ELSE 0
RefundDue(d) ==
    IF d \in arrived \ refunded /\ (mintState[d] = "void" \/ OnFile(d) \in bounced[d])
    THEN Sats[d] ELSE 0
ReleaseDue(b) ==
    IF b \in arrived /\ sendState[b] = "open" /\ sends[b] = 0 THEN ReleaseSats(b) ELSE 0

Claims ==
    supply + MapThenSumSet(MintDue, Deposit)
           + SatsAsWei(MapThenSumSet(RefundDue, Deposit) + MapThenSumSet(ReleaseDue, Burn))

\* What mints and payments that the service forgot took out of the backing.
ExtraMints(d) == MintWei(d) * Cardinality(minted[d] \ {OnFile(d)})
ExtraSends(b) == ReleaseSats(b) * NonNegative(sends[b] - 1)

\* What rewards took that the reward address never received, and the network.
OverShared == NonNegative(pool.shared - pool.received)
NetworkFees == NetworkFee * MapThenSumSet(LAMBDA b : sends[b], Burn)

Leaks ==
    MapThenSumSet(ExtraMints, Deposit)
      + SatsAsWei(MapThenSumSet(ExtraSends, Burn) + OverShared + pool.again + NetworkFees)

\* README.md: "WFAIR is a 1:1 wrapped representation of FairCoin".  The FAIR
\* of the wallet and of the deposit addresses covers every WFAIR and every
\* deposit and burn still to be settled, whatever the order of both
\* directions, up to what is named, each with its amount: mints and releases
\* the service forgot it made, reward cycles that share out the income of
\* earlier ones, reward payments made again, and the fees of the network,
\* which the bridge's fee need not cover.
Backed == SatsAsWei(hot + cold) + Leaks >= Claims

\* What the snapshot says is missing, and what it leaves out of the custody.
Shortfall == SatsAsWei(wfairSupplySats - fairCustodySats)
Aside == IF snap.read = "custody" THEN snap.aside ELSE cold

\* A snapshot that says the peg is broken names an amount, and the amount has
\* its reasons: coins at the deposit addresses, which getbalance does not
\* count, or come in since it was read, WFAIR burned since the supply was
\* read, and backing that is really gone.  They cover even what is still to
\* be minted, refunded and released; mints, releases, sweeps and refunds
\* between the two reads explain nothing.
AlarmHasReason ==
    [][StoreSnapshot /\ doc' = "broken" =>
         /\ Shortfall > 0
         /\ Shortfall + (Claims - supply) <= SatsAsWei(Aside) + Leaks + snap.burned]_vars
=============================================================================
