----------------------------- MODULE Withdrawals -----------------------------
(***************************************************************************)
(* What the base-watcher and the release worker share: the burns on Base,  *)
(* the withdrawals collection in MongoDB, the release queue in Redis, the  *)
(* FairCoin node behind validateaddress, and the process both run in.      *)
(***************************************************************************)
EXTENDS BridgeAmounts, JobQueue, FiniteSets

CONSTANTS
    NumBurns,   \* BridgeBurn events that are ever emitted
    BurnLog,    \* their block, amount and sender, in log order
    Verdicts,   \* Verdicts[b]: answers validateaddress may give for burn b
    DailyCap,   \* PER_ADDRESS_DAILY_CAP_FAIR, in sats
    MaxErrors   \* bound: RPC, MongoDB or Redis calls that fail

\* A burn is named by its position in log order; (txHash, logIndex) in code.
Burn == 1..NumBurns

ASSUME BurnAssumption ==
    /\ NumBurns \in Nat
    /\ \A b \in Burn : /\ BurnLog[b].block \in Nat
                       /\ BurnLog[b].wei \in Nat
                       /\ Verdicts[b] \in (SUBSET BOOLEAN) \ {{}}
    /\ \A b, c \in Burn : b < c => BurnLog[b].block <= BurnLog[c].block
    /\ DailyCap \in Nat
    /\ MaxErrors \in Nat

VARIABLES
    row,     \* row[b]: the withdrawal of burn b in MongoDB
    job,     \* job[b]: the release job of burn b in Redis
    mode,    \* the bridge process: up, stopping after SIGTERM, or down
    errors   \* failed calls so far

\* The enum also has DETECTED and FINAL, which no code ever assigns; "none"
\* is the absence of the document.
Status == {"none", "CONFIRMED", "SIGNING", "BROADCAST", "FAILED"}

(***************************************************************************)
(* fairTxid is the ordinal of the payment for this burn that the txid      *)
(* names, 0 for null.  age is what the code asks of createdAt: 0 is under  *)
(* five minutes, 1 is older, 2 is over a day.                              *)
(***************************************************************************)
Withdrawal == [status : Status, sats : Nat, fairTxid : Nat, age : 0..2]

NoRow == [status |-> "none", sats |-> 0, fairTxid |-> 0, age |-> 0]

Exists(b) == row[b].status # "none"

GrossSats(b) == WeiToSats(BurnLog[b].wei)

SharedTypeOK ==
    /\ row \in [Burn -> Withdrawal]
    /\ job \in [Burn -> Job]
    /\ mode \in {"up", "stopping", "down"}
    /\ errors \in 0..MaxErrors

SharedInit ==
    /\ row = [b \in Burn |-> NoRow]
    /\ job = [b \in Burn |-> NoJob]
    /\ mode = "up"
    /\ errors = 0

Fault == errors < MaxErrors /\ errors' = errors + 1
=============================================================================
