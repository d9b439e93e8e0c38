------------------------------ MODULE BuyOrder -------------------------------
(***************************************************************************)
(* The sale of FAIR for USDC: POST /quote of api/buy.ts gives an order a   *)
(* payment address of its own, workers/buy-watcher.ts sees the payment and *)
(* queues a job, signer/buy.ts, run by the buy worker of                   *)
(* workers/orchestrator.ts, swaps the USDC for WFAIR and bridge-burns it,  *)
(* and the release of that burn (signer/fair.ts) marks the order DELIVERED *)
(* if it finds the burn's hash on it.                                      *)
(***************************************************************************)
EXTENDS JobQueue, Sequences, FiniteSets

CONSTANTS
    NumOrders,    \* orders that are ever quoted
    Price,        \* paymentAmount of an order
    Amounts,      \* what a customer may send at a time
    MaxPaid,      \* bound: what reaches a payment address in all
    MaxPerTick,   \* MAX_ORDERS_PER_TICK
    Rate,         \* WFAIR that the pool gives for a unit of USDC
    Funder,       \* whether BRIDGE_EOA_PRIVATE_KEY can pay for gas
    MaxUpsets     \* bound: failed calls, reverts and kills, in all

Order == 1..NumOrders

ASSUME BuyAssumption ==
    /\ {NumOrders, Price, MaxPaid, MaxPerTick, Rate, MaxUpsets} \subseteq Nat \ {0}
    /\ Amounts \subseteq Nat
    /\ Funder \in BOOLEAN

VARIABLES
    order,      \* order[o]: the document in buy_orders
    job,        \* job[o]: its job in the buy queue
    w,          \* the buy-watcher's place in its tick
    s,          \* the buy worker's place in processBuy and its local variables
    up,         \* whether the process runs
    account,    \* account[o]: what the payment address holds on Base
    tx,         \* tx[o]: transactions sent from it after approve, by nonce
    lost,       \* history: lost[o][kind] of them whose hash was forgotten
    upsets      \* failed calls, reverts and kills so far

chain == <<account, tx>>
vars == <<order, job, w, s, up, chain, lost, upsets>>

(***************************************************************************)
(* swap and burn are the places in tx[o] of the transactions on file, 0    *)
(* for null; release is the burn whose release is on file.  late says that *)
(* paymentExpiresAt has passed.  "none": not quoted yet.                   *)
(***************************************************************************)
OrderStatus == {"none", "AWAITING_PAYMENT", "PAYMENT_DETECTED", "SWAPPING", "BURNING",
                "DELIVERING", "DELIVERED", "FAILED", "EXPIRED"}
OrderDoc == [status : OrderStatus, late : BOOLEAN, swap : Nat, burn : Nat, release : Nat]
NoOrder == [status |-> "none", late |-> FALSE, swap |-> 0, burn |-> 0, release |-> 0]

\* paid is what the customer sent so far.
Account == [paid : 0..MaxPaid, usdc : Nat, wfair : Nat, allowance : Nat]

(***************************************************************************)
(* A burn that is "ok" goes through the release pipeline: "refused" if its *)
(* FAIR is never sent; "paid" once it is, then "linked" once               *)
(* linkReleaseToBuyOrder ran, or "unlinked" if it never will.              *)
(***************************************************************************)
Transaction == [kind : {"swap", "burn"}, amount : Nat,
                status : {"pending", "reverted", "ok", "refused", "paid", "linked", "unlinked"}]
Landed == {"ok", "refused", "paid", "linked", "unlinked"}

WatcherPc == {"off", "idle", "list", "scan", "claim", "add"}
Watcher == [pc : WatcherPc, todo : SUBSET Order]

SignerPc == {"off", "idle", "load", "balance", "gas", "approve", "send", "record",
             "await", "claimburn", "done", "giveup"}

\* kind: the transaction at hand; sent: its place; amount: what it moves.
Signer == [pc : SignerPc, o : 0..NumOrders, kind : {"swap", "burn"}, sent : Nat,
           amount : Nat]

WIdle == [pc |-> "idle", todo |-> {}]
WOff == [WIdle EXCEPT !.pc = "off"]
SIdle == [pc |-> "idle", o |-> 0, kind |-> "swap", sent |-> 0, amount |-> 0]
SOff == [SIdle EXCEPT !.pc = "off"]

TypeOK ==
    /\ order \in [Order -> OrderDoc]
    /\ job \in [Order -> Job]
    /\ w \in Watcher
    /\ s \in Signer
    /\ up \in BOOLEAN
    /\ account \in [Order -> Account]
    /\ tx \in [Order -> Seq(Transaction)]
    /\ lost \in [Order -> [{"swap", "burn"} -> Nat]]
    /\ upsets \in 0..MaxUpsets

Init ==
    /\ order = [o \in Order |-> NoOrder]
    /\ job = [o \in Order |-> NoJob]
    /\ w = WIdle
    /\ s = SIdle
    /\ up = TRUE
    /\ account = [o \in Order |-> [paid |-> 0, usdc |-> 0, wfair |-> 0, allowance |-> 0]]
    /\ tx = [o \in Order |-> <<>>]
    /\ lost = [o \in Order |-> [kind \in {"swap", "burn"} |-> 0]]
    /\ upsets = 0

Fault == upsets < MaxUpsets /\ upsets' = upsets + 1

-----------------------------------------------------------------------------
(***************************************************************************)
(* The customer and time.                                                  *)
(***************************************************************************)

\* POST /quote: an order with an address that no other order ever had.
Quote(o) ==
    /\ up /\ order[o].status = "none"
    /\ order' = [order EXCEPT ![o].status = "AWAITING_PAYMENT"]
    /\ UNCHANGED <<job, w, s, up, chain, lost, upsets>>

\* The customer may pay less, more, again, or after the quote expired.
Pay(o) ==
    /\ order[o].status # "none"
    /\ \E amount \in Amounts :
          /\ account[o].paid + amount <= MaxPaid
          /\ account' = [account EXCEPT ![o].paid = @ + amount, ![o].usdc = @ + amount]
    /\ UNCHANGED <<order, job, w, s, up, tx, lost, upsets>>

QuoteLapses(o) ==
    /\ order[o].status = "AWAITING_PAYMENT" /\ ~order[o].late
    /\ order' = [order EXCEPT ![o].late = TRUE]
    /\ UNCHANGED <<job, w, s, up, chain, lost, upsets>>

-----------------------------------------------------------------------------
(***************************************************************************)
(* startBuyWatcher.  A SIGTERM lets the tick and the attempt in hand come  *)
(* to their end, so it does no more than a kill between two of them.       *)
(***************************************************************************)
WatcherOnly == UNCHANGED <<job, s, up, chain, lost>>

Stale(o) == order[o].status = "AWAITING_PAYMENT" /\ order[o].late

\* One updateMany.
ExpireStaleOrders ==
    /\ up /\ w.pc = "idle"
    /\ order' = [o \in Order |-> IF Stale(o) THEN [order[o] EXCEPT !.status = "EXPIRED"]
                                             ELSE order[o]]
    /\ w' = [w EXCEPT !.pc = "list"]
    /\ WatcherOnly /\ UNCHANGED upsets

Awaiting == {o \in Order : order[o].status = "AWAITING_PAYMENT" /\ ~order[o].late}

\* Orders that still wait, as many as a tick takes: the query does not sort.
ListAwaiting ==
    /\ w.pc = "list"
    /\ \E todo \in SUBSET Awaiting :
          /\ todo = Awaiting \/ Cardinality(todo) = MaxPerTick
          /\ Cardinality(todo) <= MaxPerTick
          /\ w' = [pc |-> "scan", todo |-> todo]
    /\ WatcherOnly /\ UNCHANGED <<order, upsets>>

IsNext(o) == o \in w.todo /\ \A p \in w.todo : o <= p
Scan == w' = [w EXCEPT !.pc = "scan"]
NextOrder(o) == w' = [pc |-> "scan", todo |-> w.todo \ {o}]

InspectBalance(o) ==
    /\ w.pc = "scan" /\ IsNext(o)
    /\ IF account[o].usdc >= Price THEN w' = [w EXCEPT !.pc = "claim"] ELSE NextOrder(o)
    /\ WatcherOnly /\ UNCHANGED <<order, upsets>>

\* balanceOf rejects: the order is left for the next tick.
BalanceUnknown(o) ==
    /\ w.pc = "scan" /\ IsNext(o)
    /\ Fault
    /\ NextOrder(o)
    /\ WatcherOnly /\ UNCHANGED order

ClaimDetection(o) ==
    /\ w.pc = "claim" /\ IsNext(o)
    /\ IF order[o].status = "AWAITING_PAYMENT"
       THEN /\ order' = [order EXCEPT ![o].status = "PAYMENT_DETECTED"]
            /\ w' = [w EXCEPT !.pc = "add"]
       ELSE NextOrder(o) /\ UNCHANGED order
    /\ WatcherOnly /\ UNCHANGED upsets

EnqueueBuy(o) ==
    /\ w.pc = "add" /\ IsNext(o)
    /\ job' = [job EXCEPT ![o] = Added(@)]
    /\ NextOrder(o)
    /\ UNCHANGED <<order, s, up, chain, lost, upsets>>

EndTick ==
    /\ w.pc = "scan" /\ w.todo = {}
    /\ w' = WIdle
    /\ WatcherOnly /\ UNCHANGED <<order, upsets>>

\* Any other call rejects: the tick is over.
TickError ==
    /\ w.pc \in {"idle", "list", "claim", "add"} /\ up
    /\ Fault
    /\ w' = WIdle
    /\ WatcherOnly /\ UNCHANGED order

-----------------------------------------------------------------------------
(***************************************************************************)
(* processBuy.  Concurrency is 1 and nobody else writes an order's hashes, *)
(* so a read and the claim that follows it are one step.                   *)
(***************************************************************************)
At(o, pc) == s.o = o /\ s.pc = pc
Goto(pc) == s' = [s EXCEPT !.pc = pc]
SignerOnly == UNCHANGED <<w, up, account, upsets>>

TakeJob(o) ==
    /\ up /\ s.pc = "idle" /\ job[o].state = "wait"
    /\ job' = [job EXCEPT ![o] = Started(@)]
    /\ s' = [SIdle EXCEPT !.pc = "load", !.o = o]
    /\ SignerOnly /\ UNCHANGED <<order, tx, lost>>

\* The transaction on file is waited for, never sent again.
Reconcile(kind, place) == [s EXCEPT !.pc = "await", !.kind = kind, !.sent = place]

\* Mutant: an order that is SWAPPING is left to the worker that claimed it.
SwapClaimable_Mutant == {"PAYMENT_DETECTED"}

\* claimSwapping takes up what an earlier attempt left without a hash.
SwapClaimable == {"PAYMENT_DETECTED", "SWAPPING"}

\* loadContext and claimSwapping, or the way to reconcileSwap.
LoadOrder(o) ==
    LET doc == order[o]
        claimed == doc.swap = 0 /\ doc.status \in SwapClaimable
    IN  /\ At(o, "load")
        /\ order' = IF claimed THEN [order EXCEPT ![o].status = "SWAPPING"] ELSE order
        /\ s' = IF doc.status \in {"DELIVERED", "DELIVERING"} THEN [s EXCEPT !.pc = "done"]
                ELSE IF doc.status \in {"FAILED", "EXPIRED"} THEN [s EXCEPT !.pc = "giveup"]
                ELSE IF claimed THEN [s EXCEPT !.pc = "balance"]
                ELSE IF doc.swap # 0 THEN Reconcile("swap", doc.swap)
                ELSE [s EXCEPT !.pc = "done"]
        /\ SignerOnly /\ UNCHANGED <<job, tx, lost>>

\* executeSwap: what it swaps is all that the address holds by now.
ReadBalance(o) ==
    /\ At(o, "balance")
    /\ s' = [s EXCEPT !.pc = IF account[o].usdc = 0 THEN "giveup" ELSE "gas",
                      !.kind = "swap", !.amount = account[o].usdc]
    /\ SignerOnly /\ UNCHANGED <<order, job, tx, lost>>

\* ensurePaymentGasBudget: the address may have been funded out of band.
EnsureGas(o) ==
    /\ At(o, "gas")
    /\ Goto("approve") \/ (~Funder /\ Goto("giveup"))
    /\ SignerOnly /\ UNCHANGED <<order, job, tx, lost>>

EnsureAllowance(o) ==
    /\ At(o, "approve")
    /\ account' = [account EXCEPT ![o].allowance = IF @ >= s.amount THEN @ ELSE s.amount]
    /\ Goto("send")
    /\ UNCHANGED <<order, job, w, up, tx, lost, upsets>>

\* The gas estimate of writeContract rejects what would revert.
Affordable(o, kind, amount) ==
    IF kind = "swap" THEN account[o].usdc >= amount /\ account[o].allowance >= amount
                     ELSE account[o].wfair >= amount /\ amount > 0

Broadcast(o) ==
    /\ At(o, "send") /\ Affordable(o, s.kind, s.amount)
    /\ tx' = [tx EXCEPT ![o] =
                 Append(@, [kind |-> s.kind, amount |-> s.amount, status |-> "pending"])]

SendTx(o) ==
    /\ Broadcast(o)
    /\ s' = [s EXCEPT !.pc = "record", !.sent = Len(tx[o]) + 1]
    /\ SignerOnly /\ UNCHANGED <<order, job, lost>>

FileHash(o) ==
    order' = [order EXCEPT ![o].swap = IF s.kind = "swap" THEN s.sent ELSE @,
                           ![o].burn = IF s.kind = "burn" THEN s.sent ELSE @]

RecordHash(o) ==
    /\ At(o, "record")
    /\ FileHash(o)
    /\ Goto("await")
    /\ SignerOnly /\ UNCHANGED <<job, tx, lost>>

\* Mutant: the receipt's status is not looked at.
Succeeded_Mutant(o) == tx[o][s.sent].status # "pending"

Succeeded(o) == tx[o][s.sent].status \in Landed

\* The swap's receipt; what is burned is all the WFAIR of the address.
AwaitSwap(o) ==
    /\ At(o, "await") /\ s.kind = "swap" /\ Succeeded(o)
    /\ s' = [s EXCEPT !.pc = "claimburn", !.kind = "burn", !.sent = 0,
                      !.amount = account[o].wfair]
    /\ SignerOnly /\ UNCHANGED <<order, job, tx, lost>>

\* Mutant: claimBurning does not ask for a null burnTxHash.
EnterBurn_Mutant(o) ==
    LET doc == order[o]
        claimed == doc.status \in {"SWAPPING", "BURNING"}
    IN  /\ At(o, "claimburn")
        /\ order' = IF claimed THEN [order EXCEPT ![o].status = "BURNING"] ELSE order
        /\ s' = CASE claimed -> [s EXCEPT !.pc = "send"]
                  [] OTHER -> [s EXCEPT !.pc = "done"]
        /\ SignerOnly /\ UNCHANGED <<job, tx, lost>>

\* The order is read again; claimBurning, or the way to reconcileBurn.
EnterBurn(o) ==
    LET doc == order[o]
        claimed == doc.burn = 0 /\ doc.status \in {"SWAPPING", "BURNING"}
    IN  /\ At(o, "claimburn")
        /\ order' = IF claimed THEN [order EXCEPT ![o].status = "BURNING"] ELSE order
        /\ s' = CASE claimed -> [s EXCEPT !.pc = "send"]
                  [] doc.burn # 0 -> Reconcile("burn", doc.burn)
                  [] OTHER -> [s EXCEPT !.pc = "done"]
        /\ SignerOnly /\ UNCHANGED <<job, tx, lost>>

\* The burn's receipt.  DELIVERING is written over any status.
AwaitBurn(o) ==
    /\ At(o, "await") /\ s.kind = "burn" /\ Succeeded(o)
    /\ order' = [order EXCEPT ![o].status = "DELIVERING"]
    /\ Goto("done")
    /\ SignerOnly /\ UNCHANGED <<job, tx, lost>>

EndJob(o) ==
    /\ \/ At(o, "done") /\ job' = [job EXCEPT ![o] = Completed(@)]
       \/ At(o, "giveup") /\ job' = [job EXCEPT ![o] = GivenUp(@)]
    /\ s' = SIdle
    /\ SignerOnly /\ UNCHANGED <<order, tx, lost>>

Throw(o) ==
    /\ job' = [job EXCEPT ![o] = Thrown(@)]
    /\ s' = SIdle

AwaitReverted(o) ==
    /\ At(o, "await") /\ tx[o][s.sent].status = "reverted" /\ ~Succeeded(o)
    /\ order' = [order EXCEPT ![o].status = "FAILED"]
    /\ Throw(o)
    /\ SignerOnly /\ UNCHANGED <<tx, lost>>

SendRejected(o) ==
    /\ At(o, "send") /\ ~Affordable(o, s.kind, s.amount)
    /\ Throw(o)
    /\ SignerOnly /\ UNCHANGED <<order, tx, lost>>

Forget(o) == lost' = [lost EXCEPT ![o][s.kind] = @ + 1]

\* The transaction is out and writeContract rejects.
SendUnanswered(o) ==
    /\ Broadcast(o)
    /\ Fault
    /\ Throw(o)
    /\ Forget(o)
    /\ UNCHANGED <<order, w, up, account>>

\* The updateOne rejects, done or not.
RecordFails(o) ==
    /\ At(o, "record")
    /\ Fault
    /\ Throw(o)
    /\ (FileHash(o) /\ UNCHANGED lost) \/ (Forget(o) /\ UNCHANGED order)
    /\ UNCHANGED <<w, up, chain>>

\* Mutant: an order whose receipt does not come in time is FAILED.
StepFails_Mutant(o) ==
    /\ s.o = o /\ s.pc \notin {"record", "done", "giveup"}
    /\ Fault
    /\ Throw(o)
    /\ order' = IF s.pc = "await" THEN [order EXCEPT ![o].status = "FAILED"] ELSE order
    /\ UNCHANGED <<w, up, chain, lost>>

\* Any other call rejects, or a receipt does not come in time.
StepFails(o) ==
    /\ s.o = o /\ s.pc \notin {"record", "done", "giveup"}
    /\ Fault
    /\ Throw(o)
    /\ UNCHANGED <<order, w, up, chain, lost>>

\* The stalled-job check finds an active job nobody is processing.
JobStalls(o) ==
    /\ up /\ job[o].state = "active" /\ s.o # o
    /\ job' = [job EXCEPT ![o] = Unstalled(@)]
    /\ UNCHANGED <<order, w, s, up, chain, lost, upsets>>

-----------------------------------------------------------------------------
(***************************************************************************)
(* Base, the release pipeline and the process.                             *)
(***************************************************************************)
SetTxStatus(o, i, status) == tx' = [tx EXCEPT ![o][i].status = status]
OutsideOnly == UNCHANGED <<job, w, s, up, lost>>

\* Nonces: the transactions of one address are mined in order.
NextToMine(o, i) ==
    /\ i \in DOMAIN tx[o] /\ tx[o][i].status = "pending"
    /\ \A j \in 1..(i - 1) : tx[o][j].status # "pending"

Mine(o, i) ==
    LET kind == tx[o][i].kind
        amount == tx[o][i].amount
    IN  /\ NextToMine(o, i)
        /\ IF ~Affordable(o, kind, amount)
           THEN SetTxStatus(o, i, "reverted") /\ UNCHANGED account
           ELSE /\ SetTxStatus(o, i, "ok")
                /\ account' =
                      IF kind = "swap"
                      THEN [account EXCEPT ![o].usdc = @ - amount,
                                           ![o].allowance = @ - amount,
                                           ![o].wfair = @ + Rate * amount]
                      ELSE [account EXCEPT ![o].wfair = @ - amount]
        /\ OutsideOnly /\ UNCHANGED <<order, upsets>>

\* The pool moved beyond the slippage, or WFAIR is paused.
MineReverted(o, i) ==
    /\ NextToMine(o, i)
    /\ Fault
    /\ SetTxStatus(o, i, "reverted")
    /\ OutsideOnly /\ UNCHANGED <<order, account>>

IsBurn(o, i, status) == i \in DOMAIN tx[o] /\ tx[o][i].kind = "burn" /\ tx[o][i].status = status

\* recordBurn refuses the burn (the sender's daily cap, the address), signRelease
\* does, or its job exhausts the attempts.  Nobody tells the order.
ReleaseRefused(o, i) ==
    /\ up /\ IsBurn(o, i, "ok")
    /\ SetTxStatus(o, i, "refused")
    /\ OutsideOnly /\ UNCHANGED <<order, account, upsets>>

\* base-watcher and signRelease have paid the FAIR of this burn.
ReleasePaid(o, i) ==
    /\ up /\ IsBurn(o, i, "ok")
    /\ SetTxStatus(o, i, "paid")
    /\ OutsideOnly /\ UNCHANGED <<order, account, upsets>>

\* Mutant: the release looks only for orders that are DELIVERING.
Linkable_Mutant == {"DELIVERING"}

Linkable == {"BURNING", "DELIVERING"}

\* linkReleaseToBuyOrder finds the order by the hash on file, or finds none.
LinkRelease(o, i) ==
    /\ up /\ IsBurn(o, i, "paid")
    /\ SetTxStatus(o, i, "linked")
    /\ order' = IF order[o].burn = i /\ order[o].status \in Linkable
                THEN [order EXCEPT ![o].status = "DELIVERED", ![o].release = i]
                ELSE order
    /\ OutsideOnly /\ UNCHANGED <<account, upsets>>

\* Its failure is logged and swallowed; a kill before it has the same effect,
\* because the next attempt sees BROADCAST and ends.
LinkFails(o, i) ==
    /\ IsBurn(o, i, "paid")
    /\ Fault
    /\ SetTxStatus(o, i, "unlinked")
    /\ OutsideOnly /\ UNCHANGED <<order, account>>

Crash ==
    /\ up /\ Fault
    /\ up' = FALSE
    /\ w' = WOff
    /\ s' = SOff
    /\ IF s.pc = "record" THEN Forget(s.o) ELSE UNCHANGED lost
    /\ UNCHANGED <<order, job, chain>>

Start ==
    /\ ~up
    /\ up' = TRUE
    /\ w' = WIdle
    /\ s' = SIdle
    /\ UNCHANGED <<order, job, chain, lost, upsets>>

WatcherStep ==
    \/ ExpireStaleOrders
    \/ ListAwaiting
    \/ \E o \in Order : InspectBalance(o) \/ ClaimDetection(o) \/ EnqueueBuy(o)
    \/ EndTick

\* One attempt at a job, from load to its end.
SignerProgress(o) ==
    \/ TakeJob(o)
    \/ LoadOrder(o)
    \/ ReadBalance(o)
    \/ EnsureGas(o)
    \/ EnsureAllowance(o)
    \/ SendTx(o)
    \/ SendRejected(o)
    \/ RecordHash(o)
    \/ AwaitSwap(o)
    \/ EnterBurn(o)
    \/ AwaitBurn(o)
    \/ AwaitReverted(o)
    \/ EndJob(o)

SignerFails(o) == SendUnanswered(o) \/ RecordFails(o) \/ StepFails(o)

OutsideStep(o) ==
    \E i \in DOMAIN tx[o] :
        Mine(o, i) \/ ReleaseRefused(o, i) \/ ReleasePaid(o, i) \/ LinkRelease(o, i)

Customer(o) == Quote(o) \/ Pay(o) \/ QuoteLapses(o)

OutsideFails(o) == \E i \in DOMAIN tx[o] : MineReverted(o, i) \/ LinkFails(o, i)

Next ==
    \/ WatcherStep
    \/ TickError
    \/ \E o \in Order : BalanceUnknown(o)
    \/ \E o \in Order : SignerProgress(o)
    \/ \E o \in Order : SignerFails(o)
    \/ \E o \in Order : JobStalls(o)
    \/ \E o \in Order : OutsideStep(o)
    \/ \E o \in Order : OutsideFails(o)
    \/ \E o \in Order : Customer(o)
    \/ Crash
    \/ Start

Spec == Init /\ [][Next]_vars

\* The loop ticks on after any error, BullMQ runs and re-runs the jobs,
\* transactions are mined, a release is paid or refused (it need not be paid),
\* systemd restarts the service.  No customer has to do anything and no quote
\* has to lapse.
FairSpec ==
    /\ Spec
    /\ WF_vars(WatcherStep)
    /\ \A o \in Order : /\ WF_vars(SignerProgress(o))
                        /\ WF_vars(JobStalls(o))
                        /\ WF_vars(OutsideStep(o))
    /\ WF_vars(Start)

-----------------------------------------------------------------------------
(***************************************************************************)
(* Properties.                                                             *)
(***************************************************************************)
CountTx(o, kind) == Cardinality({i \in DOMAIN tx[o] : tx[o][i].kind = kind})
InHand(o, kind) == IF At(o, "record") /\ s.kind = kind THEN 1 ELSE 0
OnFile(o, kind) ==
    IF (IF kind = "swap" THEN order[o].swap ELSE order[o].burn) = 0 THEN 0 ELSE 1

\* Every swap and every burn sent for an order is the one on file, or one the
\* worker is about to file, or one whose hash a failure lost: the idempotency
\* invariant of signer/buy.ts' header, through retries and stalled jobs.
TxsAccountedFor ==
    \A o \in Order, kind \in {"swap", "burn"} :
        CountTx(o, kind) = lost[o][kind] + InHand(o, kind) + OnFile(o, kind)

NothingLost(o) == lost[o]["swap"] + lost[o]["burn"] = 0

\* DELIVERING and DELIVERED say that the swap and the burn on file succeeded;
\* a release on file is that of this burn, which was paid and never refused,
\* and, if no hash was lost, the burn took all the WFAIR that was bought
\* (executeBurn, linkReleaseToBuyOrder).
DeliveringMeansBurned ==
    \A o \in Order : order[o].status \in {"DELIVERING", "DELIVERED"} =>
        LET swap == order[o].swap
            burn == order[o].burn
        IN  /\ swap # 0 /\ tx[o][swap].status \in Landed
            /\ burn # 0 /\ tx[o][burn].status \in Landed
            /\ order[o].release \in {0, burn}
            /\ order[o].release # 0 => tx[o][burn].status = "linked"
            /\ order[o].status = "DELIVERED" => order[o].release = burn
            /\ NothingLost(o) => /\ account[o].wfair = 0
                                 /\ tx[o][burn].amount = Rate * tx[o][swap].amount

\* A customer who is told that the order FAILED gets no FAIR for it: unless a
\* hash was lost no burn of a FAILED order succeeded or can still succeed, so
\* the funds are at the payment address.
FailedDeliversNothing ==
    \A o \in Order : order[o].status = "FAILED" /\ NothingLost(o) =>
        /\ \A i \in DOMAIN tx[o] : tx[o][i].kind = "burn" => tx[o][i].status = "reverted"
        /\ account[o].usdc + account[o].wfair > 0

Ended(o) == order[o].status \in {"DELIVERING", "DELIVERED", "FAILED"}

\* A queued order is delivered or fails, or its job ends in the failed set
\* where an operator sees it: no retry, kill or stalled job leaves it behind
\* (buyProcessor, startBuyWorker).
QueuedOrderEnds ==
    \A o \in Order : job[o].state \in {"wait", "active"} ~> Ended(o) \/ job[o].state = "failed"

Burned(o, statuses) == order[o].burn # 0 /\ tx[o][order[o].burn].status \in statuses

\* Once the burn on file is mined the order moves on even if its job has
\* exhausted its attempts: the worker writes DELIVERING or the link of the
\* release writes DELIVERED.  Two ends of the release leave an order whose
\* job is gone at BURNING: the release is refused (an address, an amount over
\* the daily cap, no attempts left), or its link, which is best-effort, fails.
BurnedOrderMovesOn ==
    \A o \in Order : Burned(o, {"ok", "paid"})
        ~> order[o].status \in {"DELIVERING", "DELIVERED"} \/ Burned(o, {"refused", "unlinked"})

\* Claimed by the header of buy-watcher.ts: an order that becomes
\* PAYMENT_DETECTED is enqueued.
DetectedIsQueued ==
    \A o \in Order : order[o].status = "PAYMENT_DETECTED" ~> job[o].state # "none"
=============================================================================
