--------------------------- MODULE BuyOrderProofs ----------------------------
(***************************************************************************)
(* Proofs about BuyOrder, for any number of orders, price, rate and faults. *)
(* IInv says what the worker's place implies about the order it works on,  *)
(* what is behind the hashes an order has on file and, as long as no hash  *)
(* was forgotten, where the customer's money is.                           *)
(***************************************************************************)
EXTENDS BuyOrder, BridgeLemmas

\* The place of the transaction of this kind that order o has on file.
Filed(o, kind) == IF kind = "swap" THEN order[o].swap ELSE order[o].burn

IsLanded(o, i) == i \in DOMAIN tx[o] /\ tx[o][i].status \in Landed

\* The places of processBuy from the first claim on.
Working == {"balance", "gas", "approve", "send", "record", "await", "claimburn"}

-----------------------------------------------------------------------------
(***************************************************************************)
(* The inductive invariant.                                                *)
(***************************************************************************)

\* What is behind the hashes on file.
DocInv(o) ==
    /\ order[o].swap # 0 => order[o].swap \in DOMAIN tx[o] /\ tx[o][order[o].swap].kind = "swap"
    /\ order[o].burn # 0 => /\ order[o].burn \in DOMAIN tx[o]
                            /\ tx[o][order[o].burn].kind = "burn"
                            /\ order[o].swap # 0 /\ IsLanded(o, order[o].swap)
    /\ order[o].release \in {0, order[o].burn}
    /\ order[o].release # 0 => tx[o][order[o].release].status = "linked"
    /\ order[o].status = "DELIVERED" => order[o].release = order[o].burn
    /\ order[o].status \in {"DELIVERING", "DELIVERED"} =>
          order[o].burn # 0 /\ IsLanded(o, order[o].burn)

\* What the worker knows of the order it is at.
WorkerInv(o) ==
    s.o = o =>
    /\ s.pc \in {"balance", "gas", "approve"} => order[o].swap = 0
    /\ s.pc \in {"gas", "approve"} => s.kind = "swap"
    /\ s.pc = "claimburn" => s.kind = "burn"
    /\ s.pc \in {"send", "record"} => Filed(o, s.kind) = 0
    /\ s.pc \in {"gas", "approve", "send"} /\ s.kind = "swap" => s.amount > 0
    /\ s.pc \in {"claimburn", "send", "record"} /\ s.kind = "burn" =>
          order[o].swap # 0 /\ IsLanded(o, order[o].swap)
    /\ s.pc = "record" => s.sent \in DOMAIN tx[o] /\ tx[o][s.sent].kind = s.kind
    /\ s.pc = "await" => s.sent = Filed(o, s.kind) /\ s.sent # 0
    /\ s.pc \in Working => order[o].status # "FAILED"

\* The transaction at i is the one on file or the one about to be filed.
Known(o, i) ==
    \/ i = Filed(o, tx[o][i].kind)
    \/ At(o, "record") /\ s.kind = tx[o][i].kind /\ s.sent = i

Swaps(o) == {i \in DOMAIN tx[o] : tx[o][i].kind = "swap"}
Burns(o) == {i \in DOMAIN tx[o] : tx[o][i].kind = "burn"}

\* While no hash is forgotten every transaction is known, ...
KnownInv(o) == NothingLost(o) => \A i \in DOMAIN tx[o] : Known(o, i)

\* ... a burn was sent for what a swap bought, the money is at the address until
\* it is swapped, and what was bought is there until it is burned, ...
MoneyInv(o) ==
    NothingLost(o) =>
    /\ \A i \in Swaps(o) :
          /\ tx[o][i].amount > 0
          /\ ~IsLanded(o, i) => account[o].usdc >= tx[o][i].amount
          /\ IsLanded(o, i) /\ (\A j \in Burns(o) : ~IsLanded(o, j)) =>
                account[o].wfair = Rate * tx[o][i].amount
          /\ \A j \in Burns(o) : IsLanded(o, i) /\ tx[o][j].amount = Rate * tx[o][i].amount
    /\ (\A i \in Swaps(o) : ~IsLanded(o, i)) => account[o].wfair = 0
    /\ \A j \in Burns(o) : IsLanded(o, j) => account[o].wfair = 0

\* ... what the worker is about to burn is all of that, ...
BurnsAllInv(o) ==
    /\ NothingLost(o) /\ order[o].burn = 0
    /\ s.o = o /\ s.kind = "burn" /\ s.pc \in {"claimburn", "send"}
    => s.amount = account[o].wfair

\* ... and nothing is under way for an order that FAILED.
FailedInv(o) ==
    NothingLost(o) /\ order[o].status = "FAILED" =>
    /\ \A i \in DOMAIN tx[o] : tx[o][i].status # "pending"
    /\ \A j \in Burns(o) : tx[o][j].status = "reverted"
    /\ account[o].usdc + account[o].wfair > 0

CountInv(o) ==
    \A kind \in {"swap", "burn"} :
        CountTx(o, kind) = lost[o][kind] + InHand(o, kind) + OnFile(o, kind)

\* The worker is at an order, unless it is idle or off.
PlaceInv == s.pc \notin {"off", "idle"} => s.o \in Order

OrderInv(o) ==
    /\ DocInv(o)
    /\ WorkerInv(o)
    /\ KnownInv(o)
    /\ MoneyInv(o)
    /\ BurnsAllInv(o)
    /\ FailedInv(o)
    /\ CountInv(o)

DownInv == ~up => s = SOff

IInv == TypeOK /\ PlaceInv /\ DownInv /\ \A o \in Order : OrderInv(o)

-----------------------------------------------------------------------------
(***************************************************************************)
(* Type correctness.                                                       *)
(***************************************************************************)
Kinds == {"swap", "burn"}

\* The fields of the records, by name.
LEMMA OrderFields ==
    ASSUME TypeOK, NEW o \in Order
    PROVE  /\ order[o].status \in OrderStatus /\ order[o].late \in BOOLEAN
           /\ order[o].swap \in Nat /\ order[o].burn \in Nat /\ order[o].release \in Nat
           /\ account[o].paid \in 0..MaxPaid /\ account[o].usdc \in Nat
           /\ account[o].wfair \in Nat /\ account[o].allowance \in Nat
           /\ lost[o]["swap"] \in Nat /\ lost[o]["burn"] \in Nat
           /\ job[o] \in Job
BY DEF TypeOK, OrderDoc, Account

LEMMA TxFields ==
    ASSUME TypeOK, NEW o \in Order
    PROVE  /\ tx[o] \in Seq(Transaction)
           /\ DOMAIN tx[o] = 1..Len(tx[o]) /\ Len(tx[o]) \in Nat
           /\ \A i \in DOMAIN tx[o] :
                 /\ i \in Nat \ {0}
                 /\ tx[o][i] \in Transaction
                 /\ tx[o][i].kind \in Kinds /\ tx[o][i].amount \in Nat
                 /\ tx[o][i].status \in {"pending", "reverted"} \cup Landed
<1>1. tx[o] \in Seq(Transaction)
  BY DEF TypeOK
<1>2. DOMAIN tx[o] = 1..Len(tx[o]) /\ Len(tx[o]) \in Nat
  BY <1>1
<1>3. \A i \in DOMAIN tx[o] : tx[o][i] \in Transaction /\ i \in Nat \ {0}
  BY <1>1, <1>2
<1>4. QED
  BY <1>1, <1>2, <1>3 DEF Transaction, Landed, Kinds

LEMMA WorkerFields ==
    ASSUME TypeOK
    PROVE  /\ s.pc \in SignerPc /\ s.o \in 0..NumOrders /\ s.kind \in Kinds
           /\ s.sent \in Nat /\ s.amount \in Nat
           /\ w.pc \in WatcherPc /\ w.todo \subseteq Order
           /\ NumOrders \in Nat /\ Order = 1..NumOrders
BY BuyAssumption DEF TypeOK, Signer, Watcher, Kinds, Order

\* The watcher and an order's status after a step.
LEMMA WatcherMoves ==
    ASSUME TypeOK
    PROVE  /\ \A pc \in WatcherPc : [w EXCEPT !.pc = pc] \in Watcher
           /\ \A o : [pc |-> "scan", todo |-> w.todo \ {o}] \in Watcher
           /\ WIdle \in Watcher /\ WOff \in Watcher
BY DEF TypeOK, Watcher, WatcherPc, WIdle, WOff

LEMMA StatusType ==
    ASSUME TypeOK, NEW o \in Order, NEW status \in OrderStatus
    PROVE  [order EXCEPT ![o].status = status] \in [Order -> OrderDoc]
BY DEF TypeOK, OrderDoc

\* Replacing one order's entry.
LEMMA OneJob ==
    ASSUME TypeOK, NEW o \in Order,
           \/ job' = [job EXCEPT ![o] = Added(job[o])]
           \/ job' = [job EXCEPT ![o] = Started(job[o])]
           \/ job' = [job EXCEPT ![o] = Completed(job[o])]
           \/ job' = [job EXCEPT ![o] = GivenUp(job[o])]
           \/ job' = [job EXCEPT ![o] = Thrown(job[o])]
           \/ job' = [job EXCEPT ![o] = Unstalled(job[o])]
    PROVE  job' \in [Order -> Job]
<1>1. job \in [Order -> Job] /\ job[o] \in Job
  BY DEF TypeOK
<1> DEFINE J == {Added(job[o]), Started(job[o]), Completed(job[o]), GivenUp(job[o]),
                 Thrown(job[o]), Unstalled(job[o])}
<1>2. J \subseteq Job
  BY <1>1, JobType
<1>3. PICK j \in J : job' = [job EXCEPT ![o] = j]
  OBVIOUS
<1>4. QED
  BY <1>1, <1>2, <1>3

LEMMA InitType == Init => TypeOK
<1>1. NoJob \in Job
  BY DEF NoJob, Job, JobState
<1>2. MaxUpsets \in Nat /\ MaxPaid \in Nat /\ NumOrders \in Nat
  BY BuyAssumption
<1>3. NoOrder \in OrderDoc
  BY DEF NoOrder, OrderDoc, OrderStatus
<1>4. [paid |-> 0, usdc |-> 0, wfair |-> 0, allowance |-> 0] \in Account
  BY <1>2 DEF Account
<1>5. SIdle \in Signer /\ WIdle \in Watcher
  BY <1>2 DEF SIdle, WIdle, Signer, Watcher, SignerPc, WatcherPc
<1>6. <<>> \in Seq(Transaction)
  OBVIOUS
<1>7. QED
  BY <1>1, <1>2, <1>3, <1>4, <1>5, <1>6 DEF Init, TypeOK

\* The steps of the customer, of the watcher and of the queue keep the types.
LEMMA CustomerType ==
    ASSUME TypeOK, NEW o \in Order, Customer(o)
    PROVE  TypeOK'
<1>1. CASE Quote(o)
  BY <1>1 DEF Quote, TypeOK, OrderDoc, OrderStatus, chain
<1>2. CASE Pay(o)
  <2>1. PICK amount \in Amounts :
           /\ account[o].paid + amount <= MaxPaid
           /\ account' = [account EXCEPT ![o].paid = @ + amount, ![o].usdc = @ + amount]
    BY <1>2 DEF Pay
  <2>2. amount \in Nat /\ MaxPaid \in Nat
    BY BuyAssumption
  <2> DEFINE a == [account[o] EXCEPT !.paid = @ + amount, !.usdc = @ + amount]
  <2>3. account' \in [Order -> Account]
    <3>1. a \in Account
      <4>1. account[o] \in Account
        BY DEF TypeOK
      <4>2. account[o].paid + amount \in 0..MaxPaid /\ account[o].usdc + amount \in Nat
        BY <2>1, <2>2, OrderFields
      <4>3. QED
        BY <4>1, <4>2 DEF Account
    <3>2. account' = [account EXCEPT ![o] = a]
      BY <2>1 DEF TypeOK, Account
    <3>3. QED
      BY <3>1, <3>2 DEF TypeOK
  <2>4. QED
    BY <1>2, <2>3 DEF Pay, TypeOK
<1>3. CASE QuoteLapses(o)
  BY <1>3 DEF QuoteLapses, TypeOK, OrderDoc, chain
<1>4. QED
  BY <1>1, <1>2, <1>3 DEF Customer

LEMMA WatcherType ==
    ASSUME TypeOK, WatcherStep
    PROVE  TypeOK'
<1> USE DEF WatcherOnly, chain
<1>1. CASE ExpireStaleOrders
  BY <1>1, ZenonT(60) DEF ExpireStaleOrders, TypeOK, OrderDoc, OrderStatus, Watcher, WatcherPc
<1>2. CASE ListAwaiting
  BY <1>2 DEF ListAwaiting, TypeOK, Watcher, WatcherPc, Awaiting
<1>3. ASSUME NEW o \in Order, InspectBalance(o)
      PROVE  TypeOK'
  <2>1. w' \in {[w EXCEPT !.pc = "claim"], [pc |-> "scan", todo |-> w.todo \ {o}]}
    BY <1>3 DEF InspectBalance, NextOrder
  <2>2. w' \in Watcher
    BY <2>1, WatcherMoves DEF WatcherPc
  <2>3. QED
    BY <1>3, <2>2 DEF InspectBalance, TypeOK
<1>4. ASSUME NEW o \in Order, ClaimDetection(o)
      PROVE  TypeOK'
  <2>1. w' \in Watcher
    <3>1. w' \in {[w EXCEPT !.pc = "add"], [pc |-> "scan", todo |-> w.todo \ {o}]}
      BY <1>4 DEF ClaimDetection, NextOrder
    <3>2. QED
      BY <3>1, WatcherMoves DEF WatcherPc
  <2>2. order' \in [Order -> OrderDoc]
    <3>1. order' \in {order, [order EXCEPT ![o].status = "PAYMENT_DETECTED"]}
      BY <1>4 DEF ClaimDetection
    <3>2. [order EXCEPT ![o].status = "PAYMENT_DETECTED"] \in [Order -> OrderDoc]
      BY StatusType DEF OrderStatus
    <3>3. QED
      BY <3>1, <3>2 DEF TypeOK
  <2>3. QED
    BY <1>4, <2>1, <2>2 DEF ClaimDetection, TypeOK
<1>5. ASSUME NEW o \in Order, EnqueueBuy(o)
      PROVE  TypeOK'
  <2>1. w' \in Watcher
    BY <1>5 DEF EnqueueBuy, TypeOK, Watcher, WatcherPc, NextOrder
  <2>2. job' \in [Order -> Job]
    BY <1>5, OneJob DEF EnqueueBuy
  <2>3. QED
    BY <1>5, <2>1, <2>2 DEF EnqueueBuy, TypeOK
<1>6. CASE EndTick
  BY <1>6 DEF EndTick, TypeOK, Watcher, WatcherPc, WIdle
<1>7. QED
  BY <1>1, <1>2, <1>3, <1>4, <1>5, <1>6 DEF WatcherStep

LEMMA FaultType ==
    ASSUME TypeOK, Fault
    PROVE  upsets' \in 0..MaxUpsets
BY BuyAssumption DEF TypeOK, Fault

LEMMA WatcherFailsType ==
    ASSUME TypeOK, TickError \/ \E o \in Order : BalanceUnknown(o)
    PROVE  TypeOK'
<1> USE DEF WatcherOnly, chain
<1>1. CASE TickError
  BY <1>1, FaultType DEF TickError, TypeOK, Watcher, WatcherPc, WIdle
<1>2. ASSUME NEW o \in Order, BalanceUnknown(o)
      PROVE  TypeOK'
  BY <1>2, FaultType DEF BalanceUnknown, TypeOK, Watcher, WatcherPc, NextOrder
<1>3. QED
  BY <1>1, <1>2

LEMMA StalledType ==
    ASSUME TypeOK, NEW o \in Order, JobStalls(o)
    PROVE  TypeOK'
<1>1. job' \in [Order -> Job]
  BY OneJob DEF JobStalls
<1>2. QED
  BY <1>1 DEF JobStalls, TypeOK, chain

\* The worker after a step.
LEMMA WorkerMoves ==
    ASSUME TypeOK
    PROVE  /\ SIdle \in Signer /\ SOff \in Signer
           /\ \A pc \in SignerPc : [s EXCEPT !.pc = pc] \in Signer
           /\ \A pc \in SignerPc, kind \in Kinds, n \in Nat :
                 /\ [s EXCEPT !.pc = pc, !.kind = kind, !.sent = n] \in Signer
                 /\ [s EXCEPT !.pc = pc, !.kind = kind, !.amount = n] \in Signer
                 /\ [s EXCEPT !.pc = pc, !.sent = n] \in Signer
                 /\ \A m \in Nat : [s EXCEPT !.pc = pc, !.kind = kind, !.sent = n,
                                             !.amount = m] \in Signer
           /\ \A pc \in SignerPc, o \in Order : [SIdle EXCEPT !.pc = pc, !.o = o] \in Signer
<1>1. SIdle \in Signer
  BY BuyAssumption DEF SIdle, Signer, SignerPc
<1>2. SOff \in Signer
  BY <1>1 DEF SOff, Signer, SignerPc
<1>3. s \in Signer
  BY DEF TypeOK
<1>4. \A pc \in SignerPc, o \in Order : [SIdle EXCEPT !.pc = pc, !.o = o] \in Signer
  <2>1. \A o \in Order : o \in 0..NumOrders
    BY WorkerFields
  <2>2. QED
    BY <1>1, <2>1 DEF Signer
<1>5. QED
  BY <1>1, <1>2, <1>3, <1>4 DEF Signer, Kinds

\* What a step of the worker changes it changes within its type.
LEMMA LoadType ==
    ASSUME TypeOK, NEW o \in Order, TakeJob(o) \/ LoadOrder(o) \/ EnterBurn(o)
    PROVE  TypeOK'
<1>1. CASE TakeJob(o)
  <2>1. job' \in [Order -> Job]
    BY <1>1, OneJob DEF TakeJob
  <2>2. s' \in Signer
    BY <1>1, WorkerMoves DEF TakeJob, SignerPc
  <2>3. QED
    BY <1>1, <2>1, <2>2 DEF TakeJob, TypeOK, SignerOnly
<1>2. CASE LoadOrder(o)
  <2>1. order' \in [Order -> OrderDoc]
    <3>1. [order EXCEPT ![o].status = "SWAPPING"] \in [Order -> OrderDoc]
      BY StatusType DEF OrderStatus
    <3>2. QED
      BY <1>2, <3>1 DEF LoadOrder, TypeOK
  <2>2. s' \in Signer
    <3>1. \/ \E pc \in SignerPc : s' = [s EXCEPT !.pc = pc]
          \/ s' = Reconcile("swap", order[o].swap)
      BY <1>2 DEF LoadOrder, SignerPc
    <3>2. Reconcile("swap", order[o].swap) \in Signer
      BY WorkerMoves, OrderFields DEF Reconcile, SignerPc, Kinds
    <3>3. QED
      BY <3>1, <3>2, WorkerMoves
  <2>3. QED
    BY <1>2, <2>1, <2>2 DEF LoadOrder, TypeOK, SignerOnly
<1>3. CASE EnterBurn(o)
  <2>1. order' \in [Order -> OrderDoc]
    <3>1. [order EXCEPT ![o].status = "BURNING"] \in [Order -> OrderDoc]
      BY StatusType DEF OrderStatus
    <3>2. QED
      BY <1>3, <3>1 DEF EnterBurn, TypeOK
  <2>2. s' \in Signer
    <3>1. \/ \E pc \in SignerPc : s' = [s EXCEPT !.pc = pc]
          \/ s' = Reconcile("burn", order[o].burn)
      BY <1>3 DEF EnterBurn, SignerPc
    <3>2. Reconcile("burn", order[o].burn) \in Signer
      BY WorkerMoves, OrderFields DEF Reconcile, SignerPc, Kinds
    <3>3. QED
      BY <3>1, <3>2, WorkerMoves
  <2>3. QED
    BY <1>3, <2>1, <2>2 DEF EnterBurn, TypeOK, SignerOnly
<1>4. QED
  BY <1>1, <1>2, <1>3

\* A transaction that is sent, and one whose status is set.
LEMMA SentType ==
    ASSUME TypeOK, NEW o \in Order, Broadcast(o)
    PROVE  /\ tx' \in [Order -> Seq(Transaction)]
           /\ DOMAIN tx'[o] = DOMAIN tx[o] \cup {Len(tx[o]) + 1}
           /\ Len(tx[o]) + 1 \notin DOMAIN tx[o] /\ Len(tx[o]) + 1 \in Nat \ {0}
           /\ \A i \in DOMAIN tx[o] : tx'[o][i] = tx[o][i]
           /\ tx'[o][Len(tx[o]) + 1]
                 = [kind |-> s.kind, amount |-> s.amount, status |-> "pending"]
           /\ \A d \in Order \ {o} : tx'[d] = tx[d]
<1> DEFINE t == [kind |-> s.kind, amount |-> s.amount, status |-> "pending"]
<1>1. t \in Transaction
  BY WorkerFields DEF Transaction, Kinds
<1>2. tx' = [tx EXCEPT ![o] = Append(tx[o], t)]
  BY DEF Broadcast
<1>3. tx \in [Order -> Seq(Transaction)] /\ tx[o] \in Seq(Transaction)
  BY DEF TypeOK
<1> HIDE DEF t
<1>4. Append(tx[o], t) \in Seq(Transaction)
  BY <1>1, <1>3
<1>5. tx' \in [Order -> Seq(Transaction)]
  BY <1>2, <1>3, <1>4
<1>6. tx'[o] = Append(tx[o], t) /\ \A d \in Order \ {o} : tx'[d] = tx[d]
  BY <1>2, <1>3
<1>7. /\ DOMAIN Append(tx[o], t) = DOMAIN tx[o] \cup {Len(tx[o]) + 1}
      /\ Len(tx[o]) + 1 \notin DOMAIN tx[o] /\ Len(tx[o]) + 1 \in Nat \ {0}
      /\ \A i \in DOMAIN tx[o] : Append(tx[o], t)[i] = tx[o][i]
      /\ Append(tx[o], t)[Len(tx[o]) + 1] = t
  BY <1>1, <1>3
<1>8. QED
  BY <1>5, <1>6, <1>7 DEF t

LEMMA StatusSet ==
    ASSUME TypeOK, NEW o \in Order, NEW i \in DOMAIN tx[o],
           NEW status \in {"pending", "reverted"} \cup Landed, SetTxStatus(o, i, status)
    PROVE  /\ tx' \in [Order -> Seq(Transaction)]
           /\ DOMAIN tx'[o] = DOMAIN tx[o]
           /\ tx'[o][i].status = status
           /\ \A j \in DOMAIN tx[o] : /\ tx'[o][j].kind = tx[o][j].kind
                                      /\ tx'[o][j].amount = tx[o][j].amount
                                      /\ j # i => tx'[o][j].status = tx[o][j].status
           /\ \A d \in Order \ {o} : tx'[d] = tx[d]
<1> DEFINE t == [tx[o][i] EXCEPT !.status = status]
<1>1. tx \in [Order -> Seq(Transaction)] /\ tx[o] \in Seq(Transaction)
  BY DEF TypeOK
<1>2. tx[o][i] \in Transaction
  BY TxFields
<1>3. t \in Transaction /\ t.kind = tx[o][i].kind /\ t.amount = tx[o][i].amount
      /\ t.status = status
  BY <1>2 DEF Transaction, Landed
<1>4. tx' = [tx EXCEPT ![o] = [tx[o] EXCEPT ![i] = t]]
  BY DEF SetTxStatus
<1> HIDE DEF t
<1>5. [tx[o] EXCEPT ![i] = t] \in Seq(Transaction)
  BY <1>1, <1>3
<1>6. tx' \in [Order -> Seq(Transaction)]
  BY <1>1, <1>4, <1>5
<1>7. tx'[o] = [tx[o] EXCEPT ![i] = t] /\ \A d \in Order \ {o} : tx'[d] = tx[d]
  BY <1>1, <1>4
<1>8. DOMAIN tx'[o] = DOMAIN tx[o] /\ tx'[o][i] = t
      /\ \A j \in DOMAIN tx[o] : j # i => tx'[o][j] = tx[o][j]
  BY <1>1, <1>7
<1>9. QED
  BY <1>3, <1>6, <1>7, <1>8

LEMMA SwapSideType ==
    ASSUME TypeOK, NEW o \in Order,
           ReadBalance(o) \/ EnsureGas(o) \/ EnsureAllowance(o) \/ AwaitSwap(o) \/ AwaitBurn(o)
    PROVE  TypeOK'
<1> USE DEF SignerOnly
<1>1. CASE ReadBalance(o)
  <2>1. s' \in Signer
    <3> DEFINE pc == IF account[o].usdc = 0 THEN "giveup" ELSE "gas"
    <3>1. pc \in SignerPc /\ "swap" \in Kinds /\ account[o].usdc \in Nat
      BY OrderFields DEF SignerPc, Kinds
    <3>2. s' = [s EXCEPT !.pc = pc, !.kind = "swap", !.amount = account[o].usdc]
      BY <1>1 DEF ReadBalance
    <3>3. QED
      BY <3>1, <3>2, WorkerMoves
  <2>2. QED
    BY <1>1, <2>1 DEF ReadBalance, TypeOK
<1>2. CASE EnsureGas(o)
  BY <1>2, WorkerMoves DEF EnsureGas, Goto, TypeOK, SignerPc
<1>3. CASE EnsureAllowance(o)
  <2>1. s' \in Signer
    BY <1>3, WorkerMoves DEF EnsureAllowance, Goto, SignerPc
  <2> DEFINE n == IF account[o].allowance >= s.amount THEN account[o].allowance ELSE s.amount
  <2>2. n \in Nat
    BY OrderFields, WorkerFields
  <2>3. account' = [account EXCEPT ![o].allowance = n]
    BY <1>3 DEF EnsureAllowance, TypeOK, Account
  <2> HIDE DEF n
  <2>4. account' \in [Order -> Account]
    BY <2>2, <2>3 DEF TypeOK, Account
  <2>5. QED
    BY <1>3, <2>1, <2>4 DEF EnsureAllowance, TypeOK
<1>4. CASE AwaitSwap(o)
  <2>1. s' \in Signer
    BY <1>4, WorkerMoves, OrderFields DEF AwaitSwap, SignerPc, Kinds
  <2>2. QED
    BY <1>4, <2>1 DEF AwaitSwap, TypeOK
<1>5. CASE AwaitBurn(o)
  <2>1. s' \in Signer
    BY <1>5, WorkerMoves DEF AwaitBurn, Goto, SignerPc
  <2>2. order' \in [Order -> OrderDoc]
    BY <1>5, StatusType DEF AwaitBurn, OrderStatus
  <2>3. QED
    BY <1>5, <2>1, <2>2 DEF AwaitBurn, TypeOK
<1>6. QED
  BY <1>1, <1>2, <1>3, <1>4, <1>5

\* Hashes that are written, or lost.
LEMMA FiledType ==
    ASSUME TypeOK, NEW o \in Order, FileHash(o)
    PROVE  /\ order' \in [Order -> OrderDoc]
           /\ \A d \in Order \ {o} : order'[d] = order[d]
           /\ order'[o].status = order[o].status /\ order'[o].release = order[o].release
           /\ order'[o].swap = IF s.kind = "swap" THEN s.sent ELSE order[o].swap
           /\ order'[o].burn = IF s.kind = "burn" THEN s.sent ELSE order[o].burn
<1> DEFINE swap == IF s.kind = "swap" THEN s.sent ELSE order[o].swap
           burn == IF s.kind = "burn" THEN s.sent ELSE order[o].burn
<1>1. order \in [Order -> OrderDoc] /\ order[o] \in OrderDoc
  BY DEF TypeOK
<1>2. swap \in Nat /\ burn \in Nat
  BY OrderFields, WorkerFields
<1> DEFINE doc == [order[o] EXCEPT !.swap = swap, !.burn = burn]
<1>3. order' = [order EXCEPT ![o] = doc]
  BY <1>1 DEF FileHash, OrderDoc
<1> HIDE DEF swap, burn
<1>4. doc \in OrderDoc /\ doc.swap = swap /\ doc.burn = burn /\ doc.status = order[o].status
      /\ doc.release = order[o].release
  BY <1>1, <1>2 DEF OrderDoc
<1> HIDE DEF doc
<1>5. QED
  BY <1>1, <1>3, <1>4 DEF swap, burn

LEMMA LostType ==
    ASSUME TypeOK, NEW o \in Order, Forget(o)
    PROVE  /\ lost' \in [Order -> [Kinds -> Nat]]
           /\ \A d \in Order \ {o} : lost'[d] = lost[d]
           /\ \A kind \in Kinds : lost'[o][kind] =
                 IF kind = s.kind THEN lost[o][kind] + 1 ELSE lost[o][kind]
<1>1. lost \in [Order -> [Kinds -> Nat]] /\ lost[o] \in [Kinds -> Nat]
  BY DEF TypeOK, Kinds
<1>2. s.kind \in Kinds
  BY WorkerFields
<1>3. lost[o][s.kind] + 1 \in Nat
  BY <1>1, <1>2
<1> DEFINE f == [lost[o] EXCEPT ![s.kind] = lost[o][s.kind] + 1]
<1>4. lost' = [lost EXCEPT ![o] = f]
  BY DEF Forget
<1>5. f \in [Kinds -> Nat] /\ \A kind \in Kinds : f[kind] =
                 IF kind = s.kind THEN lost[o][kind] + 1 ELSE lost[o][kind]
  BY <1>1, <1>2, <1>3
<1> HIDE DEF f
<1>6. QED
  BY <1>1, <1>4, <1>5

LEMMA ThrowType ==
    ASSUME TypeOK, NEW o \in Order, Throw(o)
    PROVE  job' \in [Order -> Job] /\ s' \in Signer
BY OneJob, WorkerMoves DEF Throw

LEMMA SendSideType ==
    ASSUME TypeOK, NEW o \in Order,
           SendTx(o) \/ SendRejected(o) \/ RecordHash(o) \/ AwaitReverted(o) \/ EndJob(o)
    PROVE  TypeOK'
<1> USE DEF SignerOnly
<1>1. CASE SendTx(o)
  <2>1. s' \in Signer
    <3>1. "record" \in SignerPc /\ Len(tx[o]) + 1 \in Nat
      BY TxFields DEF SignerPc
    <3>2. s' = [s EXCEPT !.pc = "record", !.sent = Len(tx[o]) + 1]
      BY <1>1 DEF SendTx
    <3>3. s.kind \in Kinds
      BY WorkerFields
    <3>4. QED
      BY <3>1, <3>2, <3>3, WorkerMoves
  <2>2. QED
    BY <1>1, <2>1, SentType DEF SendTx, TypeOK
<1>2. CASE SendRejected(o)
  BY <1>2, ThrowType DEF SendRejected, TypeOK
<1>3. CASE RecordHash(o)
  <2>1. s' \in Signer
    BY <1>3, WorkerMoves DEF RecordHash, Goto, SignerPc
  <2>2. QED
    BY <1>3, <2>1, FiledType DEF RecordHash, TypeOK
<1>4. CASE AwaitReverted(o)
  <2>1. order' \in [Order -> OrderDoc]
    BY <1>4, StatusType DEF AwaitReverted, OrderStatus
  <2>2. QED
    BY <1>4, <2>1, ThrowType DEF AwaitReverted, TypeOK
<1>5. CASE EndJob(o)
  <2>1. job' \in [Order -> Job]
    BY <1>5, OneJob DEF EndJob
  <2>2. s' \in Signer
    BY <1>5, WorkerMoves DEF EndJob
  <2>3. QED
    BY <1>5, <2>1, <2>2 DEF EndJob, TypeOK
<1>6. QED
  BY <1>1, <1>2, <1>3, <1>4, <1>5

LEMMA FailsType ==
    ASSUME TypeOK, NEW o \in Order, SignerFails(o)
    PROVE  TypeOK'
<1>1. CASE SendUnanswered(o)
  <2>1. tx' \in [Order -> Seq(Transaction)] /\ upsets' \in 0..MaxUpsets
    BY <1>1, SentType, FaultType DEF SendUnanswered
  <2>2. job' \in [Order -> Job] /\ s' \in Signer /\ lost' \in [Order -> [Kinds -> Nat]]
    BY <1>1, ThrowType, LostType DEF SendUnanswered
  <2>3. QED
    BY <1>1, <2>1, <2>2 DEF SendUnanswered, TypeOK, Kinds
<1>2. CASE RecordFails(o)
  <2>1. job' \in [Order -> Job] /\ s' \in Signer /\ upsets' \in 0..MaxUpsets
    BY <1>2, ThrowType, FaultType DEF RecordFails
  <2>2. order' \in [Order -> OrderDoc] /\ lost' \in [Order -> [Kinds -> Nat]]
    BY <1>2, FiledType, LostType DEF RecordFails, TypeOK, Kinds
  <2>3. QED
    BY <1>2, <2>1, <2>2 DEF RecordFails, TypeOK, chain, Kinds
<1>3. CASE StepFails(o)
  BY <1>3, ThrowType, FaultType DEF StepFails, TypeOK, chain
<1>4. QED
  BY <1>1, <1>2, <1>3 DEF SignerFails

\* What mining does to the balances of an address: amounts never go below zero.
LEMMA MinedType ==
    ASSUME TypeOK, NEW o \in Order, NEW i \in DOMAIN tx[o], Mine(o, i),
           Affordable(o, tx[o][i].kind, tx[o][i].amount)
    PROVE  /\ account' \in [Order -> Account]
           /\ \A d \in Order \ {o} : account'[d] = account[d]
           /\ tx[o][i].kind = "swap" =>
                 /\ account'[o].usdc = account[o].usdc - tx[o][i].amount
                 /\ account'[o].wfair = account[o].wfair + Rate * tx[o][i].amount
           /\ tx[o][i].kind = "burn" =>
                 /\ account'[o].usdc = account[o].usdc
                 /\ account'[o].wfair = account[o].wfair - tx[o][i].amount
<1>1. account \in [Order -> Account] /\ account[o] \in Account
  BY DEF TypeOK
<1>2. PICK n \in Nat : n = tx[o][i].amount
  BY TxFields
<1>3. Rate * n \in Nat
  BY BuyAssumption
<1>4. CASE tx[o][i].kind = "swap"
  <2> DEFINE a == [account[o] EXCEPT !.usdc = account[o].usdc - n,
                                     !.allowance = account[o].allowance - n,
                                     !.wfair = account[o].wfair + Rate * n]
  <2>1. account' = [account EXCEPT ![o].usdc = @ - n, ![o].allowance = @ - n,
                                   ![o].wfair = @ + Rate * n]
    BY <1>2, <1>4 DEF Mine
  <2>2. /\ account[o].usdc - n \in Nat /\ account[o].allowance - n \in Nat
        /\ account[o].wfair + Rate * n \in Nat
    BY <1>2, <1>3, <1>4, OrderFields DEF Affordable
  <2>3. /\ a \in Account /\ a.usdc = account[o].usdc - n
        /\ a.wfair = account[o].wfair + Rate * n
    BY <1>1, <2>2 DEF Account
  <2>4. account' = [account EXCEPT ![o] = a]
    BY <1>1, <2>1 DEF Account
  <2> HIDE DEF a
  <2>5. QED
    BY <1>1, <1>2, <1>4, <2>3, <2>4
<1>5. CASE tx[o][i].kind = "burn"
  <2> DEFINE a == [account[o] EXCEPT !.wfair = account[o].wfair - n]
  <2>1. account' = [account EXCEPT ![o].wfair = @ - n]
    BY <1>2, <1>5 DEF Mine
  <2>2. account[o].wfair - n \in Nat
    BY <1>2, <1>5, OrderFields DEF Affordable
  <2>3. a \in Account /\ a.usdc = account[o].usdc /\ a.wfair = account[o].wfair - n
    BY <1>1, <2>2 DEF Account
  <2>4. account' = [account EXCEPT ![o] = a]
    BY <1>1, <2>1 DEF Account
  <2> HIDE DEF a
  <2>5. QED
    BY <1>1, <1>2, <1>5, <2>3, <2>4
<1>6. QED
  BY <1>4, <1>5, TxFields DEF Kinds

\* Base and the release pipeline.
LEMMA MineType ==
    ASSUME TypeOK, NEW o \in Order, NEW i \in DOMAIN tx[o], Mine(o, i)
    PROVE  TypeOK'
<1> USE DEF OutsideOnly
<1>1. tx' \in [Order -> Seq(Transaction)]
  BY StatusSet DEF Mine, Landed
<1>2. account' \in [Order -> Account]
  <2>1. CASE ~Affordable(o, tx[o][i].kind, tx[o][i].amount)
    BY <2>1 DEF Mine, TypeOK
  <2>2. CASE Affordable(o, tx[o][i].kind, tx[o][i].amount)
    BY <2>2, MinedType
  <2>3. QED
    BY <2>1, <2>2
<1>3. QED
  BY <1>1, <1>2 DEF Mine, TypeOK

LEMMA OutsideType ==
    ASSUME TypeOK, NEW o \in Order, OutsideStep(o) \/ OutsideFails(o)
    PROVE  TypeOK'
<1> USE DEF OutsideOnly
<1>1. ASSUME NEW i \in DOMAIN tx[o], Mine(o, i)
      PROVE  TypeOK'
  BY <1>1, MineType
<1>2. ASSUME NEW i \in DOMAIN tx[o], ReleasePaid(o, i) \/ ReleaseRefused(o, i)
      PROVE  TypeOK'
  <2>1. tx' \in [Order -> Seq(Transaction)]
    BY <1>2, StatusSet DEF ReleasePaid, ReleaseRefused, Landed
  <2>2. QED
    BY <1>2, <2>1 DEF ReleasePaid, ReleaseRefused, TypeOK
<1>3. ASSUME NEW i \in DOMAIN tx[o], LinkRelease(o, i)
      PROVE  TypeOK'
  <2>1. tx' \in [Order -> Seq(Transaction)]
    BY <1>3, StatusSet DEF LinkRelease, Landed
  <2>2. [order EXCEPT ![o].status = "DELIVERED", ![o].release = i] \in [Order -> OrderDoc]
    <3>1. i \in Nat /\ order \in [Order -> OrderDoc] /\ order[o] \in OrderDoc
      BY TxFields DEF TypeOK
    <3> DEFINE doc == [order[o] EXCEPT !.status = "DELIVERED", !.release = i]
    <3>2. [order EXCEPT ![o].status = "DELIVERED", ![o].release = i]
             = [order EXCEPT ![o] = doc]
      BY <3>1 DEF OrderDoc
    <3>3. doc \in OrderDoc
      BY <3>1 DEF OrderDoc, OrderStatus
    <3> HIDE DEF doc
    <3>4. QED
      BY <3>1, <3>2, <3>3
  <2>3. order' \in [Order -> OrderDoc]
    BY <1>3, <2>2 DEF LinkRelease, TypeOK
  <2>4. QED
    BY <1>3, <2>1, <2>3 DEF LinkRelease, TypeOK
<1>4. ASSUME NEW i \in DOMAIN tx[o], MineReverted(o, i)
      PROVE  TypeOK'
  <2>1. tx' \in [Order -> Seq(Transaction)]
    BY <1>4, StatusSet DEF MineReverted, Landed
  <2>2. QED
    BY <1>4, <2>1, FaultType DEF MineReverted, TypeOK
<1>5. ASSUME NEW i \in DOMAIN tx[o], LinkFails(o, i)
      PROVE  TypeOK'
  <2>1. tx' \in [Order -> Seq(Transaction)]
    BY <1>5, StatusSet DEF LinkFails, Landed
  <2>2. QED
    BY <1>5, <2>1, FaultType DEF LinkFails, TypeOK
<1>6. QED
  BY <1>1, <1>2, <1>3, <1>4, <1>5 DEF OutsideStep, OutsideFails

LEMMA ProcessType ==
    ASSUME TypeOK, PlaceInv, Crash \/ Start
    PROVE  TypeOK'
<1>1. CASE Crash
  <2>1. lost' \in [Order -> [Kinds -> Nat]]
    BY <1>1, LostType DEF Crash, PlaceInv, TypeOK, Kinds
  <2>2. upsets' \in 0..MaxUpsets /\ s' \in Signer /\ w' \in Watcher
    BY <1>1, FaultType, WorkerMoves, WatcherMoves DEF Crash
  <2>3. QED
    BY <1>1, <2>1, <2>2 DEF Crash, TypeOK, chain, Kinds
<1>2. CASE Start
  BY <1>2, WorkerMoves, WatcherMoves DEF Start, TypeOK, chain
<1>3. QED
  BY <1>1, <1>2

LEMMA StepType ==
    ASSUME TypeOK, PlaceInv, [Next]_vars
    PROVE  TypeOK'
<1>1. CASE UNCHANGED vars
  BY <1>1 DEF TypeOK, vars, chain
<1>2. ASSUME NEW o \in Order, SignerProgress(o)
      PROVE  TypeOK'
  BY <1>2, LoadType, SwapSideType, SendSideType DEF SignerProgress
<1>3. QED
  BY <1>1, <1>2, CustomerType, WatcherType, WatcherFailsType, StalledType, FailsType,
     OutsideType, ProcessType
  DEF Next

-----------------------------------------------------------------------------
(***************************************************************************)
(* When a step keeps a part of the invariant of an order.                  *)
(***************************************************************************)

\* The transactions that order o has keep their places, and landed ones stay so.
KeepsTxs(o) ==
    \A i \in DOMAIN tx[o] : /\ i \in DOMAIN tx'[o]
                            /\ tx'[o][i].kind = tx[o][i].kind
                            /\ IsLanded(o, i) => IsLanded(o, i)'
                            /\ tx[o][i].status = "linked" => tx'[o][i].status = "linked"

KeepsHashes(o) ==
    /\ order'[o].swap = order[o].swap
    /\ order'[o].burn = order[o].burn
    /\ order'[o].release = order[o].release

LEMMA DocKept ==
    ASSUME NEW o \in Order, DocInv(o), KeepsTxs(o), KeepsHashes(o),
           \/ order'[o].status = order[o].status
           \/ order'[o].status \notin {"DELIVERING", "DELIVERED"}
    PROVE  DocInv(o)'
BY DEF DocInv, KeepsTxs, KeepsHashes, IsLanded

\* Another order than the one of a step: nothing of it changes.
LEMMA Untouched ==
    ASSUME NEW o \in Order, OrderInv(o),
           order'[o] = order[o], tx'[o] = tx[o], account'[o] = account[o], lost'[o] = lost[o],
           s' = s \/ (~At(o, "record") /\ s'.o # o)
    PROVE  OrderInv(o)'
<1>1. DocInv(o)'
  BY DEF OrderInv, DocInv, IsLanded
<1>2. WorkerInv(o)'
  BY DEF OrderInv, WorkerInv, IsLanded, Filed
<1>3. KnownInv(o)'
  BY DEF OrderInv, KnownInv, Known, Filed, NothingLost, At
<1>4. MoneyInv(o)'
  BY DEF OrderInv, MoneyInv, IsLanded, Swaps, Burns, NothingLost
<1>5. BurnsAllInv(o)'
  BY DEF OrderInv, BurnsAllInv, NothingLost
<1>6. FailedInv(o)'
  BY DEF OrderInv, FailedInv, NothingLost, Burns
<1>7. CountInv(o)'
  BY DEF OrderInv, CountInv, CountTx, InHand, OnFile, At
<1>8. QED
  BY <1>1, <1>2, <1>3, <1>4, <1>5, <1>6, <1>7 DEF OrderInv

\* The places of the transactions of a kind, and their number.
LEMMA CountFacts ==
    ASSUME TypeOK, NEW o \in Order, NEW kind \in Kinds
    PROVE  /\ IsFiniteSet({i \in DOMAIN tx[o] : tx[o][i].kind = kind})
           /\ CountTx(o, kind) \in Nat
<1>1. IsFiniteSet(DOMAIN tx[o])
  <2>1. IsFiniteSet(1..Len(tx[o])) /\ DOMAIN tx[o] = 1..Len(tx[o])
    BY TxFields, FS_Interval
  <2>2. QED
    BY <2>1
<1>2. IsFiniteSet({i \in DOMAIN tx[o] : tx[o][i].kind = kind})
  BY <1>1, FS_Subset
<1>3. QED
  BY <1>2, FS_CardinalityType DEF CountTx

LEMMA CountKept ==
    ASSUME NEW o \in Order, CountInv(o), KeepsHashes(o), lost'[o] = lost[o],
           DOMAIN tx'[o] = DOMAIN tx[o], KeepsTxs(o),
           \A kind \in Kinds : InHand(o, kind)' = InHand(o, kind)
    PROVE  CountInv(o)'
<1>1. ASSUME NEW kind \in Kinds
      PROVE  CountTx(o, kind)' = CountTx(o, kind) /\ OnFile(o, kind)' = OnFile(o, kind)
  <2>1. {i \in DOMAIN tx'[o] : tx'[o][i].kind = kind} = {i \in DOMAIN tx[o] : tx[o][i].kind = kind}
    BY DEF KeepsTxs
  <2>2. QED
    BY <2>1 DEF CountTx, OnFile, KeepsHashes
<1>2. QED
  BY <1>1 DEF CountInv, Kinds

\* The money while the worker and the documents move.
LEMMA MoneyKept ==
    ASSUME TypeOK, NEW o \in Order, MoneyInv(o), tx'[o] = tx[o], lost'[o] = lost[o],
           account'[o].wfair = account[o].wfair, account'[o].usdc \in Nat,
           account'[o].usdc >= account[o].usdc
    PROVE  MoneyInv(o)'
<1>1. account[o].usdc \in Nat /\ \A i \in DOMAIN tx[o] : tx[o][i].amount \in Nat
  BY OrderFields, TxFields
<1>2. Swaps(o)' = Swaps(o) /\ Burns(o)' = Burns(o) /\ \A i : IsLanded(o, i)' = IsLanded(o, i)
  BY DEF Swaps, Burns, IsLanded
<1>3. Swaps(o) \subseteq DOMAIN tx[o]
  BY DEF Swaps
<1>4. QED
  BY <1>1, <1>2, <1>3 DEF MoneyInv, NothingLost

LEMMA FailedKept ==
    ASSUME TypeOK, NEW o \in Order, FailedInv(o), tx'[o] = tx[o], lost'[o] = lost[o],
           account'[o].wfair = account[o].wfair, account'[o].usdc \in Nat,
           account'[o].usdc >= account[o].usdc,
           order'[o].status = "FAILED" => order[o].status = "FAILED"
    PROVE  FailedInv(o)'
<1>1. account[o].usdc \in Nat /\ account[o].wfair \in Nat
  BY OrderFields
<1>2. Burns(o)' = Burns(o)
  BY DEF Burns
<1>3. QED
  BY <1>1, <1>2 DEF FailedInv, NothingLost

-----------------------------------------------------------------------------
(***************************************************************************)
(* The steps of the customer, the watcher and the queue.                   *)
(***************************************************************************)

\* Those that leave the orders, the chain and the worker alone.
LEMMA AsideStep ==
    ASSUME IInv, UNCHANGED <<order, chain, lost, s>>
    PROVE  PlaceInv' /\ \A o \in Order : OrderInv(o)'
<1>1. PlaceInv'
  BY DEF IInv, PlaceInv
<1>2. ASSUME NEW o \in Order
      PROVE  OrderInv(o)'
  BY Untouched DEF IInv, chain
<1>3. QED
  BY <1>1, <1>2

\* Those that move documents between the statuses before the swap.
Early == {"AWAITING_PAYMENT", "EXPIRED", "PAYMENT_DETECTED"}

LEMMA EarlyStep ==
    ASSUME IInv, UNCHANGED <<chain, lost, s>>,
           \A o \in Order : /\ KeepsHashes(o)
                            /\ order'[o].status = order[o].status \/ order'[o].status \in Early
    PROVE  PlaceInv' /\ \A o \in Order : OrderInv(o)'
<1> USE DEF chain
<1>1. PlaceInv'
  BY DEF IInv, PlaceInv
<1>2. ASSUME NEW o \in Order
      PROVE  OrderInv(o)'
  <2>1. TypeOK /\ OrderInv(o) /\ KeepsHashes(o) /\ KeepsTxs(o)
    BY <1>2 DEF IInv, KeepsTxs, IsLanded
  <2>2. /\ order'[o].status \in {"DELIVERING", "DELIVERED", "FAILED"} =>
              order'[o].status = order[o].status
    BY <1>2 DEF Early
  <2>3. DocInv(o)'
    BY <2>1, <2>2, DocKept DEF OrderInv
  <2>4. WorkerInv(o)'
    BY <2>1, <2>2 DEF OrderInv, WorkerInv, IsLanded, Filed, KeepsHashes
  <2>5. KnownInv(o)' /\ BurnsAllInv(o)'
    BY <2>1 DEF OrderInv, KnownInv, BurnsAllInv, Known, Filed, NothingLost, At, KeepsHashes
  <2>6. MoneyInv(o)' /\ FailedInv(o)'
    BY <2>1, <2>2, MoneyKept, FailedKept, OrderFields DEF OrderInv
  <2>7. CountInv(o)'
    BY <2>1, CountKept DEF OrderInv, InHand, At
  <2>8. QED
    BY <2>3, <2>4, <2>5, <2>6, <2>7 DEF OrderInv
<1>3. QED
  BY <1>1, <1>2

LEMMA PayInv ==
    ASSUME IInv, NEW o \in Order, Pay(o)
    PROVE  PlaceInv' /\ \A d \in Order : OrderInv(d)'
<1>1. PlaceInv'
  BY DEF IInv, PlaceInv, Pay
<1>2. /\ UNCHANGED <<order, tx, lost, s>>
      /\ \A d \in Order \ {o} : account'[d] = account[d]
  BY DEF Pay, IInv, TypeOK
<1>3. account'[o].wfair = account[o].wfair /\ account'[o].usdc \in Nat
      /\ account'[o].usdc >= account[o].usdc
  <2>1. PICK amount \in Amounts :
           account' = [account EXCEPT ![o].paid = @ + amount, ![o].usdc = @ + amount]
    BY DEF Pay
  <2>2. amount \in Nat /\ account[o].usdc \in Nat /\ account \in [Order -> Account]
    BY BuyAssumption, OrderFields DEF IInv, TypeOK
  <2>3. account'[o].wfair = account[o].wfair /\ account'[o].usdc = account[o].usdc + amount
    BY <2>1, <2>2 DEF Account
  <2>4. QED
    BY <2>2, <2>3
<1>4. TypeOK /\ OrderInv(o)
  BY DEF IInv
<1>5. MoneyInv(o)' /\ FailedInv(o)'
  BY <1>2, <1>3, <1>4, MoneyKept, FailedKept DEF OrderInv
<1>6. KeepsHashes(o) /\ KeepsTxs(o)
  BY <1>2 DEF KeepsHashes, KeepsTxs, IsLanded
<1>7. DocInv(o)' /\ CountInv(o)'
  BY <1>2, <1>4, <1>6, DocKept, CountKept DEF OrderInv, InHand, At
<1>8. WorkerInv(o)' /\ KnownInv(o)' /\ BurnsAllInv(o)'
  BY <1>2, <1>3, <1>4
  DEF OrderInv, WorkerInv, KnownInv, BurnsAllInv, Known, Filed, NothingLost, At, IsLanded
<1>9. OrderInv(o)'
  BY <1>5, <1>7, <1>8 DEF OrderInv
<1>10. ASSUME NEW d \in Order \ {o}
       PROVE  OrderInv(d)'
  BY <1>2, <1>10, Untouched DEF IInv
<1>11. QED
  BY <1>1, <1>9, <1>10

LEMMA CustomerInv ==
    ASSUME IInv, NEW o \in Order, Customer(o)
    PROVE  PlaceInv' /\ \A d \in Order : OrderInv(d)'
<1>1. order \in [Order -> OrderDoc]
  BY DEF IInv, TypeOK
<1>2. CASE Quote(o)
  <2>1. \A d \in Order : /\ KeepsHashes(d)
                         /\ order'[d].status = order[d].status \/ order'[d].status \in Early
    BY <1>1, <1>2 DEF Quote, KeepsHashes, Early, OrderDoc
  <2>2. QED
    BY <1>2, <2>1, EarlyStep DEF Quote
<1>3. CASE QuoteLapses(o)
  <2>1. \A d \in Order : KeepsHashes(d) /\ order'[d].status = order[d].status
    BY <1>1, <1>3 DEF QuoteLapses, KeepsHashes, OrderDoc
  <2>2. QED
    BY <1>3, <2>1, EarlyStep DEF QuoteLapses
<1>4. QED
  BY <1>2, <1>3, PayInv DEF Customer

LEMMA WatcherInv ==
    ASSUME IInv, WatcherStep \/ TickError \/ \E o \in Order : BalanceUnknown(o) \/ JobStalls(o)
    PROVE  PlaceInv' /\ \A o \in Order : OrderInv(o)'
<1>1. order \in [Order -> OrderDoc]
  BY DEF IInv, TypeOK
<1>2. CASE ExpireStaleOrders
  <2>1. \A d \in Order : /\ KeepsHashes(d)
                         /\ order'[d].status = order[d].status \/ order'[d].status \in Early
    BY <1>1, <1>2 DEF ExpireStaleOrders, KeepsHashes, Early, OrderDoc
  <2>2. QED
    BY <1>2, <2>1, EarlyStep DEF ExpireStaleOrders, WatcherOnly
<1>3. ASSUME NEW o \in Order, ClaimDetection(o)
      PROVE  PlaceInv' /\ \A d \in Order : OrderInv(d)'
  <2>1. order' \in {order, [order EXCEPT ![o].status = "PAYMENT_DETECTED"]}
    BY <1>3 DEF ClaimDetection
  <2>2. \A d \in Order : /\ KeepsHashes(d)
                         /\ order'[d].status = order[d].status \/ order'[d].status \in Early
    BY <1>1, <2>1 DEF KeepsHashes, Early, OrderDoc
  <2>3. QED
    BY <1>3, <2>2, EarlyStep DEF ClaimDetection, WatcherOnly
<1>4. CASE ListAwaiting \/ EndTick \/ TickError
  BY <1>4, AsideStep DEF ListAwaiting, EndTick, TickError, WatcherOnly
<1>5. ASSUME NEW o \in Order,
             InspectBalance(o) \/ EnqueueBuy(o) \/ BalanceUnknown(o) \/ JobStalls(o)
      PROVE  PlaceInv' /\ \A d \in Order : OrderInv(d)'
  BY <1>5, AsideStep DEF InspectBalance, EnqueueBuy, BalanceUnknown, JobStalls, WatcherOnly
<1>6. QED
  BY <1>2, <1>3, <1>4, <1>5 DEF WatcherStep

-----------------------------------------------------------------------------
(***************************************************************************)
(* The worker's steps without a hash in hand.                              *)
(***************************************************************************)
Moves(o) == s'.o = o \/ s' = SIdle

\* What such a step leaves alone.
LEMMA MoveStep ==
    ASSUME IInv, NEW o \in Order, Moves(o),
           s.pc # "record", s'.pc # "record", UNCHANGED <<tx, lost>>,
           \A d \in Order \ {o} : order'[d] = order[d] /\ account'[d] = account[d],
           KeepsHashes(o), account'[o].usdc = account[o].usdc,
           account'[o].wfair = account[o].wfair,
           DocInv(o)', WorkerInv(o)', BurnsAllInv(o)', FailedInv(o)'
    PROVE  PlaceInv' /\ \A d \in Order : OrderInv(d)'
<1>1. PlaceInv'
  BY DEF Moves, PlaceInv, SIdle
<1>2. TypeOK /\ OrderInv(o) /\ KeepsTxs(o)
  BY DEF IInv, KeepsTxs, IsLanded
<1>3. account'[o].usdc \in Nat /\ account'[o].usdc >= account[o].usdc
  BY <1>2, OrderFields
<1>4. MoneyInv(o)'
  BY <1>2, <1>3, MoneyKept DEF OrderInv
<1>5. CountInv(o)'
  BY <1>2, CountKept DEF OrderInv, InHand, At
<1>6. KnownInv(o)'
  BY <1>2 DEF OrderInv, KnownInv, Known, Filed, At, NothingLost, KeepsHashes
<1>7. OrderInv(o)'
  BY <1>4, <1>5, <1>6 DEF OrderInv
<1>8. ASSUME NEW d \in Order \ {o}
      PROVE  OrderInv(d)'
  <2>1. d \in Order /\ OrderInv(d) /\ order'[d] = order[d] /\ account'[d] = account[d]
    BY <1>8 DEF IInv
  <2>2. s'.o # d /\ ~At(d, "record")
    BY <1>8, WorkerFields DEF IInv, Moves, SIdle, At
  <2>3. QED
    BY <2>1, <2>2, Untouched
<1>9. QED
  BY <1>1, <1>7, <1>8

LEMMA QuietStep ==
    ASSUME IInv, NEW o \in Order, Moves(o),
           s.pc # "record", s'.pc # "record", UNCHANGED <<tx, lost>>,
           \A d \in Order \ {o} : order'[d] = order[d] /\ account'[d] = account[d],
           KeepsHashes(o), account'[o].usdc = account[o].usdc,
           account'[o].wfair = account[o].wfair,
           order'[o].status \in {order[o].status, "SWAPPING", "BURNING"},
           WorkerInv(o)', BurnsAllInv(o)'
    PROVE  PlaceInv' /\ \A d \in Order : OrderInv(d)'
<1>1. TypeOK /\ OrderInv(o) /\ KeepsTxs(o)
  BY DEF IInv, KeepsTxs, IsLanded
<1>2. account'[o].usdc \in Nat /\ account'[o].usdc >= account[o].usdc
  BY <1>1, OrderFields
<1>3. DocInv(o)' /\ FailedInv(o)'
  BY <1>1, <1>2, DocKept, FailedKept DEF OrderInv
<1>4. QED
  BY <1>3, MoveStep

\* An attempt that ends leaves nothing to say of the worker.
LEMMA EndStep ==
    ASSUME IInv, NEW o \in Order, s' = SIdle, s.pc # "record", UNCHANGED <<order, chain, lost>>
    PROVE  PlaceInv' /\ \A d \in Order : OrderInv(d)'
<1>1. s'.pc # "record" /\ Moves(o)
  BY DEF SIdle, Moves
<1>2. WorkerInv(o)' /\ BurnsAllInv(o)'
  BY WorkerFields DEF SIdle, WorkerInv, BurnsAllInv, IInv
<1>3. QED
  BY <1>1, <1>2, QuietStep DEF KeepsHashes, chain

LEMMA TakeInv ==
    ASSUME IInv, NEW o \in Order, TakeJob(o)
    PROVE  PlaceInv' /\ \A d \in Order : OrderInv(d)'
<1>1. s.pc = "idle" /\ s'.pc = "load" /\ s'.o = o /\ UNCHANGED <<order, chain, lost>>
  BY DEF TakeJob, SIdle, SignerOnly, chain
<1>2. WorkerInv(o)' /\ BurnsAllInv(o)'
  BY <1>1 DEF WorkerInv, BurnsAllInv, Working
<1>3. QED
  BY <1>1, <1>2, QuietStep DEF KeepsHashes, chain, Moves

LEMMA LoadInv ==
    ASSUME IInv, NEW o \in Order, LoadOrder(o)
    PROVE  PlaceInv' /\ \A d \in Order : OrderInv(d)'
<1> DEFINE doc == order[o]
           claimed == doc.swap = 0 /\ doc.status \in SwapClaimable
<1>1. s.pc = "load" /\ s.o = o /\ UNCHANGED <<chain, lost>>
  BY DEF LoadOrder, At, SignerOnly, chain
<1>2. order \in [Order -> OrderDoc] /\ s \in Signer /\ OrderInv(o)
  BY DEF IInv, TypeOK
<1>3. order' = IF claimed THEN [order EXCEPT ![o].status = "SWAPPING"] ELSE order
  BY DEF LoadOrder
<1>4. /\ KeepsHashes(o)
      /\ order'[o].status = IF claimed THEN "SWAPPING" ELSE doc.status
      /\ \A d \in Order \ {o} : order'[d] = order[d]
  BY <1>2, <1>3 DEF KeepsHashes, OrderDoc
<1> HIDE DEF claimed
<1>5. \/ s'.pc \in {"done", "giveup"} /\ s'.o = o
      \/ s'.pc = "balance" /\ s'.o = o /\ claimed
      \/ /\ s'.pc = "await" /\ s'.o = o /\ s'.kind = "swap" /\ s'.sent = doc.swap
         /\ doc.swap # 0 /\ doc.status # "FAILED"
  <2>1. CASE doc.status \in {"DELIVERED", "DELIVERING", "FAILED", "EXPIRED"}
    <3>1. \E pc \in {"done", "giveup"} : s' = [s EXCEPT !.pc = pc]
      BY <2>1 DEF LoadOrder
    <3>2. QED
      BY <1>1, <1>2, <3>1 DEF Signer
  <2>2. CASE claimed
    <3>1. s' = [s EXCEPT !.pc = "balance"]
      BY <2>2 DEF LoadOrder, claimed, SwapClaimable
    <3>2. QED
      BY <1>1, <1>2, <2>2, <3>1 DEF Signer
  <2>3. CASE ~claimed /\ doc.status \notin {"DELIVERED", "DELIVERING", "FAILED", "EXPIRED"}
    <3>1. \/ doc.swap # 0 /\ s' = Reconcile("swap", doc.swap)
          \/ s' = [s EXCEPT !.pc = "done"]
      BY <2>3 DEF LoadOrder, claimed
    <3>2. QED
      BY <1>1, <1>2, <2>3, <3>1 DEF Signer, Reconcile
  <2>4. QED
    BY <2>1, <2>2, <2>3
<1>6. WorkerInv(o)' /\ BurnsAllInv(o)'
  BY <1>1, <1>4, <1>5 DEF WorkerInv, BurnsAllInv, Working, KeepsHashes, Filed, claimed
<1>7. QED
  BY <1>1, <1>4, <1>5, <1>6, QuietStep DEF chain, Moves

LEMMA SwapSideInv ==
    ASSUME IInv, NEW o \in Order, ReadBalance(o) \/ EnsureGas(o) \/ EnsureAllowance(o)
    PROVE  PlaceInv' /\ \A d \in Order : OrderInv(d)'
<1> USE DEF At, SignerOnly
<1>1. order \in [Order -> OrderDoc] /\ s \in Signer /\ account \in [Order -> Account]
      /\ OrderInv(o)
  BY DEF IInv, TypeOK
<1>2. CASE ReadBalance(o)
  <2>1. /\ s.pc = "balance" /\ s.o = o /\ UNCHANGED <<order, chain, lost>>
        /\ s' = [s EXCEPT !.pc = IF account[o].usdc = 0 THEN "giveup" ELSE "gas",
                          !.kind = "swap", !.amount = account[o].usdc]
    BY <1>2 DEF ReadBalance, chain
  <2>2. account[o].usdc \in Nat
    BY OrderFields DEF IInv
  <2>3. s'.o = o /\ s'.kind = "swap" /\ s'.pc \in {"gas", "giveup"}
        /\ (s'.pc = "gas" => s'.amount > 0)
    BY <1>1, <2>1, <2>2 DEF Signer
  <2>4. WorkerInv(o)' /\ BurnsAllInv(o)'
    BY <1>1, <2>1, <2>3 DEF OrderInv, WorkerInv, BurnsAllInv, Working
  <2>5. QED
    BY <2>1, <2>3, <2>4, QuietStep DEF KeepsHashes, chain, Moves
<1>3. CASE EnsureGas(o)
  <2>1. /\ s.pc = "gas" /\ s.o = o /\ UNCHANGED <<order, chain, lost>>
        /\ \E pc \in {"approve", "giveup"} : s' = [s EXCEPT !.pc = pc]
    BY <1>3 DEF EnsureGas, Goto, chain
  <2>2. s'.o = o /\ s'.kind = s.kind /\ s'.amount = s.amount /\ s'.pc \in {"approve", "giveup"}
    BY <1>1, <2>1 DEF Signer
  <2>3. WorkerInv(o)' /\ BurnsAllInv(o)'
    BY <1>1, <2>1, <2>2 DEF OrderInv, WorkerInv, BurnsAllInv, Working
  <2>4. QED
    BY <2>1, <2>2, <2>3, QuietStep DEF KeepsHashes, chain, Moves
<1>4. CASE EnsureAllowance(o)
  <2>1. /\ s.pc = "approve" /\ s.o = o /\ UNCHANGED <<order, tx, lost>>
        /\ s' = [s EXCEPT !.pc = "send"]
    BY <1>4 DEF EnsureAllowance, Goto
  <2>2. s'.o = o /\ s'.kind = s.kind /\ s'.amount = s.amount /\ s'.pc = "send"
    BY <1>1, <2>1 DEF Signer
  <2>3. /\ account'[o].usdc = account[o].usdc /\ account'[o].wfair = account[o].wfair
        /\ \A d \in Order \ {o} : account'[d] = account[d]
    BY <1>1, <1>4 DEF EnsureAllowance, Account
  <2>4. WorkerInv(o)' /\ BurnsAllInv(o)'
    BY <1>1, <2>1, <2>2 DEF OrderInv, WorkerInv, BurnsAllInv, Working, Filed
  <2>5. QED
    BY <2>1, <2>2, <2>3, <2>4, QuietStep DEF KeepsHashes, Moves
<1>5. QED
  BY <1>2, <1>3, <1>4

LEMMA AwaitSwapInv ==
    ASSUME IInv, NEW o \in Order, AwaitSwap(o)
    PROVE  PlaceInv' /\ \A d \in Order : OrderInv(d)'
<1>1. s \in Signer /\ OrderInv(o)
  BY DEF IInv, TypeOK
<1>2. /\ s.pc = "await" /\ s.o = o /\ s.kind = "swap" /\ tx[o][s.sent].status \in Landed
      /\ UNCHANGED <<order, chain, lost>>
      /\ s' = [s EXCEPT !.pc = "claimburn", !.kind = "burn", !.sent = 0,
                        !.amount = account[o].wfair]
  BY DEF AwaitSwap, At, Succeeded, SignerOnly, chain
<1>3. s'.o = o /\ s'.kind = "burn" /\ s'.pc = "claimburn" /\ s'.amount = account[o].wfair
  BY <1>1, <1>2 DEF Signer
<1>4. order[o].swap # 0 /\ IsLanded(o, order[o].swap) /\ order[o].status # "FAILED"
  BY <1>1, <1>2 DEF OrderInv, WorkerInv, DocInv, IsLanded, Filed, Working
<1>5. WorkerInv(o)' /\ BurnsAllInv(o)'
  BY <1>2, <1>3, <1>4 DEF WorkerInv, BurnsAllInv, IsLanded, chain
<1>6. QED
  BY <1>2, <1>3, <1>5, QuietStep DEF KeepsHashes, chain, Moves

LEMMA EnterBurnInv ==
    ASSUME IInv, NEW o \in Order, EnterBurn(o)
    PROVE  PlaceInv' /\ \A d \in Order : OrderInv(d)'
<1> DEFINE doc == order[o]
           claimed == doc.burn = 0 /\ doc.status \in {"SWAPPING", "BURNING"}
<1>1. s.pc = "claimburn" /\ s.o = o /\ UNCHANGED <<chain, lost>>
  BY DEF EnterBurn, At, SignerOnly, chain
<1>2. order \in [Order -> OrderDoc] /\ s \in Signer /\ OrderInv(o)
  BY DEF IInv, TypeOK
<1>3. order' = IF claimed THEN [order EXCEPT ![o].status = "BURNING"] ELSE order
  BY DEF EnterBurn
<1>4. /\ KeepsHashes(o)
      /\ order'[o].status = IF claimed THEN "BURNING" ELSE doc.status
      /\ \A d \in Order \ {o} : order'[d] = order[d]
  BY <1>2, <1>3 DEF KeepsHashes, OrderDoc
<1> HIDE DEF claimed
<1>5. /\ s'.o = o /\ s'.kind = s.kind /\ s'.amount = s.amount
      /\ \/ s'.pc = "done"
         \/ s'.pc = "send" /\ claimed
         \/ s'.pc = "await" /\ s'.sent = doc.burn /\ doc.burn # 0
  <2>1. CASE claimed
    <3>1. s' = [s EXCEPT !.pc = "send"]
      BY <2>1 DEF EnterBurn, claimed
    <3>2. QED
      BY <1>1, <1>2, <2>1, <3>1 DEF Signer
  <2>2. CASE ~claimed
    <3>1. \/ doc.burn # 0 /\ s' = Reconcile("burn", doc.burn)
          \/ s' = [s EXCEPT !.pc = "done"]
      BY <2>2 DEF EnterBurn, claimed
    <3>2. s.kind = "burn"
      BY <1>1, <1>2 DEF OrderInv, WorkerInv
    <3>3. QED
      BY <1>1, <1>2, <3>1, <3>2 DEF Signer, Reconcile
  <2>3. QED
    BY <2>1, <2>2
<1>6. /\ s.kind = "burn" /\ order[o].swap # 0 /\ IsLanded(o, order[o].swap)
      /\ order[o].status # "FAILED"
  BY <1>1, <1>2 DEF OrderInv, WorkerInv, Working
<1>7. WorkerInv(o)' /\ BurnsAllInv(o)'
  BY <1>1, <1>2, <1>4, <1>5, <1>6
  DEF OrderInv, WorkerInv, BurnsAllInv, KeepsHashes, Filed, claimed, chain, IsLanded, NothingLost
<1>8. QED
  BY <1>1, <1>4, <1>5, <1>7, QuietStep DEF chain, Moves

LEMMA AwaitBurnInv ==
    ASSUME IInv, NEW o \in Order, AwaitBurn(o)
    PROVE  PlaceInv' /\ \A d \in Order : OrderInv(d)'
<1>1. /\ order \in [Order -> OrderDoc] /\ s \in Signer /\ OrderInv(o)
      /\ TypeOK
  BY DEF IInv, TypeOK
<1>2. /\ s.pc = "await" /\ s.o = o /\ s.kind = "burn" /\ tx[o][s.sent].status \in Landed
      /\ UNCHANGED <<chain, lost>>
      /\ order' = [order EXCEPT ![o].status = "DELIVERING"] /\ s' = [s EXCEPT !.pc = "done"]
  BY DEF AwaitBurn, At, Succeeded, SignerOnly, chain, Goto
<1>3. /\ KeepsHashes(o) /\ order'[o].status = "DELIVERING"
      /\ \A d \in Order \ {o} : order'[d] = order[d]
  BY <1>1, <1>2 DEF KeepsHashes, OrderDoc
<1>4. s'.o = o /\ s'.pc = "done"
  BY <1>1, <1>2 DEF Signer
<1>5. order[o].burn # 0 /\ IsLanded(o, order[o].burn)
  BY <1>1, <1>2 DEF OrderInv, WorkerInv, DocInv, IsLanded, Filed
<1>6. DocInv(o)'
  BY <1>1, <1>2, <1>3, <1>5 DEF OrderInv, DocInv, IsLanded, KeepsHashes, chain
<1>7. WorkerInv(o)' /\ BurnsAllInv(o)' /\ FailedInv(o)'
  BY <1>3, <1>4 DEF WorkerInv, BurnsAllInv, FailedInv, Working
<1>8. QED
  BY <1>2, <1>3, <1>4, <1>6, <1>7, MoveStep DEF chain, Moves

\* A transaction that has a place is not at 0.
LEMMA NoneAtZero ==
    ASSUME TypeOK, NEW o \in Order
    PROVE  0 \notin DOMAIN tx[o]
BY TxFields

LEMMA AwaitRevertedInv ==
    ASSUME IInv, NEW o \in Order, AwaitReverted(o)
    PROVE  PlaceInv' /\ \A d \in Order : OrderInv(d)'
<1>1. order \in [Order -> OrderDoc] /\ s \in Signer /\ OrderInv(o) /\ TypeOK
  BY DEF IInv, TypeOK
<1>2. /\ s.pc = "await" /\ s.o = o /\ tx[o][s.sent].status = "reverted"
      /\ UNCHANGED <<chain, lost>>
      /\ order' = [order EXCEPT ![o].status = "FAILED"] /\ s' = SIdle
  BY DEF AwaitReverted, At, SignerOnly, chain, Throw
<1>3. /\ KeepsHashes(o) /\ order'[o].status = "FAILED"
      /\ \A d \in Order \ {o} : order'[d] = order[d]
  BY <1>1, <1>2 DEF KeepsHashes, OrderDoc
<1>4. DocInv(o)'
  <2>1. KeepsTxs(o)
    BY <1>2 DEF KeepsTxs, IsLanded, chain
  <2>2. QED
    BY <1>1, <1>3, <2>1, DocKept DEF OrderInv
<1>5. WorkerInv(o)' /\ BurnsAllInv(o)' /\ s'.pc # "record" /\ Moves(o)
  BY <1>2, WorkerFields DEF SIdle, WorkerInv, BurnsAllInv, IInv, Moves
<1>6. FailedInv(o)'
  <2> SUFFICES ASSUME NothingLost(o)
               PROVE  /\ \A i \in DOMAIN tx[o] : tx[o][i].status # "pending"
                      /\ \A j \in Burns(o) : tx[o][j].status = "reverted"
                      /\ account[o].usdc + account[o].wfair > 0
    BY <1>2 DEF FailedInv, NothingLost, Burns, chain
  <2>1. \A i \in DOMAIN tx[o] : i = Filed(o, tx[o][i].kind)
    BY <1>1, <1>2 DEF OrderInv, KnownInv, Known, At
  <2>2. s.sent = Filed(o, s.kind) /\ s.sent # 0 /\ s.kind \in Kinds
    BY <1>1, <1>2, WorkerFields DEF OrderInv, WorkerInv
  <2>3. s.sent \in DOMAIN tx[o] /\ tx[o][s.sent].kind = s.kind /\ ~IsLanded(o, s.sent)
    BY <1>1, <1>2, <2>2 DEF OrderInv, DocInv, Filed, IsLanded, Landed, Kinds
  <2>4. \A i \in DOMAIN tx[o] : tx[o][i].amount \in Nat /\ tx[o][i].kind \in Kinds
    BY <1>1, TxFields
  <2>5. account[o].usdc \in Nat /\ account[o].wfair \in Nat
    BY <1>1, OrderFields
  <2>6. CASE s.kind = "swap"
    <3>1. order[o].burn = 0
      BY <1>1, <2>2, <2>3, <2>6 DEF OrderInv, DocInv, Filed
    <3>2. \A i \in DOMAIN tx[o] : i = s.sent
      BY <1>1, <2>1, <2>2, <2>4, <2>6, <3>1, NoneAtZero DEF Filed, Kinds
    <3>3. s.sent \in Swaps(o) /\ Burns(o) = {}
      BY <2>3, <2>6, <3>2 DEF Swaps, Burns
    <3>4. account[o].usdc >= tx[o][s.sent].amount /\ tx[o][s.sent].amount > 0
      BY <1>1, <2>3, <3>3 DEF OrderInv, MoneyInv
    <3>5. account[o].usdc + account[o].wfair > 0
      BY <2>3, <2>4, <2>5, <3>4
    <3>6. QED
      BY <1>2, <3>2, <3>3, <3>5
  <2>7. CASE s.kind = "burn"
    <3> DEFINE swap == order[o].swap
    <3>1. swap \in DOMAIN tx[o] /\ tx[o][swap].kind = "swap" /\ IsLanded(o, swap)
      BY <1>1, <2>2, <2>7 DEF OrderInv, DocInv, Filed
    <3>2. \A i \in DOMAIN tx[o] : i \in {swap, s.sent}
      BY <2>1, <2>2, <2>4, <2>7 DEF Filed, Kinds
    <3>3. swap \in Swaps(o) /\ Burns(o) = {s.sent}
      BY <2>3, <2>7, <3>1, <3>2 DEF Swaps, Burns
    <3>4. account[o].wfair = Rate * tx[o][swap].amount /\ tx[o][swap].amount > 0
      BY <1>1, <2>3, <3>1, <3>3 DEF OrderInv, MoneyInv
    <3>5. account[o].wfair > 0
      BY <2>4, <3>1, <3>4, BuyAssumption
    <3>6. tx[o][swap].status # "pending"
      BY <3>1 DEF IsLanded, Landed
    <3>7. account[o].usdc + account[o].wfair > 0
      BY <2>5, <3>5
    <3>8. QED
      BY <1>2, <3>2, <3>3, <3>6, <3>7
  <2>8. QED
    BY <2>2, <2>6, <2>7 DEF Kinds
<1>7. QED
  BY <1>2, <1>3, <1>4, <1>5, <1>6, MoveStep DEF chain

LEMMA EndInv ==
    ASSUME IInv, NEW o \in Order, EndJob(o) \/ SendRejected(o) \/ StepFails(o)
    PROVE  PlaceInv' /\ \A d \in Order : OrderInv(d)'
<1>1. s' = SIdle /\ s.pc # "record" /\ UNCHANGED <<order, chain, lost>>
  BY DEF EndJob, SendRejected, StepFails, At, Throw, SignerOnly, chain
<1>2. QED
  BY <1>1, EndStep

-----------------------------------------------------------------------------
(***************************************************************************)
(* The steps that send a transaction or have its hash in hand.             *)
(***************************************************************************)

\* One more transaction of the kind that was sent.
LEMMA SentCount ==
    ASSUME TypeOK, NEW o \in Order, Broadcast(o), NEW kind \in Kinds
    PROVE  CountTx(o, kind)' = IF kind = s.kind THEN CountTx(o, kind) + 1 ELSE CountTx(o, kind)
<1> DEFINE S == {i \in DOMAIN tx[o] : tx[o][i].kind = kind}
           T == {i \in DOMAIN tx'[o] : tx'[o][i].kind = kind}
           n == Len(tx[o]) + 1
<1>1. /\ DOMAIN tx'[o] = DOMAIN tx[o] \cup {n} /\ n \notin DOMAIN tx[o]
      /\ \A i \in DOMAIN tx[o] : tx'[o][i] = tx[o][i]
      /\ tx'[o][n].kind = s.kind
  BY SentType
<1>2. IsFiniteSet(S) /\ Cardinality(S) \in Nat
  BY CountFacts DEF CountTx
<1>3. CASE kind = s.kind
  <2>1. T = S \cup {n} /\ n \notin S
    BY <1>1, <1>3
  <2>2. Cardinality(T) = Cardinality(S) + 1
    BY <1>2, <2>1, FS_AddElement
  <2>3. QED
    BY <1>3, <2>2 DEF CountTx
<1>4. CASE kind # s.kind
  <2>1. T = S
    BY <1>1, <1>4
  <2>2. QED
    BY <1>4, <2>1 DEF CountTx
<1>5. QED
  BY <1>3, <1>4

\* What a sent transaction does to the documents' view and to the other orders.
LEMMA SentKeeps ==
    ASSUME TypeOK, NEW o \in Order, Broadcast(o)
    PROVE  KeepsTxs(o) /\ \A d \in Order \ {o} : tx'[d] = tx[d]
<1>1. \A i \in DOMAIN tx[o] : i \in DOMAIN tx'[o] /\ tx'[o][i] = tx[o][i]
  BY SentType
<1>2. QED
  BY <1>1, SentType DEF KeepsTxs, IsLanded

LEMMA SendMoney ==
    ASSUME IInv, NEW o \in Order, Broadcast(o), UNCHANGED <<account, lost>>
    PROVE  MoneyInv(o)'
<1>0. PICK n : n = Len(tx[o]) + 1
  OBVIOUS
<1>1. TypeOK /\ OrderInv(o)
  BY DEF IInv
<1>2. /\ s.pc = "send" /\ s.o = o /\ Affordable(o, s.kind, s.amount)
  BY DEF Broadcast, At
<1>3. /\ DOMAIN tx'[o] = DOMAIN tx[o] \cup {n} /\ n \notin DOMAIN tx[o]
      /\ \A i \in DOMAIN tx[o] : tx'[o][i] = tx[o][i]
      /\ tx'[o][n] = [kind |-> s.kind, amount |-> s.amount, status |-> "pending"]
  BY <1>0, <1>1, SentType
<1>4. tx'[o][n].kind = s.kind /\ tx'[o][n].amount = s.amount /\ ~IsLanded(o, n)'
  BY <1>3 DEF IsLanded, Landed
<1>5. \A i \in DOMAIN tx[o] : IsLanded(o, i)' <=> IsLanded(o, i)
  BY <1>3 DEF IsLanded
<1>6. s.kind \in Kinds /\ \A i \in DOMAIN tx[o] : tx[o][i].kind \in Kinds
  BY <1>1, TxFields, WorkerFields
<1>7. Filed(o, s.kind) = 0
  BY <1>1, <1>2 DEF OrderInv, WorkerInv
<1>8. SUFFICES ASSUME NothingLost(o)
               PROVE  MoneyInv(o)'
  BY DEF MoneyInv, NothingLost
<1>9. \A i \in DOMAIN tx[o] : i = Filed(o, tx[o][i].kind)
  BY <1>1, <1>2, <1>8 DEF OrderInv, KnownInv, Known, At
<1>10. CASE s.kind = "swap"
  <2>1. order[o].swap = 0 /\ order[o].burn = 0
    BY <1>1, <1>7, <1>10 DEF OrderInv, DocInv, Filed
  <2>2. DOMAIN tx[o] = {}
    BY <1>1, <1>6, <1>9, <2>1, NoneAtZero DEF Filed
  <2>3. Swaps(o) = {} /\ Swaps(o)' = {n} /\ Burns(o)' = {}
    BY <1>3, <1>4, <1>10, <2>2 DEF Swaps, Burns
  <2>4. account[o].wfair = 0
    BY <1>1, <1>8, <2>3 DEF OrderInv, MoneyInv
  <2>5. s.amount > 0 /\ account[o].usdc >= s.amount
    BY <1>1, <1>2, <1>10 DEF OrderInv, WorkerInv, Affordable
  <2>6. QED
    BY <1>4, <2>3, <2>4, <2>5 DEF MoneyInv
<1>11. CASE s.kind = "burn"
  <2>0. PICK swap : swap = order[o].swap
    OBVIOUS
  <2>1. /\ order[o].burn = 0 /\ swap \in DOMAIN tx[o] /\ tx[o][swap].kind = "swap"
        /\ IsLanded(o, swap)
    BY <2>0, <1>1, <1>2, <1>7, <1>11 DEF OrderInv, DocInv, WorkerInv, Filed
  <2>2. DOMAIN tx[o] = {swap}
    BY <2>0, <1>1, <1>6, <1>9, <2>1, NoneAtZero DEF Filed, Kinds
  <2>3. Swaps(o) = {swap} /\ Burns(o) = {} /\ Swaps(o)' = {swap} /\ Burns(o)' = {n}
    BY <1>3, <1>4, <1>11, <2>1, <2>2 DEF Swaps, Burns
  <2>4. account[o].wfair = Rate * tx[o][swap].amount /\ tx[o][swap].amount > 0
    BY <1>1, <1>8, <2>1, <2>3 DEF OrderInv, MoneyInv
  <2>5. s.amount = account[o].wfair
    BY <1>1, <1>2, <1>8, <1>11, <2>1 DEF OrderInv, BurnsAllInv
  <2>6. tx'[o][swap] = tx[o][swap] /\ IsLanded(o, swap)'
    BY <1>3, <1>5, <2>1
  <2>7. QED
    BY <1>4, <2>1, <2>3, <2>4, <2>5, <2>6 DEF MoneyInv
<1>12. QED
  BY <1>6, <1>10, <1>11 DEF Kinds

LEMMA SendInv ==
    ASSUME IInv, NEW o \in Order, SendTx(o)
    PROVE  PlaceInv' /\ \A d \in Order : OrderInv(d)'
<1> DEFINE n == Len(tx[o]) + 1
<1>1. TypeOK /\ OrderInv(o) /\ s \in Signer
  BY DEF IInv, TypeOK
<1>2. /\ s.pc = "send" /\ s.o = o /\ Broadcast(o) /\ UNCHANGED <<order, account, lost>>
      /\ s' = [s EXCEPT !.pc = "record", !.sent = n]
  BY DEF SendTx, Broadcast, At, SignerOnly
<1>3. s'.pc = "record" /\ s'.o = o /\ s'.kind = s.kind /\ s'.amount = s.amount /\ s'.sent = n
  BY <1>1, <1>2 DEF Signer
<1>4. KeepsTxs(o) /\ KeepsHashes(o)
  BY <1>1, <1>2, SentKeeps DEF KeepsHashes
<1>5. /\ DOMAIN tx'[o] = DOMAIN tx[o] \cup {n} /\ n \notin DOMAIN tx[o]
      /\ \A i \in DOMAIN tx[o] : tx'[o][i] = tx[o][i]
      /\ tx'[o][n].kind = s.kind
  BY <1>1, <1>2, SentType
<1>6. DocInv(o)'
  BY <1>1, <1>2, <1>4, DocKept DEF OrderInv
<1>7. WorkerInv(o)'
  <2>1. order[o].swap # 0 /\ IsLanded(o, order[o].swap) => IsLanded(o, order[o].swap)'
    BY <1>2, <1>4 DEF KeepsTxs, IsLanded
  <2>2. QED
    BY <1>1, <1>2, <1>3, <1>5, <2>1 DEF OrderInv, WorkerInv, Filed, Working, IsLanded
<1>8. KnownInv(o)'
  BY <1>1, <1>2, <1>3, <1>5 DEF OrderInv, KnownInv, Known, NothingLost, At, Filed
<1>9. MoneyInv(o)' /\ BurnsAllInv(o)'
  BY <1>2, <1>3, SendMoney DEF BurnsAllInv
<1>10. FailedInv(o)'
  BY <1>1, <1>2 DEF OrderInv, WorkerInv, FailedInv, Working
<1>11. CountInv(o)'
  <2> SUFFICES ASSUME NEW kind \in Kinds
               PROVE  CountTx(o, kind)' = lost'[o][kind] + InHand(o, kind)' + OnFile(o, kind)'
    BY DEF CountInv, Kinds
  <2>1. OnFile(o, kind)' = OnFile(o, kind) /\ OnFile(o, kind) \in Nat /\ lost'[o][kind] = lost[o][kind]
    BY <1>2 DEF OnFile
  <2>2. CountTx(o, kind) = lost[o][kind] + InHand(o, kind) + OnFile(o, kind)
    BY <1>1 DEF OrderInv, CountInv, Kinds
  <2>3. InHand(o, kind) = 0 /\ InHand(o, kind)' = IF kind = s.kind THEN 1 ELSE 0
    BY <1>2, <1>3 DEF InHand, At
  <2>4. lost[o][kind] \in Nat
    BY <1>1, OrderFields DEF Kinds
  <2>5. CountTx(o, kind)' = IF kind = s.kind THEN CountTx(o, kind) + 1 ELSE CountTx(o, kind)
    BY <1>1, <1>2, SentCount
  <2>6. QED
    BY <2>1, <2>2, <2>3, <2>4, <2>5
<1>12. PlaceInv'
  BY <1>3 DEF PlaceInv
<1>13. OrderInv(o)'
  BY <1>6, <1>7, <1>8, <1>9, <1>10, <1>11 DEF OrderInv
<1>14. ASSUME NEW d \in Order \ {o}
       PROVE  OrderInv(d)'
  <2>1. d \in Order /\ OrderInv(d) /\ tx'[d] = tx[d] /\ ~At(d, "record") /\ s'.o # d
    BY <1>1, <1>2, <1>3, <1>14, SentKeeps DEF IInv, At
  <2>2. QED
    BY <1>2, <2>1, Untouched
<1>15. QED
  BY <1>12, <1>13, <1>14

\* A step that loses the hash at hand and ends the attempt.
LEMMA LostStep ==
    ASSUME IInv, NEW o \in Order, Forget(o), s.o = o, s' \in {SIdle, SOff},
           UNCHANGED <<order, account>>, KeepsTxs(o),
           \A d \in Order \ {o} : tx'[d] = tx[d],
           \A kind \in Kinds : CountTx(o, kind)' =
               IF kind = s.kind THEN CountTx(o, kind) + 1 - InHand(o, kind) ELSE CountTx(o, kind)
    PROVE  PlaceInv' /\ \A d \in Order : OrderInv(d)'
<1>1. TypeOK /\ OrderInv(o) /\ s.kind \in Kinds
  BY WorkerFields DEF IInv
<1>2. s'.o = 0 /\ s'.pc \in {"off", "idle"}
  BY DEF SIdle, SOff
<1>3. PlaceInv' /\ 0 \notin Order
  BY <1>1, <1>2, WorkerFields DEF PlaceInv
<1>4. /\ \A d \in Order \ {o} : lost'[d] = lost[d]
      /\ \A kind \in Kinds : lost'[o][kind] =
                 IF kind = s.kind THEN lost[o][kind] + 1 ELSE lost[o][kind]
  BY <1>1, LostType
<1>5. \A kind \in Kinds : lost[o][kind] \in Nat
  BY <1>1, OrderFields DEF Kinds
<1>6. ~NothingLost(o)'
  <2>1. lost'[o]["swap"] + lost'[o]["burn"] = lost[o]["swap"] + lost[o]["burn"] + 1
    BY <1>1, <1>4, <1>5 DEF Kinds
  <2>2. QED
    BY <1>5, <2>1 DEF NothingLost, Kinds
<1>7. DocInv(o)'
  BY <1>1, DocKept DEF OrderInv, KeepsHashes
<1>8. WorkerInv(o)' /\ KnownInv(o)' /\ MoneyInv(o)' /\ BurnsAllInv(o)' /\ FailedInv(o)'
  BY <1>2, <1>3, <1>6 DEF WorkerInv, KnownInv, MoneyInv, BurnsAllInv, FailedInv
<1>9. CountInv(o)'
  <2> SUFFICES ASSUME NEW kind \in Kinds
               PROVE  CountTx(o, kind)' = lost'[o][kind] + InHand(o, kind)' + OnFile(o, kind)'
    BY DEF CountInv, Kinds
  <2>1. OnFile(o, kind)' = OnFile(o, kind) /\ OnFile(o, kind) \in Nat
    BY DEF OnFile
  <2>2. CountTx(o, kind) = lost[o][kind] + InHand(o, kind) + OnFile(o, kind)
    BY <1>1 DEF OrderInv, CountInv, Kinds
  <2>3. /\ InHand(o, kind) \in {0, 1} /\ InHand(o, kind)' = 0
        /\ kind # s.kind => InHand(o, kind) = 0
    BY <1>2 DEF InHand, At
  <2>4. QED
    BY <1>4, <1>5, <2>1, <2>2, <2>3
<1>10. OrderInv(o)'
  BY <1>7, <1>8, <1>9 DEF OrderInv
<1>11. ASSUME NEW d \in Order \ {o}
       PROVE  OrderInv(d)'
  <2>1. d \in Order /\ OrderInv(d) /\ tx'[d] = tx[d] /\ ~At(d, "record") /\ s'.o # d
    BY <1>2, <1>3, <1>11 DEF IInv, At
  <2>2. QED
    BY <1>4, <2>1, Untouched
<1>12. QED
  BY <1>3, <1>10, <1>11

LEMMA SendUnansweredInv ==
    ASSUME IInv, NEW o \in Order, SendUnanswered(o)
    PROVE  PlaceInv' /\ \A d \in Order : OrderInv(d)'
<1>1. /\ Broadcast(o) /\ Forget(o) /\ s' = SIdle /\ UNCHANGED <<order, account>>
      /\ s.o = o /\ s.pc = "send" /\ TypeOK
  BY DEF SendUnanswered, Broadcast, At, Throw, IInv
<1>2. KeepsTxs(o) /\ \A d \in Order \ {o} : tx'[d] = tx[d]
  BY <1>1, SentKeeps
<1>3. ASSUME NEW kind \in Kinds
      PROVE  CountTx(o, kind)' =
               IF kind = s.kind THEN CountTx(o, kind) + 1 - InHand(o, kind) ELSE CountTx(o, kind)
  <2>1. InHand(o, kind) = 0 /\ CountTx(o, kind) \in Nat
    BY <1>1, CountFacts DEF InHand, At
  <2>2. CountTx(o, kind)' = IF kind = s.kind THEN CountTx(o, kind) + 1 ELSE CountTx(o, kind)
    BY <1>1, SentCount
  <2>3. QED
    BY <2>1, <2>2
<1>4. QED
  BY <1>1, <1>2, <1>3, LostStep

\* A hash that is lost before it is on file, by a failure or a kill.
LEMMA HashLost ==
    ASSUME IInv, NEW o \in Order, At(o, "record"), Forget(o), s' \in {SIdle, SOff},
           UNCHANGED <<order, chain>>
    PROVE  PlaceInv' /\ \A d \in Order : OrderInv(d)'
<1>1. KeepsTxs(o) /\ UNCHANGED <<order, account, tx>> /\ TypeOK
  BY DEF KeepsTxs, IsLanded, chain, IInv
<1>2. ASSUME NEW kind \in Kinds
      PROVE  CountTx(o, kind)' =
               IF kind = s.kind THEN CountTx(o, kind) + 1 - InHand(o, kind) ELSE CountTx(o, kind)
  <2>1. CountTx(o, kind)' = CountTx(o, kind) /\ CountTx(o, kind) \in Nat
    BY <1>1, CountFacts DEF CountTx
  <2>2. kind = s.kind => InHand(o, kind) = 1
    BY DEF InHand
  <2>3. QED
    BY <2>1, <2>2
<1>3. QED
  BY <1>1, <1>2, LostStep DEF At

\* A hash that is written.
LEMMA HashFiled ==
    ASSUME IInv, NEW o \in Order, At(o, "record"), FileHash(o), UNCHANGED <<chain, lost>>,
           \/ s' = SIdle
           \/ s' = [s EXCEPT !.pc = "await"]
    PROVE  PlaceInv' /\ \A d \in Order : OrderInv(d)'
<1>1. TypeOK /\ OrderInv(o) /\ s \in Signer /\ s.kind \in Kinds /\ UNCHANGED <<tx, account, lost>>
  BY WorkerFields DEF IInv, TypeOK, chain
<1>2. s.pc = "record" /\ s.o = o
  BY DEF At
<1>3. /\ s'.pc # "record" /\ s'.pc \notin {"claimburn", "send"}
      /\ \/ s'.o = 0 /\ s'.pc = "idle"
         \/ s'.o = o /\ s'.pc = "await" /\ s'.kind = s.kind /\ s'.sent = s.sent
  BY <1>1, <1>2 DEF SIdle, Signer
<1>4. /\ \A d \in Order \ {o} : order'[d] = order[d]
      /\ order'[o].status = order[o].status /\ order'[o].release = order[o].release
      /\ order'[o].swap = IF s.kind = "swap" THEN s.sent ELSE order[o].swap
      /\ order'[o].burn = IF s.kind = "burn" THEN s.sent ELSE order[o].burn
  BY <1>1, FiledType
<1>5. 0 \notin Order /\ PlaceInv'
  BY <1>1, <1>3, WorkerFields DEF PlaceInv
<1>6. /\ Filed(o, s.kind) = 0 /\ s.sent \in DOMAIN tx[o] /\ tx[o][s.sent].kind = s.kind
      /\ s.sent # 0 /\ order[o].status # "FAILED"
  BY <1>1, <1>2, NoneAtZero DEF OrderInv, WorkerInv, Working
<1>7. order[o].burn = 0
  BY <1>1, <1>6 DEF OrderInv, DocInv, Filed, Kinds
<1>8. s.kind = "burn" => order[o].swap # 0 /\ IsLanded(o, order[o].swap)
  BY <1>1, <1>2 DEF OrderInv, WorkerInv
<1>9. DocInv(o)'
  BY <1>1, <1>4, <1>6, <1>7, <1>8 DEF OrderInv, DocInv, IsLanded, Kinds
<1>10. WorkerInv(o)' /\ BurnsAllInv(o)'
  BY <1>1, <1>3, <1>4, <1>5, <1>6 DEF WorkerInv, BurnsAllInv, Filed, Kinds
<1>11. KnownInv(o)'
  <2> SUFFICES ASSUME NothingLost(o), NEW i \in DOMAIN tx[o]
               PROVE  i = Filed(o, tx[o][i].kind)'
    BY <1>1 DEF KnownInv, Known, NothingLost, Filed
  <2>1. Known(o, i) /\ i # 0 /\ tx[o][i].kind \in Kinds
    BY <1>1, TxFields DEF OrderInv, KnownInv
  <2>2. CASE tx[o][i].kind = s.kind
    <3>1. i = s.sent
      BY <1>2, <1>6, <2>1, <2>2 DEF Known, At
    <3>2. QED
      BY <1>1, <1>4, <2>2, <3>1 DEF Filed, Kinds
  <2>3. CASE tx[o][i].kind # s.kind
    <3>1. i = Filed(o, tx[o][i].kind)
      BY <2>1, <2>3 DEF Known
    <3>2. QED
      BY <1>1, <1>4, <2>1, <2>3, <3>1 DEF Filed, Kinds
  <2>4. QED
    BY <2>2, <2>3
<1>12. MoneyInv(o)' /\ FailedInv(o)'
  BY <1>1, <1>4, <1>6, MoneyKept, OrderFields DEF OrderInv, FailedInv
<1>13. CountInv(o)'
  <2> SUFFICES ASSUME NEW kind \in Kinds
               PROVE  CountTx(o, kind)' = lost'[o][kind] + InHand(o, kind)' + OnFile(o, kind)'
    BY DEF CountInv, Kinds
  <2>1. CountTx(o, kind)' = CountTx(o, kind) /\ lost'[o][kind] = lost[o][kind]
    BY <1>1 DEF CountTx
  <2>2. CountTx(o, kind) = lost[o][kind] + InHand(o, kind) + OnFile(o, kind)
    BY <1>1 DEF OrderInv, CountInv, Kinds
  <2>3. InHand(o, kind)' = 0 /\ InHand(o, kind) = IF kind = s.kind THEN 1 ELSE 0
    BY <1>2, <1>3 DEF InHand, At
  <2>4. /\ kind = s.kind => OnFile(o, kind) = 0 /\ OnFile(o, kind)' = 1
        /\ kind # s.kind => OnFile(o, kind)' = OnFile(o, kind)
        /\ OnFile(o, kind) \in Nat
    BY <1>1, <1>4, <1>6 DEF OnFile, Filed, Kinds
  <2>5. lost[o][kind] \in Nat
    BY <1>1, OrderFields DEF Kinds
  <2>6. QED
    BY <2>1, <2>2, <2>3, <2>4, <2>5
<1>14. OrderInv(o)'
  BY <1>9, <1>10, <1>11, <1>12, <1>13 DEF OrderInv
<1>15. ASSUME NEW d \in Order \ {o}
       PROVE  OrderInv(d)'
  <2>1. d \in Order /\ OrderInv(d) /\ order'[d] = order[d] /\ ~At(d, "record") /\ s'.o # d
    BY <1>2, <1>3, <1>4, <1>5, <1>15 DEF IInv, At
  <2>2. QED
    BY <1>1, <2>1, Untouched
<1>16. QED
  BY <1>5, <1>14, <1>15

LEMMA RecordInv ==
    ASSUME IInv, NEW o \in Order, RecordHash(o) \/ RecordFails(o)
    PROVE  PlaceInv' /\ \A d \in Order : OrderInv(d)'
<1>1. CASE RecordHash(o)
  BY <1>1, HashFiled DEF RecordHash, SignerOnly, Goto, chain
<1>2. CASE RecordFails(o)
  BY <1>2, HashFiled, HashLost DEF RecordFails, Throw
<1>3. QED
  BY <1>1, <1>2

-----------------------------------------------------------------------------
(***************************************************************************)
(* The steps of Base, of the release pipeline and of the process.          *)
(***************************************************************************)
LEMMA StatusKeeps ==
    ASSUME TypeOK, NEW o \in Order, NEW i \in DOMAIN tx[o],
           NEW status \in {"pending", "reverted"} \cup Landed, SetTxStatus(o, i, status),
           IsLanded(o, i) => status \in Landed, tx[o][i].status # "linked"
    PROVE  /\ KeepsTxs(o) /\ DOMAIN tx'[o] = DOMAIN tx[o]
           /\ Swaps(o)' = Swaps(o) /\ Burns(o)' = Burns(o)
           /\ \A j \in DOMAIN tx[o] :
                 /\ tx'[o][j].kind = tx[o][j].kind /\ tx'[o][j].amount = tx[o][j].amount
                 /\ IsLanded(o, j)' <=> IF j = i THEN status \in Landed ELSE IsLanded(o, j)
           /\ \A d \in Order \ {o} : tx'[d] = tx[d]
BY StatusSet DEF KeepsTxs, IsLanded, Swaps, Burns

\* Such a step changes neither what the worker knows nor how many there are.
LEMMA OutsideKeeps ==
    ASSUME IInv, NEW o \in Order, NEW i \in DOMAIN tx[o],
           NEW status \in {"pending", "reverted"} \cup Landed, SetTxStatus(o, i, status),
           IsLanded(o, i) => status \in Landed, tx[o][i].status # "linked",
           UNCHANGED <<lost, s>>,
           order'[o].swap = order[o].swap, order'[o].burn = order[o].burn,
           order'[o].status \in {order[o].status, "DELIVERED"}
    PROVE  WorkerInv(o)' /\ KnownInv(o)' /\ CountInv(o)'
<1>1. TypeOK /\ OrderInv(o)
  BY DEF IInv
<1>2. /\ KeepsTxs(o) /\ DOMAIN tx'[o] = DOMAIN tx[o]
      /\ \A j \in DOMAIN tx[o] : tx'[o][j].kind = tx[o][j].kind
  BY <1>1, StatusKeeps
<1>3. WorkerInv(o)'
  BY <1>1, <1>2 DEF OrderInv, WorkerInv, Filed, KeepsTxs, IsLanded
<1>4. KnownInv(o)'
  BY <1>1, <1>2 DEF OrderInv, KnownInv, Known, Filed, NothingLost, At
<1>5. CountInv(o)'
  <2>1. ASSUME NEW kind \in Kinds
        PROVE  CountTx(o, kind)' = CountTx(o, kind) /\ OnFile(o, kind)' = OnFile(o, kind)
               /\ InHand(o, kind)' = InHand(o, kind)
    <3>1. {j \in DOMAIN tx'[o] : tx'[o][j].kind = kind} = {j \in DOMAIN tx[o] : tx[o][j].kind = kind}
      BY <1>2
    <3>2. QED
      BY <3>1 DEF CountTx, OnFile, InHand, At
  <2>2. QED
    BY <1>1, <2>1 DEF OrderInv, CountInv, Kinds
<1>6. QED
  BY <1>3, <1>4, <1>5

\* No burn and no swap lands or stops being landed: the money stays.
LEMMA SameLanded ==
    ASSUME IInv, NEW o \in Order, NEW i \in DOMAIN tx[o],
           NEW status \in {"reverted"} \cup Landed, SetTxStatus(o, i, status),
           tx[o][i].status \notin {"reverted", "linked"},
           IsLanded(o, i) <=> status \in Landed, UNCHANGED <<lost, s, account>>,
           IsLanded(o, i) => tx[o][i].kind = "burn",
           \A d \in Order \ {o} : order'[d] = order[d],
           order'[o].swap = order[o].swap, order'[o].burn = order[o].burn,
           order'[o].status \in {order[o].status, "DELIVERED"},
           DocInv(o)'
    PROVE  PlaceInv' /\ \A d \in Order : OrderInv(d)'
<1>1. TypeOK /\ OrderInv(o)
  BY DEF IInv
<1>2. /\ DOMAIN tx'[o] = DOMAIN tx[o]
      /\ Swaps(o)' = Swaps(o) /\ Burns(o)' = Burns(o)
      /\ \A j \in DOMAIN tx[o] : /\ tx'[o][j].amount = tx[o][j].amount
                                 /\ IsLanded(o, j)' <=> IsLanded(o, j)
      /\ \A d \in Order \ {o} : tx'[d] = tx[d]
  BY <1>1, StatusKeeps
<1>3. WorkerInv(o)' /\ KnownInv(o)' /\ CountInv(o)'
  BY OutsideKeeps
<1>4. Swaps(o) \subseteq DOMAIN tx[o] /\ Burns(o) \subseteq DOMAIN tx[o]
  BY DEF Swaps, Burns
<1>5. MoneyInv(o)'
  BY <1>1, <1>2, <1>4 DEF OrderInv, MoneyInv, NothingLost
<1>6. BurnsAllInv(o)'
  BY <1>1 DEF OrderInv, BurnsAllInv, NothingLost
<1>7. FailedInv(o)'
  <2>1. tx[o][i].status = "pending" \/ tx[o][i].status \in Landed
    BY <1>1, TxFields
  <2>2. ~(NothingLost(o) /\ order[o].status = "FAILED")
    BY <1>1, <2>1 DEF OrderInv, FailedInv, IsLanded, Burns
  <2>3. QED
    BY <2>2 DEF FailedInv, NothingLost
<1>8. OrderInv(o)'
  BY <1>3, <1>5, <1>6, <1>7 DEF OrderInv
<1>9. ASSUME NEW d \in Order \ {o}
      PROVE  OrderInv(d)'
  BY <1>2, <1>9, Untouched DEF IInv
<1>10. PlaceInv'
  BY DEF IInv, PlaceInv
<1>11. QED
  BY <1>8, <1>9, <1>10

LEMMA RevertInv ==
    ASSUME IInv, NEW o \in Order, NEW i \in DOMAIN tx[o], tx[o][i].status = "pending",
           SetTxStatus(o, i, "reverted"), UNCHANGED <<order, account, lost, s>>
    PROVE  PlaceInv' /\ \A d \in Order : OrderInv(d)'
<1>1. TypeOK /\ OrderInv(o) /\ ~IsLanded(o, i)
  BY DEF IInv, IsLanded, Landed
<1>2. KeepsTxs(o)
  BY <1>1, StatusKeeps DEF Landed
<1>3. DocInv(o)'
  BY <1>1, <1>2, DocKept DEF OrderInv, KeepsHashes
<1>4. QED
  BY <1>1, <1>3, SameLanded DEF Landed

LEMMA ReleaseInv ==
    ASSUME IInv, NEW o \in Order, NEW i \in DOMAIN tx[o],
           ReleaseRefused(o, i) \/ ReleasePaid(o, i) \/ LinkFails(o, i) \/ LinkRelease(o, i)
    PROVE  PlaceInv' /\ \A d \in Order : OrderInv(d)'
<1>1. TypeOK /\ OrderInv(o) /\ order \in [Order -> OrderDoc]
  BY DEF IInv, TypeOK
<1>2. /\ tx[o][i].kind = "burn" /\ tx[o][i].status \in {"ok", "paid"} /\ IsLanded(o, i)
      /\ UNCHANGED <<account, lost, s>>
  BY DEF ReleaseRefused, ReleasePaid, LinkFails, LinkRelease, IsBurn, IsLanded, Landed, OutsideOnly
<1>3. PICK status \in Landed : SetTxStatus(o, i, status)
  BY DEF ReleaseRefused, ReleasePaid, LinkFails, LinkRelease, Landed
<1>4. KeepsTxs(o)
  BY <1>1, <1>2, <1>3, StatusKeeps
<1>5. CASE UNCHANGED order
  <2>1. DocInv(o)'
    BY <1>1, <1>4, <1>5, DocKept DEF OrderInv, KeepsHashes
  <2>2. QED
    BY <1>2, <1>3, <1>5, <2>1, SameLanded DEF Landed
<1>6. CASE ~UNCHANGED order
  <2>1. /\ order[o].burn = i
        /\ order' = [order EXCEPT ![o].status = "DELIVERED", ![o].release = i]
    BY <1>6 DEF ReleaseRefused, ReleasePaid, LinkFails, LinkRelease
  <2>2. /\ order'[o].swap = order[o].swap /\ order'[o].burn = order[o].burn
        /\ order'[o].status = "DELIVERED" /\ order'[o].release = i
        /\ \A d \in Order \ {o} : order'[d] = order[d]
    BY <1>1, <2>1 DEF OrderDoc
  <2>3. order[o].burn # 0
    BY <1>1, <2>1, NoneAtZero
  <2>4. tx'[o][i].status = "linked"
    BY <1>1, <1>6, StatusSet DEF ReleaseRefused, ReleasePaid, LinkFails, LinkRelease, Landed
  <2>5. DocInv(o)'
    BY <1>1, <1>2, <1>4, <2>1, <2>2, <2>3, <2>4 DEF OrderInv, DocInv, KeepsTxs, IsLanded
  <2>6. QED
    BY <1>2, <1>3, <2>2, <2>5, SameLanded DEF Landed
<1>7. QED
  BY <1>5, <1>6

\* While no hash is forgotten there is one transaction of each kind.
LEMMA OnlyOne ==
    ASSUME TypeOK, NEW o \in Order, OrderInv(o), NothingLost(o),
           NEW i \in DOMAIN tx[o], NEW j \in DOMAIN tx[o], tx[o][i].kind = tx[o][j].kind
    PROVE  i = j
<1>1. Known(o, i) /\ Known(o, j) /\ i # 0 /\ j # 0
  BY NoneAtZero DEF OrderInv, KnownInv
<1>2. At(o, "record") => Filed(o, s.kind) = 0
  BY DEF OrderInv, WorkerInv, At
<1>3. QED
  BY <1>1, <1>2 DEF Known

LEMMA LandMoney ==
    ASSUME IInv, NEW o \in Order, NEW i \in DOMAIN tx[o], tx[o][i].status = "pending",
           Affordable(o, tx[o][i].kind, tx[o][i].amount), SetTxStatus(o, i, "ok"),
           UNCHANGED lost,
           tx[o][i].kind = "swap" =>
               account'[o].wfair = account[o].wfair + Rate * tx[o][i].amount,
           tx[o][i].kind = "burn" =>
               /\ account'[o].usdc = account[o].usdc
               /\ account'[o].wfair = account[o].wfair - tx[o][i].amount
    PROVE  MoneyInv(o)'
<1>1. TypeOK /\ OrderInv(o) /\ ~IsLanded(o, i)
  BY DEF IInv, IsLanded, Landed
<1>2. /\ Swaps(o)' = Swaps(o) /\ Burns(o)' = Burns(o) /\ IsLanded(o, i)'
      /\ \A j \in DOMAIN tx[o] :
                 /\ tx'[o][j].amount = tx[o][j].amount
                 /\ IsLanded(o, j) => IsLanded(o, j)'
  BY <1>1, StatusKeeps DEF Landed
<1>3. SUFFICES ASSUME NothingLost(o)
               PROVE  MoneyInv(o)'
  BY DEF MoneyInv, NothingLost
<1>4. /\ Swaps(o) \subseteq DOMAIN tx[o] /\ Burns(o) \subseteq DOMAIN tx[o]
      /\ \A j \in Swaps(o) : tx[o][j].kind = "swap"
      /\ \A j \in Burns(o) : tx[o][j].kind = "burn"
  BY DEF Swaps, Burns
<1>5. account[o].wfair \in Nat /\ tx[o][i].kind \in Kinds
      /\ \A j \in DOMAIN tx[o] : tx[o][j].amount \in Nat /\ Rate * tx[o][j].amount \in Nat
  BY <1>1, OrderFields, TxFields, BuyAssumption
<1>6. MoneyInv(o)
  BY <1>1 DEF OrderInv
<1>7. CASE tx[o][i].kind = "swap"
  <2>1. Swaps(o) = {i}
    BY <1>1, <1>3, <1>4, <1>7, OnlyOne DEF Swaps
  <2>2. Burns(o) = {} /\ account[o].wfair = 0 /\ tx[o][i].amount > 0
    BY <1>1, <1>3, <1>6, <2>1 DEF MoneyInv
  <2>3. account'[o].wfair = Rate * tx[o][i].amount
    BY <1>5, <1>7, <2>2
  <2>4. QED
    BY <1>2, <2>1, <2>2, <2>3 DEF MoneyInv
<1>8. CASE tx[o][i].kind = "burn"
  <2>1. Burns(o) = {i}
    BY <1>1, <1>3, <1>4, <1>8, OnlyOne DEF Burns
  <2>2. account[o].wfair >= tx[o][i].amount /\ tx[o][i].amount > 0
    BY <1>8 DEF Affordable
  <2>3. PICK j \in Swaps(o) : IsLanded(o, j)
    <3>1. account[o].wfair # 0
      BY <1>4, <1>5, <2>2
    <3>2. QED
      BY <1>3, <1>6, <3>1 DEF MoneyInv
  <2>4. account[o].wfair = Rate * tx[o][j].amount /\ tx[o][i].amount = Rate * tx[o][j].amount
    BY <1>1, <1>3, <1>6, <2>1, <2>3 DEF MoneyInv
  <2>5. account'[o].wfair = 0 /\ account'[o].usdc = account[o].usdc
    BY <1>5, <1>8, <2>4
  <2>6. \A k \in Swaps(o) : /\ tx[o][k].amount > 0 /\ IsLanded(o, k)
                            /\ tx[o][i].amount = Rate * tx[o][k].amount
    BY <1>3, <1>6, <2>1 DEF MoneyInv
  <2>7. QED
    BY <1>2, <1>4, <2>1, <2>5, <2>6 DEF MoneyInv
<1>9. QED
  BY <1>5, <1>7, <1>8 DEF Kinds

LEMMA LandInv ==
    ASSUME IInv, NEW o \in Order, NEW i \in DOMAIN tx[o], Mine(o, i),
           Affordable(o, tx[o][i].kind, tx[o][i].amount)
    PROVE  PlaceInv' /\ \A d \in Order : OrderInv(d)'
<1>1. TypeOK /\ OrderInv(o)
  BY DEF IInv
<1>2. /\ tx[o][i].status = "pending" /\ SetTxStatus(o, i, "ok") /\ UNCHANGED <<order, lost, s>>
      /\ ~IsLanded(o, i)
  BY DEF Mine, NextToMine, OutsideOnly, IsLanded, Landed
<1>3. tx[o][i].kind \in Kinds /\ tx[o][i].amount \in Nat
  BY <1>1, TxFields
<1>4. /\ \A d \in Order \ {o} : account'[d] = account[d]
      /\ tx[o][i].kind = "swap" =>
            account'[o].wfair = account[o].wfair + Rate * tx[o][i].amount
      /\ tx[o][i].kind = "burn" =>
            /\ account'[o].usdc = account[o].usdc
            /\ account'[o].wfair = account[o].wfair - tx[o][i].amount
  BY <1>1, MinedType
<1>5. KeepsTxs(o) /\ \A d \in Order \ {o} : tx'[d] = tx[d]
  BY <1>1, <1>2, StatusKeeps DEF Landed
<1>6. DocInv(o)'
  BY <1>1, <1>2, <1>5, DocKept DEF OrderInv, KeepsHashes
<1>7. WorkerInv(o)' /\ KnownInv(o)' /\ CountInv(o)'
  BY <1>2, OutsideKeeps DEF Landed
<1>8. MoneyInv(o)'
  BY <1>2, <1>4, LandMoney
<1>9. BurnsAllInv(o)'
  <2> SUFFICES ASSUME NothingLost(o), order[o].burn = 0, s.o = o, s.kind = "burn",
                      s.pc \in {"claimburn", "send"}
               PROVE  FALSE
    BY <1>2 DEF BurnsAllInv, NothingLost
  <2>1. order[o].swap # 0 /\ IsLanded(o, order[o].swap)
    BY <1>1 DEF OrderInv, WorkerInv
  <2>2. i = Filed(o, tx[o][i].kind)
    BY <1>1 DEF OrderInv, KnownInv, Known, At
  <2>3. QED
    BY <1>1, <1>2, <1>3, <2>1, <2>2, NoneAtZero DEF Filed, Kinds
<1>10. FailedInv(o)'
  BY <1>1, <1>2 DEF OrderInv, FailedInv, NothingLost
<1>11. OrderInv(o)'
  BY <1>6, <1>7, <1>8, <1>9, <1>10 DEF OrderInv
<1>12. ASSUME NEW d \in Order \ {o}
       PROVE  OrderInv(d)'
  BY <1>2, <1>4, <1>5, <1>12, Untouched DEF IInv
<1>13. PlaceInv'
  BY <1>2 DEF IInv, PlaceInv
<1>14. QED
  BY <1>11, <1>12, <1>13

LEMMA OutsideInv ==
    ASSUME IInv, NEW o \in Order, OutsideStep(o) \/ OutsideFails(o)
    PROVE  PlaceInv' /\ \A d \in Order : OrderInv(d)'
<1>1. ASSUME NEW i \in DOMAIN tx[o], Mine(o, i)
      PROVE  PlaceInv' /\ \A d \in Order : OrderInv(d)'
  <2>1. CASE Affordable(o, tx[o][i].kind, tx[o][i].amount)
    BY <1>1, <2>1, LandInv
  <2>2. CASE ~Affordable(o, tx[o][i].kind, tx[o][i].amount)
    BY <1>1, <2>2, RevertInv DEF Mine, NextToMine, OutsideOnly
  <2>3. QED
    BY <2>1, <2>2
<1>2. ASSUME NEW i \in DOMAIN tx[o], MineReverted(o, i)
      PROVE  PlaceInv' /\ \A d \in Order : OrderInv(d)'
  BY <1>2, RevertInv DEF MineReverted, NextToMine, OutsideOnly
<1>3. QED
  BY <1>1, <1>2, ReleaseInv DEF OutsideStep, OutsideFails

LEMMA ProcessInv ==
    ASSUME IInv, Crash \/ Start
    PROVE  PlaceInv' /\ \A o \in Order : OrderInv(o)'
<1>1. s' \in {SIdle, SOff} /\ UNCHANGED <<order, chain>>
  BY DEF Crash, Start
<1>2. CASE s.pc = "record" /\ Crash
  <2>1. s.o \in Order
    BY <1>2 DEF IInv, PlaceInv
  <2>2. PICK o \in Order : o = s.o
    BY <2>1
  <2>3. QED
    BY <1>1, <1>2, <2>2, HashLost DEF Crash, At
<1>3. CASE s.pc # "record" \/ Start
  <2>1. UNCHANGED lost /\ s.pc # "record"
    BY <1>3 DEF Crash, Start, IInv, DownInv, SOff, SIdle
  <2>2. s'.o = 0 /\ s'.pc \in {"off", "idle"} /\ 0 \notin Order
    BY <1>1, WorkerFields DEF SIdle, SOff, IInv
  <2>3. ASSUME NEW o \in Order
        PROVE  OrderInv(o)'
    BY <1>1, <2>1, <2>2, Untouched DEF IInv, At, chain
  <2>4. QED
    BY <2>2, <2>3 DEF PlaceInv
<1>4. QED
  BY <1>2, <1>3

LEMMA DownStep ==
    ASSUME DownInv, [Next]_vars
    PROVE  DownInv'
<1>1. CASE UNCHANGED vars
  BY <1>1 DEF DownInv, vars
<1>2. CASE WatcherStep \/ TickError \/ \E o \in Order : BalanceUnknown(o) \/ JobStalls(o)
  <2>1. UNCHANGED <<s, up>>
    BY <1>2 DEF WatcherStep, TickError, BalanceUnknown, JobStalls, ExpireStaleOrders,
       ListAwaiting, InspectBalance, ClaimDetection, EnqueueBuy, EndTick, WatcherOnly
  <2>2. QED
    BY <2>1 DEF DownInv
<1>3. ASSUME NEW o \in Order, SignerProgress(o) \/ SignerFails(o)
      PROVE  DownInv'
  <2>1. UNCHANGED up
    BY <1>3
    DEF SignerProgress, SignerFails, TakeJob, LoadOrder, ReadBalance, EnsureGas,
        EnsureAllowance, SendTx, SendRejected, RecordHash, AwaitSwap, EnterBurn, AwaitBurn,
        AwaitReverted, EndJob, SendUnanswered, RecordFails, StepFails, SignerOnly
  <2>2. s.pc # "off" \/ s.o = o
    BY <1>3
    DEF SignerProgress, SignerFails, TakeJob, LoadOrder, ReadBalance, EnsureGas,
        EnsureAllowance, SendTx, SendRejected, RecordHash, AwaitSwap, EnterBurn, AwaitBurn,
        AwaitReverted, EndJob, SendUnanswered, RecordFails, StepFails, At, Broadcast
  <2>3. s # SOff
    BY <2>2, BuyAssumption DEF SOff, WIdle, SIdle, Order
  <2>4. QED
    BY <2>1, <2>3 DEF DownInv
<1>4. ASSUME NEW o \in Order, OutsideStep(o) \/ OutsideFails(o) \/ Customer(o)
      PROVE  DownInv'
  <2>1. UNCHANGED <<s, up>>
    BY <1>4 DEF OutsideStep, OutsideFails, Customer, Mine, ReleaseRefused, ReleasePaid, LinkRelease,
       MineReverted, LinkFails, Quote, Pay, QuoteLapses, OutsideOnly
  <2>2. QED
    BY <2>1 DEF DownInv
<1>5. CASE Crash \/ Start
  BY <1>5 DEF Crash, Start, DownInv
<1>6. QED
  BY <1>1, <1>2, <1>3, <1>4, <1>5 DEF Next

-----------------------------------------------------------------------------
(***************************************************************************)
(* The theorems.                                                           *)
(***************************************************************************)
LEMMA InitInv == Init => IInv
<1> SUFFICES ASSUME Init
             PROVE  IInv
  OBVIOUS
<1>1. TypeOK /\ PlaceInv /\ DownInv
  BY InitType DEF Init, PlaceInv, DownInv, SIdle
<1>2. ASSUME NEW o \in Order
      PROVE  OrderInv(o)
  <2>1. /\ order[o] = NoOrder /\ tx[o] = <<>> /\ s = SIdle
        /\ account[o] = [paid |-> 0, usdc |-> 0, wfair |-> 0, allowance |-> 0]
        /\ lost[o]["swap"] = 0 /\ lost[o]["burn"] = 0
    BY DEF Init
  <2>2. /\ order[o].status = "none" /\ order[o].swap = 0 /\ order[o].burn = 0
        /\ order[o].release = 0 /\ account[o].wfair = 0
    BY <2>1 DEF NoOrder
  <2>3. s.pc = "idle" /\ s.o = 0 /\ 0 \notin Order /\ DOMAIN tx[o] = {}
    BY <2>1, BuyAssumption DEF SIdle, Order
  <2>4. DocInv(o) /\ WorkerInv(o) /\ KnownInv(o) /\ BurnsAllInv(o) /\ FailedInv(o)
    BY <2>2, <2>3 DEF DocInv, WorkerInv, KnownInv, BurnsAllInv, FailedInv
  <2>5. MoneyInv(o)
    BY <2>2, <2>3 DEF MoneyInv, Swaps, Burns
  <2>6. CountInv(o)
    <3>1. ASSUME NEW kind \in Kinds
          PROVE  CountTx(o, kind) = 0
      <4>1. {i \in DOMAIN tx[o] : tx[o][i].kind = kind} = {}
        BY <2>3
      <4>2. QED
        BY <4>1, FS_EmptySet DEF CountTx
    <3>2. QED
      BY <2>1, <2>2, <2>3, <3>1 DEF CountInv, InHand, OnFile, At, Kinds
  <2>7. QED
    BY <2>4, <2>5, <2>6 DEF OrderInv
<1>3. QED
  BY <1>1, <1>2 DEF IInv

LEMMA StepInv == IInv /\ [Next]_vars => IInv'
<1> SUFFICES ASSUME IInv, [Next]_vars
             PROVE  IInv'
  OBVIOUS
<1>1. TypeOK' /\ DownInv'
  BY StepType, DownStep DEF IInv
<1>2. PlaceInv' /\ \A o \in Order : OrderInv(o)'
  <2>1. CASE UNCHANGED vars
    BY <2>1, AsideStep DEF vars, chain
  <2>2. ASSUME NEW o \in Order, SignerProgress(o) \/ SignerFails(o)
        PROVE  PlaceInv' /\ \A d \in Order : OrderInv(d)'
    BY <2>2, TakeInv, LoadInv, SwapSideInv, SendInv, EndInv, RecordInv, AwaitSwapInv,
       EnterBurnInv, AwaitBurnInv, AwaitRevertedInv, SendUnansweredInv
    DEF SignerProgress, SignerFails
  <2>3. QED
    BY <2>1, <2>2, WatcherInv, CustomerInv, OutsideInv, ProcessInv DEF Next
<1>3. QED
  BY <1>1, <1>2 DEF IInv

\* The inductive invariant holds of every state the sale can reach.
THEOREM Invariance == Spec => []IInv
BY InitInv, StepInv, PTL DEF Spec

\* Every document, job, transaction and local variable has its type.
THEOREM TypeCorrect == Spec => []TypeOK
<1>1. IInv => TypeOK
  BY DEF IInv
<1>2. QED
  BY <1>1, Invariance, PTL

\* Whatever is retried, stalled, killed or answered too late, each swap and each burn
\* sent for an order is on file, about to be filed, or forgotten by a failure: the
\* idempotency of processBuy.
THEOREM TxsAreAccountedFor == Spec => []TxsAccountedFor
<1>1. IInv => TxsAccountedFor
  BY DEF IInv, OrderInv, CountInv, TxsAccountedFor
<1>2. QED
  BY <1>1, Invariance, PTL

\* DELIVERING and DELIVERED are written only over a swap and a burn that succeeded,
\* and the burn took what the swap bought (executeBurn, linkReleaseToBuyOrder).
THEOREM DeliveredIsBurned == Spec => []DeliveringMeansBurned
<1>1. ASSUME IInv, NEW o \in Order, order[o].status \in {"DELIVERING", "DELIVERED"}
      PROVE  LET swap == order[o].swap
                 burn == order[o].burn
             IN  /\ swap # 0 /\ tx[o][swap].status \in Landed
                 /\ burn # 0 /\ tx[o][burn].status \in Landed
                 /\ order[o].release \in {0, burn}
                 /\ order[o].release # 0 => tx[o][burn].status = "linked"
                 /\ order[o].status = "DELIVERED" => order[o].release = burn
                 /\ NothingLost(o) => /\ account[o].wfair = 0
                                      /\ tx[o][burn].amount = Rate * tx[o][swap].amount
  <2> DEFINE swap == order[o].swap
             burn == order[o].burn
  <2>1. DocInv(o) /\ MoneyInv(o)
    BY <1>1 DEF IInv, OrderInv
  <2>2. /\ swap # 0 /\ IsLanded(o, swap) /\ burn # 0 /\ IsLanded(o, burn)
        /\ tx[o][swap].kind = "swap" /\ tx[o][burn].kind = "burn"
        /\ order[o].release \in {0, burn}
        /\ order[o].release # 0 => tx[o][burn].status = "linked"
        /\ order[o].status = "DELIVERED" => order[o].release = burn
    BY <1>1, <2>1 DEF DocInv
  <2>3. swap \in Swaps(o) /\ burn \in Burns(o)
    BY <2>2 DEF Swaps, Burns, IsLanded
  <2>4. NothingLost(o) => /\ account[o].wfair = 0
                          /\ tx[o][burn].amount = Rate * tx[o][swap].amount
    BY <2>1, <2>2, <2>3 DEF MoneyInv
  <2>5. QED
    BY <2>2, <2>4 DEF IsLanded
<1>2. IInv => DeliveringMeansBurned
  BY <1>1 DEF DeliveringMeansBurned
<1>3. QED
  BY <1>2, Invariance, PTL

\* A customer who is told that the order FAILED got no FAIR, gets none later, and the
\* funds are at the payment address, as long as no hash was forgotten.
THEOREM FailedIsUndelivered == Spec => []FailedDeliversNothing
<1>1. IInv => FailedDeliversNothing
  BY DEF IInv, OrderInv, FailedInv, Burns, FailedDeliversNothing
<1>2. QED
  BY <1>1, Invariance, PTL
=============================================================================
