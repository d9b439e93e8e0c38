------------------------------ MODULE Buyback --------------------------------
(***************************************************************************)
(* workers/buyback-worker.ts: when the bridge's account on Base holds      *)
(* enough USDC, swaps it for WFAIR and bridge-burns the proceeds to three  *)
(* FairCoin addresses, in cycles stored in MongoDB.  runOneCycle is run by *)
(* the worker's loop and by POST /buyback/trigger of api/admin.ts; nothing *)
(* keeps the two apart.  A cycle has four steps, each with one transaction *)
(* whose hash is written before its receipt is awaited: 0 is the swap, 1   *)
(* to 3 are the burns.                                                     *)
(***************************************************************************)
EXTENDS Integers, Sequences, FiniteSetsExt

CONSTANTS
    Runners,       \* who runs cycles: the loop, the admin endpoint
    Loop,          \* the one of them that never stops running ticks
    NumCycles,     \* bound: cycles that are ever stored
    Threshold,     \* BUYBACK_THRESHOLD_USDC
    TreasuryBps,   \* BUYBACK_TREASURY_BPS
    MasternodeBps, \* BUYBACK_MASTERNODE_BPS; BUYBACK_BURN_BPS is the rest
    Rate,          \* WFAIR that the pool gives for a unit of USDC
    Income,        \* USDC that reaches the account at a time
    MaxIncome,     \* bound: how often it does
    MaxUpsets,     \* bound: failed calls, reverts, kills, overlaps, in all
    MaxOverlaps    \* bound: ticks that begin while another one runs

ASSUME BuybackAssumption ==
    /\ Loop \in Runners /\ IsFiniteSet(Runners)
    /\ {NumCycles, Threshold, TreasuryBps, MasternodeBps, Rate, Income, MaxIncome,
        MaxUpsets, MaxOverlaps} \subseteq Nat
    /\ TreasuryBps + MasternodeBps <= 10000

Cycle == 1..NumCycles
Step == 0..3
Burn == 1..3

VARIABLES
    cycle,      \* cycle[c]: the c-th document of buyback_cycles
    tx,         \* tx[c][k]: the transactions sent for step k of cycle c
    usdc,       \* the account's USDC
    wfair,      \* the account's WFAIR
    allowance,  \* what the swap router may take of its USDC
    incomes,    \* how often USDC arrived
    up,         \* whether the process runs
    t,          \* t[r]: the tick that runner r is in and its local variables
    lost,       \* history: lost[c][k] transactions whose hash was forgotten
    upsets,     \* failed calls, reverts and kills so far
    overlaps    \* ticks that began while another one was running

chain == <<tx, usdc, wfair, allowance, incomes>>
vars == <<cycle, chain, up, t, lost, upsets, overlaps>>

\* hash[k] is the place in tx[c][k] of the transaction on file, 0 for null.
Null == -1
StepStatus == [k \in Step |-> CASE k = 0 -> "SWAPPING"
                                [] k = 1 -> "BURNING"
                                [] k = 2 -> "TREASURY_SENDING"
                                [] k = 3 -> "MASTERNODE_SENDING"]
CycleStatus == {"none", "PENDING", "SWAPPING", "BURNING", "TREASURY_SENDING",
                "MASTERNODE_SENDING", "COMPLETE", "FAILED"}
CycleDoc == [status : CycleStatus, usdc : Nat, acquired : Nat \union {Null},
             hash : [Step -> Nat], amount : [Burn -> Nat \union {Null}]]
NoCycle == [status |-> "none", usdc |-> 0, acquired |-> Null,
            hash |-> [k \in Step |-> 0], amount |-> [k \in Burn |-> Null]]

Transaction == [amount : Nat, status : {"pending", "ok", "reverted"}]

(***************************************************************************)
(* c is the cycle at hand, hash and acquired its fields as last read, k    *)
(* the step, fresh whether this tick sent the swap, before the WFAIR       *)
(* balance read before it, sent the transaction at hand, balance the USDC  *)
(* read at the head of the tick.                                           *)
(***************************************************************************)
TickPc == {"off", "idle", "claim", "create", "step", "approve", "before", "send",
           "record", "await", "complete"}
TickState == [pc : TickPc, c : 0..NumCycles, k : Step, hash : [Step -> Nat],
              acquired : Nat \union {Null}, fresh : BOOLEAN, before : Nat,
              sent : Nat, balance : Nat]
Idle == [pc |-> "idle", c |-> 0, k |-> 0, hash |-> [k \in Step |-> 0], acquired |-> Null,
         fresh |-> FALSE, before |-> 0, sent |-> 0, balance |-> 0]
Off == [Idle EXCEPT !.pc = "off"]

TypeOK ==
    /\ cycle \in [Cycle -> CycleDoc]
    /\ tx \in [Cycle -> [Step -> Seq(Transaction)]]
    /\ {usdc, wfair, allowance} \subseteq Nat
    /\ incomes \in 0..MaxIncome
    /\ up \in BOOLEAN
    /\ t \in [Runners -> TickState]
    /\ lost \in [Cycle -> [Step -> Nat]]
    /\ upsets \in 0..MaxUpsets
    /\ overlaps \in 0..MaxOverlaps

Init ==
    /\ cycle = [c \in Cycle |-> NoCycle]
    /\ tx = [c \in Cycle |-> [k \in Step |-> <<>>]]
    /\ usdc = 0 /\ wfair = 0 /\ allowance = 0
    /\ incomes = 0
    /\ up = TRUE
    /\ t = [r \in Runners |-> Idle]
    /\ lost = [c \in Cycle |-> [k \in Step |-> 0]]
    /\ upsets = 0
    /\ overlaps = 0

Fault == upsets < MaxUpsets /\ upsets' = upsets + 1

\* Bound: a tick that begins while another one runs counts for three upsets.
Overlap ==
    /\ overlaps < MaxOverlaps /\ overlaps' = overlaps + 1
    /\ upsets + 3 <= MaxUpsets /\ upsets' = upsets + 3

Running(r) == t[r].pc \notin {"off", "idle"}
In(r, pc) == t[r].pc = pc
Become(r, state) == t' = [t EXCEPT ![r] = state]
Goto(r, pc) == Become(r, [t[r] EXCEPT !.pc = pc])
Local(r) == UNCHANGED <<cycle, chain, up, lost, upsets, overlaps>>

-----------------------------------------------------------------------------
(***************************************************************************)
(* runOneCycle, up to the cycle at hand.                                   *)
(***************************************************************************)

\* Destinations are validated and the USDC balance is read.
StartTick(r) ==
    /\ up /\ In(r, "idle")
    /\ IF \E q \in Runners : Running(q)
       THEN Overlap
       ELSE UNCHANGED <<overlaps, upsets>>
    /\ Become(r, [Idle EXCEPT !.pc = "claim", !.balance = usdc])
    /\ UNCHANGED <<cycle, chain, up, lost>>

\* Mutant: a cycle on its last step is not among the open ones.
Open_Mutant(c) == cycle[c].status \in {"PENDING", "SWAPPING", "BURNING", "TREASURY_SENDING"}

Open(c) == cycle[c].status \notin {"none", "COMPLETE", "FAILED"}

Resume(c) == [Idle EXCEPT !.pc = "step", !.c = c, !.hash = cycle[c].hash,
                          !.acquired = cycle[c].acquired]

\* Bound: a tick that would need one more cycle than there are ends here.
Free == {c \in Cycle : cycle[c].status = "none"}
Room == Cardinality(Free) > Cardinality({q \in Runners : In(q, "create")})

\* Mutant: the open cycles are not looked for.
InFlight_Mutant == {}

InFlight == {c \in Cycle : Open(c)}

ClaimOrLoad(r) ==
    /\ In(r, "claim")
    /\ Become(r, IF InFlight # {} THEN Resume(Min(InFlight))
                 ELSE IF t[r].balance >= Threshold /\ Room
                 THEN [t[r] EXCEPT !.pc = "create"]
                 ELSE Idle)
    /\ Local(r)

CreateCycle(r) ==
    /\ In(r, "create")
    /\ cycle' = [cycle EXCEPT ![Min(Free)].status = "PENDING",
                              ![Min(Free)].usdc = t[r].balance]
    /\ Become(r, [Idle EXCEPT !.pc = "step", !.c = Min(Free)])
    /\ UNCHANGED <<chain, up, lost, upsets, overlaps>>

-----------------------------------------------------------------------------
(***************************************************************************)
(* runSwapStep and runBurnStep.                                            *)
(***************************************************************************)

\* Mutant: the burn share is rounded down like the others.
Share_Mutant(total, k) ==
    (total * (CASE k = 1 -> 10000 - TreasuryBps - MasternodeBps
                [] k = 2 -> TreasuryBps
                [] k = 3 -> MasternodeBps)) \div 10000

\* splitByBps: the burn share takes what the divisions leave.
Share(total, k) ==
    LET treasury == (total * TreasuryBps) \div 10000
        masternode == (total * MasternodeBps) \div 10000
    IN  CASE k = 1 -> total - treasury - masternode
          [] k = 2 -> treasury
          [] k = 3 -> masternode

\* Mutant: a hash on file is not looked at.
HashOnFile_Mutant(r) == 0

HashOnFile(r) == t[r].hash[t[r].k]

\* A step whose hash is on file waits for it; a new one is announced first.
EnterStep(r) ==
    LET c == t[r].c
        k == t[r].k
    IN  /\ In(r, "step")
        /\ IF HashOnFile(r) # 0
           THEN /\ Become(r, [t[r] EXCEPT !.pc = "await", !.sent = HashOnFile(r)])
                /\ UNCHANGED cycle
           ELSE /\ cycle' = [cycle EXCEPT
                      ![c].status = StepStatus[k],
                      ![c].amount = IF k = 0 THEN @
                                    ELSE [@ EXCEPT ![k] = Share(t[r].acquired, k)]]
                /\ Goto(r, IF k = 0 THEN "approve" ELSE "send")
        /\ UNCHANGED <<chain, up, lost, upsets, overlaps>>

\* ensureUsdcApproval, with the receipt of its transaction.
EnsureApproval(r) ==
    /\ In(r, "approve")
    /\ allowance' = IF allowance >= cycle[t[r].c].usdc THEN allowance ELSE cycle[t[r].c].usdc
    /\ Goto(r, "before")
    /\ UNCHANGED <<cycle, tx, usdc, wfair, incomes, up, lost, upsets, overlaps>>

ReadWfairBefore(r) ==
    /\ In(r, "before")
    /\ Become(r, [t[r] EXCEPT !.pc = "send", !.fresh = TRUE, !.before = wfair])
    /\ Local(r)

Amount(r) == IF t[r].k = 0 THEN cycle[t[r].c].usdc ELSE Share(t[r].acquired, t[r].k)

\* The gas estimate of writeContract rejects what would revert.
Affordable(k, amount) ==
    IF k = 0 THEN usdc >= amount /\ allowance >= amount
             ELSE wfair >= amount /\ amount > 0

Broadcast(r) ==
    /\ In(r, "send") /\ Affordable(t[r].k, Amount(r))
    /\ tx' = [tx EXCEPT ![t[r].c][t[r].k] =
                 Append(@, [amount |-> Amount(r), status |-> "pending"])]
    /\ UNCHANGED <<usdc, wfair, allowance, incomes>>

SendTx(r) ==
    /\ Broadcast(r)
    /\ Become(r, [t[r] EXCEPT !.pc = "record", !.sent = Len(tx[t[r].c][t[r].k]) + 1])
    /\ UNCHANGED <<cycle, up, lost, upsets, overlaps>>

\* The attempt throws: the cycle stays as it is for the next tick.
SendRejected(r) ==
    /\ In(r, "send") /\ ~Affordable(t[r].k, Amount(r))
    /\ Become(r, Idle)
    /\ Local(r)

SendUnanswered(r) ==
    /\ Broadcast(r)
    /\ Fault
    /\ Become(r, Idle)
    /\ lost' = [lost EXCEPT ![t[r].c][t[r].k] = @ + 1]
    /\ UNCHANGED <<cycle, up, overlaps>>

FileHash(r) == cycle' = [cycle EXCEPT ![t[r].c].hash[t[r].k] = t[r].sent]

RecordTx(r) ==
    /\ In(r, "record")
    /\ FileHash(r)
    /\ Goto(r, "await")
    /\ UNCHANGED <<chain, up, lost, upsets, overlaps>>

\* The updateOne rejects, done or not, and the tick ends.
RecordFails(r) ==
    /\ In(r, "record")
    /\ Fault
    /\ Become(r, Idle)
    /\ \/ FileHash(r) /\ UNCHANGED lost
       \/ lost' = [lost EXCEPT ![t[r].c][t[r].k] = @ + 1] /\ UNCHANGED cycle
    /\ UNCHANGED <<chain, up, overlaps>>

TxStatus(r) == tx[t[r].c][t[r].k][t[r].sent].status

\* Mutant: the receipt's status is not looked at.
Succeeded_Mutant(r) == TxStatus(r) \in {"ok", "reverted"}

Succeeded(r) == TxStatus(r) = "ok"

\* What the swap brought: its delta, or, for a swap that an earlier tick
\* sent, what is on file or else the whole balance.
Acquired(r) ==
    IF t[r].fresh THEN wfair - t[r].before
    ELSE IF t[r].acquired # Null THEN t[r].acquired
    ELSE wfair

AwaitSwap(r) ==
    /\ In(r, "await") /\ t[r].k = 0 /\ Succeeded(r)
    /\ IF t[r].fresh /\ Acquired(r) <= 0
       THEN /\ cycle' = [cycle EXCEPT ![t[r].c].status = "FAILED"]
            /\ Become(r, Idle)
       ELSE /\ cycle' = [cycle EXCEPT ![t[r].c].acquired = Acquired(r)]
            /\ Become(r, [t[r] EXCEPT !.pc = "step", !.k = 1, !.sent = 0, !.fresh = FALSE,
                             !.before = 0, !.acquired = Acquired(r),
                             !.hash = cycle[t[r].c].hash])
    /\ UNCHANGED <<chain, up, lost, upsets, overlaps>>

LastStep == 3

\* The burn is mined; the cycle is read again for the next one.
AwaitBurn(r) ==
    /\ In(r, "await") /\ t[r].k # 0 /\ Succeeded(r)
    /\ Become(r, IF t[r].k = LastStep THEN [t[r] EXCEPT !.pc = "complete", !.sent = 0]
                 ELSE [t[r] EXCEPT !.pc = "step", !.k = @ + 1, !.sent = 0,
                                   !.hash = cycle[t[r].c].hash])
    /\ Local(r)

AwaitReverted(r) ==
    /\ In(r, "await") /\ TxStatus(r) = "reverted" /\ ~Succeeded(r)
    /\ cycle' = [cycle EXCEPT ![t[r].c].status = "FAILED"]
    /\ Become(r, Idle)
    /\ UNCHANGED <<chain, up, lost, upsets, overlaps>>

CompleteCycle(r) ==
    /\ In(r, "complete")
    /\ cycle' = [cycle EXCEPT ![t[r].c].status = "COMPLETE"]
    /\ Become(r, Idle)
    /\ UNCHANGED <<chain, up, lost, upsets, overlaps>>

\* A call that changes nothing rejects, or a receipt does not come in time.
TickError(r) ==
    /\ Running(r) /\ ~In(r, "record")
    /\ Fault
    /\ Become(r, Idle)
    /\ UNCHANGED <<cycle, chain, up, lost, overlaps>>

-----------------------------------------------------------------------------
(***************************************************************************)
(* Base and the process.                                                   *)
(***************************************************************************)
SetTxStatus(c, k, i, status) == tx' = [tx EXCEPT ![c][k][i].status = status]

MineSwap(c, i) ==
    LET amount == tx[c][0][i].amount
    IN  /\ i \in DOMAIN tx[c][0] /\ tx[c][0][i].status = "pending"
        /\ IF Affordable(0, amount)
           THEN /\ SetTxStatus(c, 0, i, "ok")
                /\ usdc' = usdc - amount
                /\ allowance' = allowance - amount
                /\ wfair' = wfair + Rate * amount
           ELSE SetTxStatus(c, 0, i, "reverted") /\ UNCHANGED <<usdc, wfair, allowance>>
        /\ UNCHANGED <<cycle, incomes, up, t, lost, upsets, overlaps>>

MineBurn(c, k, i) ==
    LET amount == tx[c][k][i].amount
    IN  /\ i \in DOMAIN tx[c][k] /\ tx[c][k][i].status = "pending"
        /\ IF Affordable(k, amount)
           THEN SetTxStatus(c, k, i, "ok") /\ wfair' = wfair - amount
           ELSE SetTxStatus(c, k, i, "reverted") /\ UNCHANGED wfair
        /\ UNCHANGED <<cycle, usdc, allowance, incomes, up, t, lost, upsets, overlaps>>

\* The pool moved beyond the slippage, or WFAIR is paused.
MineReverted(c, k, i) ==
    /\ i \in DOMAIN tx[c][k] /\ tx[c][k][i].status = "pending"
    /\ Fault
    /\ SetTxStatus(c, k, i, "reverted")
    /\ UNCHANGED <<cycle, usdc, wfair, allowance, incomes, up, t, lost, overlaps>>

ReceiveUsdc ==
    /\ incomes < MaxIncome
    /\ incomes' = incomes + 1
    /\ usdc' = usdc + Income
    /\ UNCHANGED <<cycle, tx, wfair, allowance, up, t, lost, upsets, overlaps>>

\* A hash that is only in memory is forgotten.
HandHeld(c, k) == Cardinality({r \in Runners : In(r, "record") /\ t[r].c = c /\ t[r].k = k})

Crash ==
    /\ up /\ Fault
    /\ up' = FALSE
    /\ t' = [r \in Runners |-> Off]
    /\ lost' = [c \in Cycle |-> [k \in Step |-> lost[c][k] + HandHeld(c, k)]]
    /\ UNCHANGED <<cycle, chain, overlaps>>

Start ==
    /\ ~up
    /\ up' = TRUE
    /\ t' = [r \in Runners |-> Idle]
    /\ UNCHANGED <<cycle, chain, lost, upsets, overlaps>>

TickStep(r) ==
    \/ StartTick(r)
    \/ ClaimOrLoad(r)
    \/ CreateCycle(r)
    \/ EnterStep(r)
    \/ EnsureApproval(r)
    \/ ReadWfairBefore(r)
    \/ SendTx(r)
    \/ SendRejected(r)
    \/ RecordTx(r)
    \/ AwaitSwap(r)
    \/ AwaitBurn(r)
    \/ AwaitReverted(r)
    \/ CompleteCycle(r)

Mine(c, k) == \E i \in DOMAIN tx[c][k] : IF k = 0 THEN MineSwap(c, i) ELSE MineBurn(c, k, i)

Next ==
    \/ \E r \in Runners : TickStep(r)
    \/ \E r \in Runners : SendUnanswered(r)
    \/ \E r \in Runners : RecordFails(r)
    \/ \E r \in Runners : TickError(r)
    \/ \E c \in Cycle, k \in Step : Mine(c, k)
    \/ \E c \in Cycle, k \in Step : \E i \in DOMAIN tx[c][k] : MineReverted(c, k, i)
    \/ ReceiveUsdc
    \/ Crash
    \/ Start

Spec == Init /\ [][Next]_vars

\* The loop runs tick after tick, a tick that began goes on, transactions
\* are mined and systemd restarts the service.
FairSpec ==
    /\ Spec
    /\ WF_vars(TickStep(Loop))
    /\ \A r \in Runners : WF_vars(Running(r) /\ TickStep(r))
    /\ \A c \in Cycle, k \in Step : WF_vars(Mine(c, k))
    /\ WF_vars(Start)

-----------------------------------------------------------------------------
(***************************************************************************)
(* Properties.  Nothing keeps two ticks apart: they may resume the same    *)
(* open cycle, and either may write over what the other filed.  What holds *)
(* only without such an overlap says Alone.                                *)
(***************************************************************************)
Alone == overlaps = 0
NothingLost == \A c \in Cycle, k \in Step : lost[c][k] = 0
OnFile(c, k) == IF cycle[c].hash[k] = 0 THEN 0 ELSE 1

\* Every transaction sent for a step is the one on file, or one a tick is
\* about to file, or one whose hash a failure lost, or the second one of a
\* tick that overlapped: a step with a hash on file is awaited and never sent
\* again (runSwapStep, runBurnStep).
TxsAccountedFor ==
    \A c \in Cycle, k \in Step :
        Len(tx[c][k]) - (lost[c][k] + HandHeld(c, k) + OnFile(c, k)) \in 0..overlaps

\* At most one cycle is open, and one more for a tick that overlapped:
\* claimOrLoadInFlightCycle resumes an open cycle before it starts another,
\* after any failure and any restart.
OneOpenCycle == Cardinality({c \in Cycle : Open(c)}) <= 1 + overlaps

\* COMPLETE means what models/buyback-cycle.ts says, "all four chain
\* side-effects confirmed", and that the three burns were made of all the
\* WFAIR on file.
CompleteMeansDistributed ==
    Alone => \A c \in Cycle : cycle[c].status = "COMPLETE" =>
                /\ \A k \in Step : /\ OnFile(c, k) = 1
                                   /\ tx[c][k][cycle[c].hash[k]].status = "ok"
                /\ MapThenSumSet(LAMBDA k : tx[c][k][cycle[c].hash[k]].amount, Burn)
                      = cycle[c].acquired

\* config.ts: slack in the shares "would silently leak WFAIR back into the
\* bridge EOA across cycles".  Unless a cycle failed or a hash was lost, the
\* account has no WFAIR left between cycles: resumed cycles included, what a
\* swap brings is burned to the last wei.
NoWfairLeft ==
    (/\ Alone /\ NothingLost
     /\ \A c \in Cycle : cycle[c].status \in {"none", "COMPLETE"})
        => wfair = 0

Ended(c) == cycle[c].status \in {"COMPLETE", "FAILED"}

\* bridgeBurn rejects an amount of 0.
EmptyShare(c) ==
    cycle[c].acquired # Null /\ \E k \in Burn : Share(cycle[c].acquired, k) = 0

\* However often it is interrupted and resumed, a cycle whose proceeds give
\* each of the three destinations something ends, unless a failure made the
\* service forget a transaction or two ticks overlapped.  Then a share may
\* have been burned twice, or the USDC of one swap be promised to two cycles,
\* and the open cycle is resumed for ever, as one with an empty share is.
BuybackEnds ==
    \A c \in Cycle : cycle[c].status # "none"
        ~> (Ended(c) \/ EmptyShare(c) \/ ~NothingLost \/ ~Alone)
=============================================================================
