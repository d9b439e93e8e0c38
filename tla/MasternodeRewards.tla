-------------------------- MODULE MasternodeRewards ---------------------------
(***************************************************************************)
(* workers/masternode-reward-worker.ts: shares out the FAIR received at    *)
(* the reward address among the enabled masternodes, one sendtoaddress per *)
(* masternode, in cycles stored in MongoDB.  A tick is run by the worker's *)
(* loop and by POST /masternode-rewards/trigger of api/admin.ts; nothing   *)
(* keeps the two apart.  One step per awaited call whose moment matters; a *)
(* call that rejects ends the payout or the tick.                          *)
(***************************************************************************)
EXTENDS Integers, FiniteSetsExt

CONSTANTS
    Runners,       \* who runs ticks: the loop, the admin endpoint
    Loop,          \* the one of them that never stops running ticks
    NumNodes,      \* masternodes on the chain
    NumCycles,     \* bound: cycles that are ever stored
    MinBalance,    \* MASTERNODE_REWARDS_MIN_BALANCE_FAIR, in sats
    PayoutFee,     \* MASTERNODE_REWARDS_PAYOUT_FEE_FAIR, in sats
    Income,        \* sats that reach the reward address at a time
    MaxReceived,   \* bound: sats that ever reach it
    MaxUpsets,     \* bound: failed calls, kills and overlaps, in all
    MaxOverlaps    \* bound: ticks that begin while another one runs

Node == 1..NumNodes
Cycle == 1..NumCycles

ASSUME RewardAssumption ==
    /\ Loop \in Runners /\ IsFiniteSet(Runners)
    /\ {NumNodes, NumCycles, MinBalance, PayoutFee, Income, MaxReceived, MaxUpsets,
        MaxOverlaps} \subseteq Nat

VARIABLES
    cycle,      \* cycle[c]: the c-th document of masternode_reward_cycles
    received,   \* getreceivedbyaddress: all the address ever received
    up,         \* whether the process runs
    t,          \* t[r]: the tick that runner r is in and its local variables
    sends,      \* sends[c][n]: payments the node made for payout n of cycle c
    lost,       \* history: those whose txid the service forgot
    upsets,     \* failed calls and kills so far
    overlaps    \* ticks that began while another one was running

vars == <<cycle, received, up, t, sends, lost, upsets, overlaps>>

(***************************************************************************)
(* A payout's txid is the ordinal of the payment it names, 0 for null.     *)
(* recent says that triggeredAt is less than an interval ago.  SKIPPED     *)
(* stands for the three SKIPPED_ statuses; no code assigns PENDING to a    *)
(* cycle or CONFIRMED to a payout.                                         *)
(***************************************************************************)
PayoutStatus == {"none", "PENDING", "BROADCAST", "FAILED"}
Payout == [status : PayoutStatus, txid : Nat]
NoPayout == [status |-> "none", txid |-> 0]

CycleStatus == {"none", "PAYING_OUT", "COMPLETE", "FAILED", "SKIPPED"}
CycleDoc == [status : CycleStatus, recent : BOOLEAN, pool : Nat, share : Nat,
             payouts : [Node -> Payout]]
NoCycle == [status |-> "none", recent |-> FALSE, pool |-> 0, share |-> 0,
            payouts |-> [n \in Node |-> NoPayout]]

(***************************************************************************)
(* pc: idle, gate, read, create, fetch, pay (the head of executeCycle's    *)
(* loop), record, mark, fail; off when the process is down.  c is the      *)
(* cycle at hand, read its payouts as the tick read them, todo those it    *)
(* has still to handle, pool and nodes what the node answered.             *)
(***************************************************************************)
TickPc == {"off", "idle", "gate", "read", "create", "fetch", "pay", "record", "mark",
           "fail"}
TickState == [pc : TickPc, c : 0..NumCycles, read : [Node -> Payout],
              todo : SUBSET Node, txid : Nat, failed : BOOLEAN,
              pool : Nat, nodes : SUBSET Node]

Idle == [pc |-> "idle", c |-> 0, read |-> [n \in Node |-> NoPayout], todo |-> {},
         txid |-> 0, failed |-> FALSE, pool |-> 0, nodes |-> {}]
Off == [Idle EXCEPT !.pc = "off"]

TypeOK ==
    /\ cycle \in [Cycle -> CycleDoc]
    /\ received \in 0..MaxReceived
    /\ up \in BOOLEAN
    /\ t \in [Runners -> TickState]
    /\ sends \in [Cycle -> [Node -> Nat]]
    /\ lost \in [Cycle -> [Node -> Nat]]
    /\ upsets \in 0..MaxUpsets
    /\ overlaps \in 0..MaxOverlaps

Init ==
    /\ cycle = [c \in Cycle |-> NoCycle]
    /\ received = 0
    /\ up = TRUE
    /\ t = [r \in Runners |-> Idle]
    /\ sends = [c \in Cycle |-> [n \in Node |-> 0]]
    /\ lost = [c \in Cycle |-> [n \in Node |-> 0]]
    /\ upsets = 0
    /\ overlaps = 0

Fault == upsets < MaxUpsets /\ upsets' = upsets + 1

\* Bound: a tick that begins while another one runs counts for two upsets.
Overlap ==
    /\ overlaps < MaxOverlaps /\ overlaps' = overlaps + 1
    /\ upsets + 2 <= MaxUpsets /\ upsets' = upsets + 2

Running(r) == t[r].pc \notin {"off", "idle"}
In(r, pc) == t[r].pc = pc
Become(r, state) == t' = [t EXCEPT ![r] = state]
Goto(r, pc) == Become(r, [t[r] EXCEPT !.pc = pc])

-----------------------------------------------------------------------------
(***************************************************************************)
(* runMasternodeRewardTick.                                                *)
(***************************************************************************)

\* Mutant: only a cycle without payouts yet is resumed.
Resumable_Mutant(c) == cycle[c].status = "PENDING"

Resumable(c) == cycle[c].status = "PAYING_OUT"

\* executeCycle starts from the payouts as they were read.
Unpaid(payouts) ==
    {n \in Node : /\ payouts[n].status # "none"
                  /\ ~(payouts[n].txid # 0 /\ payouts[n].status = "BROADCAST")}

Executing(c) == [Idle EXCEPT !.pc = "pay", !.c = c, !.read = cycle[c].payouts,
                             !.todo = Unpaid(cycle[c].payouts)]

\* claimResumableCycle: the oldest cycle that is PAYING_OUT, which stays so.
StartTick(r) ==
    /\ up /\ In(r, "idle")
    /\ LET open == {c \in Cycle : Resumable(c)}
       IN  Become(r, IF open = {} THEN [Idle EXCEPT !.pc = "gate"]
                                  ELSE Executing(Min(open)))
    /\ IF \E q \in Runners : Running(q)
       THEN Overlap
       ELSE UNCHANGED <<overlaps, upsets>>
    /\ UNCHANGED <<cycle, received, up, sends, lost>>

HasRecentCycle == \E c \in Cycle : cycle[c].recent

\* Bound: a tick that would need one more cycle than there are ends here.
Free == {c \in Cycle : cycle[c].status = "none"}
Room == Cardinality(Free) > Cardinality({q \in Runners : t[q].pc \in {"read", "create"}})

CadenceGate(r) ==
    /\ In(r, "gate")
    /\ Become(r, IF HasRecentCycle \/ ~Room THEN Idle ELSE [t[r] EXCEPT !.pc = "read"])
    /\ UNCHANGED <<cycle, received, up, sends, lost, upsets, overlaps>>

\* The node lists any of the masternodes as enabled.
ReadPool(r) ==
    /\ In(r, "read")
    /\ \E nodes \in SUBSET Node :
          Become(r, [t[r] EXCEPT !.pc = "create", !.pool = received, !.nodes = nodes])
    /\ UNCHANGED <<cycle, received, up, sends, lost, upsets, overlaps>>

\* Mutant: the fee budget is not set aside.
PerMasternodeSats_NoFee(pool, count) ==
    IF pool <= PayoutFee * count THEN 0 ELSE pool \div count

PerMasternodeSats(pool, count) ==
    IF pool <= PayoutFee * count THEN 0 ELSE (pool - PayoutFee * count) \div count

NewCycle(status, pool, share, nodes) ==
    [status |-> status, recent |-> TRUE, pool |-> pool, share |-> share,
     payouts |-> [n \in Node |-> IF n \in nodes
                                 THEN [status |-> "PENDING", txid |-> 0]
                                 ELSE NoPayout]]

\* recordSkip, or the insertion of a cycle with its payouts.
CreateCycle(r) ==
    LET pool == t[r].pool
        nodes == t[r].nodes
        count == Cardinality(nodes)
        share == PerMasternodeSats(pool, count)
    IN  /\ In(r, "create")
        /\ IF pool < MinBalance \/ count = 0
           THEN /\ cycle' = [cycle EXCEPT ![Min(Free)] = NewCycle("SKIPPED", pool, 0, {})]
                /\ Become(r, Idle)
           ELSE IF share <= 0
           THEN /\ cycle' = [cycle EXCEPT ![Min(Free)] = NewCycle("SKIPPED", pool, share, {})]
                /\ Become(r, Idle)
           ELSE /\ cycle' = [cycle EXCEPT ![Min(Free)] =
                                NewCycle("PAYING_OUT", pool, share, nodes)]
                /\ Become(r, [t[r] EXCEPT !.pc = "fetch", !.c = Min(Free)])
    /\ UNCHANGED <<received, up, sends, lost, upsets, overlaps>>

FetchCycle(r) ==
    /\ In(r, "fetch")
    /\ Become(r, Executing(t[r].c))
    /\ UNCHANGED <<cycle, received, up, sends, lost, upsets, overlaps>>

-----------------------------------------------------------------------------
(***************************************************************************)
(* executeCycle, for the payouts in order.                                 *)
(***************************************************************************)
IsNext(r, n) == n \in t[r].todo /\ \A k \in t[r].todo : n <= k

Handled(r, n, failed) ==
    Become(r, [t[r] EXCEPT !.pc = "pay", !.todo = @ \ {n}, !.txid = 0,
                           !.failed = @ \/ failed])

SetPayout(r, n, payout) == cycle' = [cycle EXCEPT ![t[r].c].payouts[n] = payout]
SetStatus(r, n, status) == cycle' = [cycle EXCEPT ![t[r].c].payouts[n].status = status]

\* Mutant: every payout that is not BROADCAST is sent.
ToSend_Mutant(payout) == payout.status # "BROADCAST"

\* A payout read without a txid is sent, one marked FAILED included.
ToSend(payout) == payout.txid = 0

\* A payout read with a txid is looked up and never sent again.
ReconcilePayout(r, n) ==
    /\ In(r, "pay") /\ IsNext(r, n) /\ ~ToSend(t[r].read[n])
    /\ \/ /\ SetPayout(r, n, [status |-> "BROADCAST", txid |-> t[r].read[n].txid])
          /\ Handled(r, n, FALSE)
          /\ UNCHANGED upsets
       \/ /\ Fault
          /\ SetStatus(r, n, "FAILED")
          /\ Handled(r, n, TRUE)
    /\ UNCHANGED <<received, up, sends, lost, overlaps>>

AddTo(counter, r, n) == counter' = [counter EXCEPT ![t[r].c][n] = @ + 1]

SendPayout(r, n) ==
    /\ In(r, "pay") /\ IsNext(r, n) /\ ToSend(t[r].read[n])
    /\ AddTo(sends, r, n)
    /\ Become(r, [t[r] EXCEPT !.pc = "record", !.txid = sends[t[r].c][n] + 1])
    /\ UNCHANGED <<cycle, received, up, lost, upsets, overlaps>>

\* sendtoaddress rejects, having paid or not.
SendFails(r, n) ==
    /\ In(r, "pay") /\ IsNext(r, n) /\ ToSend(t[r].read[n])
    /\ Fault
    /\ Goto(r, "fail")
    /\ \/ UNCHANGED <<sends, lost>>
       \/ AddTo(sends, r, n) /\ AddTo(lost, r, n)
    /\ UNCHANGED <<cycle, received, up, overlaps>>

SetTxid(r, n) == cycle' = [cycle EXCEPT ![t[r].c].payouts[n].txid = t[r].txid]
SetBroadcast(r, n) == SetPayout(r, n, [status |-> "BROADCAST", txid |-> t[r].txid])

PersistPayoutTxid(r, n) ==
    /\ In(r, "record") /\ IsNext(r, n)
    /\ SetTxid(r, n)
    /\ Goto(r, "mark")
    /\ UNCHANGED <<received, up, sends, lost, upsets, overlaps>>

MarkPayoutBroadcast(r, n) ==
    /\ In(r, "mark") /\ IsNext(r, n)
    /\ SetBroadcast(r, n)
    /\ Handled(r, n, FALSE)
    /\ UNCHANGED <<received, up, sends, lost, upsets, overlaps>>

\* One of the two writes rejects, done or not: the catch of the loop.
WriteFails(r, n) ==
    /\ t[r].pc \in {"record", "mark"} /\ IsNext(r, n)
    /\ Fault
    /\ Become(r, [t[r] EXCEPT !.pc = "fail", !.txid = 0])
    /\ \/ /\ IF In(r, "record") THEN SetTxid(r, n) ELSE SetBroadcast(r, n)
          /\ UNCHANGED lost
       \/ /\ IF In(r, "record") THEN AddTo(lost, r, n) ELSE UNCHANGED lost
          /\ UNCHANGED cycle
    /\ UNCHANGED <<received, up, sends, overlaps>>

MarkPayoutFailed(r, n) ==
    /\ In(r, "fail") /\ IsNext(r, n)
    /\ SetStatus(r, n, "FAILED")
    /\ Handled(r, n, TRUE)
    /\ UNCHANGED <<received, up, sends, lost, upsets, overlaps>>

\* Mutant: the outcome is COMPLETE as soon as nothing is PENDING.
Outcome_Mutant(r) == "COMPLETE"

Outcome(r) == IF t[r].failed THEN "FAILED" ELSE "COMPLETE"

\* The cycle is read again, and closed if no payout is PENDING and nobody
\* else has closed it.
FinaliseCycle(r) ==
    LET c == t[r].c
        allFinal == \A n \in Node : cycle[c].payouts[n].status # "PENDING"
    IN  /\ In(r, "pay") /\ t[r].todo = {}
        /\ IF allFinal /\ cycle[c].status = "PAYING_OUT"
           THEN cycle' = [cycle EXCEPT ![c].status = Outcome(r)]
           ELSE UNCHANGED cycle
        /\ Become(r, Idle)
        /\ UNCHANGED <<received, up, sends, lost, upsets, overlaps>>

\* Any call outside the loop's catch rejects: the tick is over.
TickError(r) ==
    /\ Running(r) /\ t[r].pc \notin {"record", "mark"}
    /\ Fault
    /\ Become(r, Idle)
    /\ UNCHANGED <<cycle, received, up, sends, lost, overlaps>>

-----------------------------------------------------------------------------
(***************************************************************************)
(* The process, the pool and time.                                         *)
(***************************************************************************)

\* A kill: a txid that is only in memory is forgotten.
Holds(r, c, n) == In(r, "record") /\ t[r].c = c /\ IsNext(r, n)

Crash ==
    /\ up /\ Fault
    /\ up' = FALSE
    /\ t' = [r \in Runners |-> Off]
    /\ lost' = [c \in Cycle |-> [n \in Node |->
                  lost[c][n] + Cardinality({r \in Runners : Holds(r, c, n)})]]
    /\ UNCHANGED <<cycle, received, sends, overlaps>>

Start ==
    /\ ~up
    /\ up' = TRUE
    /\ t' = [r \in Runners |-> Idle]
    /\ UNCHANGED <<cycle, received, sends, lost, upsets, overlaps>>

Receive ==
    /\ received + Income <= MaxReceived
    /\ received' = received + Income
    /\ UNCHANGED <<cycle, up, t, sends, lost, upsets, overlaps>>

IntervalPasses ==
    /\ HasRecentCycle
    /\ cycle' = [c \in Cycle |-> [cycle[c] EXCEPT !.recent = FALSE]]
    /\ UNCHANGED <<received, up, t, sends, lost, upsets, overlaps>>

PayoutStep(r, n) ==
    \/ ReconcilePayout(r, n)
    \/ SendPayout(r, n)
    \/ PersistPayoutTxid(r, n)
    \/ MarkPayoutBroadcast(r, n)
    \/ MarkPayoutFailed(r, n)

TickStep(r) ==
    \/ StartTick(r)
    \/ CadenceGate(r)
    \/ ReadPool(r)
    \/ CreateCycle(r)
    \/ FetchCycle(r)
    \/ \E n \in Node : PayoutStep(r, n)
    \/ FinaliseCycle(r)

Next ==
    \/ \E r \in Runners : TickStep(r)
    \/ \E r \in Runners, n \in Node : SendFails(r, n)
    \/ \E r \in Runners, n \in Node : WriteFails(r, n)
    \/ \E r \in Runners : TickError(r)
    \/ Crash
    \/ Start
    \/ Receive
    \/ IntervalPasses

Spec == Init /\ [][Next]_vars

\* The loop runs a tick again and again, a tick that began goes on, and
\* systemd restarts the service; nobody need ever use the admin endpoint.
FairSpec ==
    /\ Spec
    /\ WF_vars(TickStep(Loop))
    /\ \A r \in Runners : WF_vars(Running(r) /\ TickStep(r))
    /\ WF_vars(Start)

-----------------------------------------------------------------------------
(***************************************************************************)
(* Properties.  Nothing keeps two ticks apart: claimResumableCycle also    *)
(* matches a cycle that another tick is paying out, against its comment.   *)
(* The properties say how much a tick that overlaps may add, and no more.  *)
(***************************************************************************)
Alone == overlaps = 0

HandHeld(c, n) == Cardinality({r \in Runners : Holds(r, c, n)})
OnFile(c, n) == IF cycle[c].payouts[n].txid = 0 THEN 0 ELSE 1

\* Every payment the node made for a payout is the one on file, or one that
\* a tick is about to file, or one whose txid a failure lost, or the second
\* one of a tick that overlapped: whatever calls fail and wherever the
\* process dies, a payout with a txid is never sent again (executeCycle, the
\* header's idempotency contract).
PayoutsAccountedFor ==
    \A c \in Cycle, n \in Node :
        sends[c][n] - (lost[c][n] + HandHeld(c, n) + OnFile(c, n)) \in 0..overlaps

\* A cycle that is COMPLETE knows, for every masternode it was created for, a
\* transaction that paid it in this attempt or an earlier one; only a tick
\* that overlapped may have left another status beside it.
CompleteMeansPaid ==
    \A c \in Cycle, n \in Node :
        cycle[c].status = "COMPLETE" /\ cycle[c].payouts[n].status # "none"
            => /\ OnFile(c, n) = 1
               /\ Alone => cycle[c].payouts[n].status = "BROADCAST"

\* Failed calls and kills, without the two upsets an overlap counts for.
Mishaps == upsets - 2 * overlaps

\* A share with the fee of its payment, and what the node paid of them for a
\* cycle, the payments the service forgot and made again included.
Price(c) == cycle[c].share + PayoutFee
Spent(c) == Price(c) * MapThenSumSet(LAMBDA n : sends[c][n], Node)

\* What the node pays for a cycle, with the fee of every payment, fits into
\* the pool the cycle was computed from, but for one share more for each
\* failed call and each kill: resuming a cycle repeats nothing else.  A tick
\* that overlaps does at most the same again.
SpentWithinPool ==
    \A c \in Cycle : Spent(c) <= (1 + overlaps) * (cycle[c].pool + Price(c) * Mishaps)

\* Every cycle that began to pay is closed: the loop resumes it after any
\* failed call and any restart.
EveryCycleEnds ==
    \A c \in Cycle : cycle[c].status = "PAYING_OUT"
                       ~> cycle[c].status \in {"COMPLETE", "FAILED"}
=============================================================================
