----------------------------- MODULE BaseWatcher -----------------------------
(***************************************************************************)
(* workers/base-watcher.ts: scans Base for confirmed BridgeBurn events in  *)
(* bounded windows, records each as a withdrawal, queues its release, and  *)
(* re-queues the withdrawals whose job was lost.  One step per awaited     *)
(* call that changes something; reads are attached to the step that first  *)
(* depends on them.                                                        *)
(***************************************************************************)
EXTENDS Withdrawals, FiniteSetsExt

CONSTANTS
    Confirmations,    \* BASE_CONFIRMATIONS
    MaxLogRange,      \* blocks in one getLogs window
    Backfill,         \* INITIAL_BACKFILL_BLOCKS
    ReconcileLimit,   \* orphans re-queued in one tick, 50 in the code
    MaxTip            \* bound: height the Base chain reaches

ASSUME WatcherAssumption ==
    /\ Confirmations \in Nat
    /\ MaxLogRange \in Nat \ {0}
    /\ Backfill \in Nat
    /\ ReconcileLimit \in Nat
    /\ MaxTip \in Nat

VARIABLES
    tip,      \* height of the Base chain
    cursor,   \* EventCursor "base" in MongoDB, -1 before its first upsert
    origin,   \* history: the cursor the first tick started from
    w         \* the watcher's place in its loop and its local variables

watcherVars == <<cursor, origin, w>>

(***************************************************************************)
(* pc: idle (asleep between ticks), reconcile, window (the head of the     *)
(* while loop), logs (the head of the for loop), create, enqueue; off when *)
(* the process is down.  todo holds the orphans or logs still to handle,   *)
(* safe is safeTip, to is windowTo, verdict is what InspectLog decided.    *)
(***************************************************************************)
WatcherPc == {"off", "idle", "reconcile", "window", "logs", "create", "enqueue"}
Verdict == {"none", "invalid", "overcap", "admit"}

Watcher == [pc : WatcherPc, todo : SUBSET Burn, safe : Nat, to : Nat,
            verdict : Verdict]

WIdle == [pc |-> "idle", todo |-> {}, safe |-> 0, to |-> 0, verdict |-> "none"]
WOff == [WIdle EXCEPT !.pc = "off"]

WatcherTypeOK ==
    /\ tip \in 0..MaxTip
    /\ cursor \in Nat \cup {-1}
    /\ origin \in Nat \cup {-1}
    /\ w \in Watcher

WatcherInit ==
    /\ tip = 0
    /\ cursor = -1
    /\ origin = -1
    /\ w = WIdle

-----------------------------------------------------------------------------
\* Mutant: asking for the schema's default status, which no row ever has.
IsOrphan_Mutant(b) == row[b].status = "DETECTED" /\ row[b].age >= 1

\* reconcileOrphanWithdrawals: the CONFIRMED rows older than five minutes, at
\* most ReconcileLimit of them in the order the database returns them.
IsOrphan(b) == row[b].status = "CONFIRMED" /\ row[b].age >= 1

ReadOrphans ==
    /\ mode = "up" /\ w.pc = "idle"
    /\ LET orphans == {b \in Burn : IsOrphan(b)}
       IN  \E S \in SUBSET orphans :
              /\ S = orphans \/ Cardinality(S) = ReconcileLimit
              /\ Cardinality(S) <= ReconcileLimit
              /\ w' = [WIdle EXCEPT !.pc = "reconcile", !.todo = S]
    /\ UNCHANGED <<row, job, errors, cursor, origin>>

\* A queue.add inside the reconciler, under the id the first one used.
ReenqueueOrphan(b) ==
    /\ w.pc = "reconcile" /\ b \in w.todo
    /\ job' = [job EXCEPT ![b] = Added(@)]
    /\ w' = [w EXCEPT !.todo = @ \ {b}]
    /\ UNCHANGED <<row, errors, cursor, origin>>

\* Mutant: a young chain gives a cursor below zero.
FirstCursor_Mutant == tip - Backfill

\* getBlockNumber, then the cursor is read, or created Backfill blocks back.
FirstCursor == IF tip > Backfill THEN tip - Backfill ELSE 0

\* Mutant: logs are taken from blocks that can still be reorganised away.
SafeTip_Mutant == tip

SafeTip == tip - Confirmations

ReadTip ==
    /\ w.pc = "reconcile" /\ w.todo = {}
    /\ LET last == IF cursor = -1 THEN FirstCursor ELSE cursor
       IN  /\ cursor' = last
           /\ origin' = IF cursor = -1 THEN last ELSE origin
           /\ w' = IF SafeTip > last
                   THEN [WIdle EXCEPT !.pc = "window", !.to = last,
                                      !.safe = SafeTip]
                   ELSE WIdle
    /\ UNCHANGED <<row, job, errors>>

\* getLogs over (windowFrom, windowTo].
WindowEnd(from, safe) ==
    IF from + MaxLogRange - 1 > safe THEN safe ELSE from + MaxLogRange - 1

\* Mutant: the cursor is saved before the logs of the window are handled.
FetchWindow_Mutant ==
    /\ mode = "up" /\ w.pc = "window" /\ w.to < w.safe
    /\ LET end == WindowEnd(w.to + 1, w.safe)
       IN  /\ w' = [w EXCEPT !.pc = "logs", !.to = end,
                             !.todo = {b \in Burn : BurnLog[b].block \in (w.to + 1)..end}]
           /\ cursor' = end
    /\ UNCHANGED <<row, job, errors, origin>>

FetchWindow ==
    /\ mode = "up" /\ w.pc = "window" /\ w.to < w.safe
    /\ LET end == WindowEnd(w.to + 1, w.safe)
       IN  w' = [w EXCEPT !.pc = "logs", !.to = end,
                          !.todo = {b \in Burn : BurnLog[b].block \in (w.to + 1)..end}]
    /\ UNCHANGED <<row, job, errors, cursor, origin>>

EndTick ==
    /\ w.pc = "window"
    /\ w.to >= w.safe \/ mode = "stopping"
    /\ w' = WIdle
    /\ UNCHANGED <<row, job, errors, cursor, origin>>

-----------------------------------------------------------------------------
\* processLog.  The burn being handled is the first of the window's logs.
IsNext(b) == b \in w.todo /\ \A c \in w.todo : b <= c

NextLog(b) == [w EXCEPT !.pc = "logs", !.verdict = "none", !.todo = @ \ {b}]

\* sumDailyWithdrawalSatsForAddress: what the sender has been admitted for
\* within a day, FAILED rows left out, amounts as stored (after the fee).
Counted(b) == row[b].status \in {"CONFIRMED", "SIGNING", "BROADCAST"} /\ row[b].age < 2

SumDaily(from) ==
    MapThenSumSet(LAMBDA b : row[b].sats,
                  {b \in Burn : Counted(b) /\ BurnLog[b].from = from})

\* What a burn is recorded for: the gross amount when it is refused, the
\* amount after the fee when it is admitted.
ReleaseSats(b) == ApplyFee(GrossSats(b))

\* Mutant: both sides of the sum are taken after the fee.
OverCap_Mutant(b) == SumDaily(BurnLog[b].from) + ReleaseSats(b) > DailyCap

OverCap(b) == SumDaily(BurnLog[b].from) + GrossSats(b) > DailyCap

\* A failing validateaddress is caught and counts as "not valid".
JudgedBy(b, isvalid) ==
    CASE ~isvalid  -> "invalid"
      [] isvalid /\ OverCap(b) -> "overcap"
      [] OTHER -> "admit"

InspectLog(b) ==
    /\ mode = "up" /\ w.pc = "logs" /\ IsNext(b)
    /\ IF Exists(b)
       THEN w' = NextLog(b) /\ UNCHANGED errors
       ELSE \/ \E v \in Verdicts[b] :
                  /\ w' = [w EXCEPT !.pc = "create", !.verdict = JudgedBy(b, v)]
                  /\ UNCHANGED errors
            \/ /\ Fault
               /\ w' = [w EXCEPT !.pc = "create", !.verdict = "invalid"]
    /\ UNCHANGED <<row, job, cursor, origin>>

NewRow(status, sats) == [NoRow EXCEPT !.status = status, !.sats = sats]

CreateRow(b) ==
    /\ w.pc = "create" /\ IsNext(b)
    /\ IF w.verdict = "admit"
       THEN /\ row' = [row EXCEPT ![b] = NewRow("CONFIRMED", ReleaseSats(b))]
            /\ w' = [w EXCEPT !.pc = "enqueue"]
       ELSE /\ row' = [row EXCEPT ![b] = NewRow("FAILED", GrossSats(b))]
            /\ w' = NextLog(b)
    /\ UNCHANGED <<job, errors, cursor, origin>>

EnqueueRelease(b) ==
    /\ w.pc = "enqueue" /\ IsNext(b)
    /\ job' = [job EXCEPT ![b] = Added(@)]
    /\ w' = NextLog(b)
    /\ UNCHANGED <<row, errors, cursor, origin>>

\* The for loop ended, or broke off because of the abort signal: either way
\* the cursor moves to the end of the window.
SaveCursor ==
    /\ w.pc = "logs"
    /\ w.todo = {} \/ mode = "stopping"
    /\ cursor' = w.to
    /\ w' = [w EXCEPT !.pc = "window", !.todo = {}]
    /\ UNCHANGED <<row, job, errors, origin>>

\* Any call of the tick rejects: the catch at the bottom of the loop.
TickError ==
    /\ w.pc \notin {"off", "idle"}
    /\ Fault
    /\ w' = WIdle
    /\ UNCHANGED <<row, job, cursor, origin>>

WatcherStep ==
    \/ ReadOrphans
    \/ \E b \in Burn : ReenqueueOrphan(b)
    \/ ReadTip
    \/ FetchWindow
    \/ EndTick
    \/ \E b \in Burn : InspectLog(b)
    \/ \E b \in Burn : CreateRow(b)
    \/ \E b \in Burn : EnqueueRelease(b)
    \/ SaveCursor
=============================================================================
