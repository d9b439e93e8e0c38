----------------------------- MODULE BurnRelease -----------------------------
(***************************************************************************)
(* The withdrawal direction of the bridge, WFAIR burned on Base to FAIR    *)
(* paid on FairCoin: the base-watcher and the release worker composed over *)
(* MongoDB and Redis, in a process that is stopped, killed and restarted   *)
(* (index.ts, systemd's Restart=always).                                   *)
(***************************************************************************)
EXTENDS BaseWatcher, ReleaseSigner

CONSTANTS
    MaxCrashes,   \* bound: times the process is killed
    MaxStops      \* bound: times it is asked to stop

ASSUME ProcessAssumption == MaxCrashes \in Nat /\ MaxStops \in Nat

VARIABLES
    crashes,   \* kills so far
    stops      \* SIGTERMs so far

vars == <<row, job, mode, errors, tip, cursor, origin, w,
          s, sends, lost, linked, crashes, stops>>

TypeOK ==
    /\ SharedTypeOK
    /\ WatcherTypeOK
    /\ SignerTypeOK
    /\ crashes \in 0..MaxCrashes
    /\ stops \in 0..MaxStops

Init ==
    /\ SharedInit
    /\ WatcherInit
    /\ SignerInit
    /\ crashes = 0
    /\ stops = 0

-----------------------------------------------------------------------------
\* A kill loses everything the process only had in memory.
Crash ==
    /\ mode # "down" /\ crashes < MaxCrashes
    /\ mode' = "down"
    /\ crashes' = crashes + 1
    /\ w' = WOff
    /\ s' = SOff
    /\ lost' = [b \in Burn |-> Forgotten(b)]
    /\ UNCHANGED <<row, job, errors, tip, cursor, origin, sends, linked, stops>>

\* SIGTERM: controller.abort(); the loops and workers wind down by themselves.
Stop ==
    /\ mode = "up" /\ stops < MaxStops
    /\ mode' = "stopping"
    /\ stops' = stops + 1
    /\ UNCHANGED <<row, job, errors, tip, cursor, origin, w, s, sends, lost,
                   linked, crashes>>

\* shutdown has awaited the watchers, then the workers: process.exit(0).
Exit ==
    /\ mode = "stopping" /\ w.pc = "idle" /\ s.pc = "idle"
    /\ mode' = "down"
    /\ w' = WOff
    /\ s' = SOff
    /\ UNCHANGED <<row, job, errors, tip, cursor, origin, sends, lost, linked,
                   crashes, stops>>

Start ==
    /\ mode = "down"
    /\ mode' = "up"
    /\ w' = WIdle
    /\ s' = SIdle
    /\ UNCHANGED <<row, job, errors, tip, cursor, origin, sends, lost, linked,
                   crashes, stops>>

NewBlock ==
    /\ tip < MaxTip
    /\ tip' = tip + 1
    /\ UNCHANGED <<row, job, mode, errors, cursor, origin, w, s, sends, lost,
                   linked, crashes, stops>>

\* Time passes for a row, and no later than for the rows created after it.
Age(b) ==
    /\ Exists(b) /\ row[b].age < 2
    /\ \A c \in Burn : c < b /\ Exists(c) => row[c].age > row[b].age
    /\ row' = [row EXCEPT ![b].age = @ + 1]
    /\ UNCHANGED <<job, mode, errors, tip, cursor, origin, w, s, sends, lost,
                   linked, crashes, stops>>

WatcherNext ==
    /\ WatcherStep \/ TickError
    /\ UNCHANGED <<mode, tip, s, sends, lost, linked, crashes, stops>>

SignerNext(b) ==
    /\ SignerStep(b)
    /\ UNCHANGED <<mode, tip, watcherVars, crashes, stops>>

Next ==
    \/ WatcherNext
    \/ \E b \in Burn : SignerNext(b)
    \/ Crash
    \/ Stop
    \/ Exit
    \/ Start
    \/ NewBlock
    \/ \E b \in Burn : Age(b)

Spec == Init /\ [][Next]_vars

-----------------------------------------------------------------------------
(***************************************************************************)
(* Safety.                                                                 *)
(***************************************************************************)

\* Every payment the FairCoin node made for a burn is the one on file, the
\* one whose txid signNodeWallet holds between sendToAddress and updateOne,
\* or one the service forgot through a kill or a failed call: signRelease
\* adds no duplicate of its own over any number of retries.
Filed(b) == IF row[b].fairTxid # 0 THEN 1 ELSE 0
InHand(b) == IF At(b, "record") THEN 1 ELSE 0

AccountedFor(b) == sends[b] = lost[b] + Filed(b) + InHand(b)

PaymentsAccountedFor == \A b \in Burn : AccountedFor(b)

\* FAIR leaves the hot wallet only for a burn buried under the required
\* confirmations, that processLog admitted, and for no more sats than the
\* burn destroyed: whatever the watcher and the signer read before.
PaidOnlyForConfirmedBurns ==
    \A b \in Burn : sends[b] > 0 =>
        /\ BurnLog[b].block + Confirmations <= tip
        /\ Exists(b)
        /\ row[b].sats <= GrossSats(b)

\* What processLog had already admitted for the sender of a burn when it
\* admitted the burn, and still counts: amounts after the fee.
SpentBefore(b) ==
    MapThenSumSet(LAMBDA c : row[c].sats,
                  {c \in Burn : c < b /\ Counted(c) /\ BurnLog[c].from = BurnLog[b].from})

\* A burn admitted within the last day fits, before the fee, into what the
\* cap leaves after the sender's earlier ones, each after the fee.  So the
\* FAIR released to the burns of a sender in a day stays under the cap, and
\* the WFAIR burned for it passes the cap by no more than the fees kept on
\* the earlier burns: over kills, repeated windows, rows that fail or age.
DailyCapHolds ==
    \A b \in Burn : Counted(b) => SpentBefore(b) + GrossSats(b) <= DailyCap

\* The cursor never passes a burn that has no row, through kills, restarts
\* and failed ticks, as long as nobody stops the process with SIGTERM.
CursorCovers ==
    stops = 0 =>
        \A b \in Burn : BurnLog[b].block \in (origin + 1)..cursor => Exists(b)

\* A row the signer has claimed still has its job: reconcileOrphanWithdrawals
\* looks only at CONFIRMED rows, so a SIGNING row without a job would never
\* be taken up again.  And a job ends as completed only if it paid.
ClaimedHasJob ==
    \A b \in Burn :
        /\ row[b].status = "SIGNING" => job[b].state \in {"wait", "active", "failed"}
        /\ job[b].state = "completed" => row[b].status = "BROADCAST"

\* The release pipeline keeps the promise of PayoutLedger: a payment only
\* while no txid is on file, BROADCAST only with one, both for good; FAILED
\* only without one.
Ledger == INSTANCE PayoutLedger WITH
    Liability <- Burn,
    Bounces <- FALSE,
    paid <- sends,
    filed <- [b \in Burn |-> row[b].fairTxid],
    state <- [b \in Burn |-> CASE row[b].status = "BROADCAST" -> "settled"
                               [] row[b].status = "FAILED" -> "void"
                               [] OTHER -> "open"]

ReleaseIsLedger == Ledger!LedgerSpec

-----------------------------------------------------------------------------
(***************************************************************************)
(* Liveness.  systemd restarts the process, the loops and the worker run   *)
(* as long as it is up, the chain grows and time passes; kills and failed  *)
(* calls are never fair, and their bounds make them finite.                *)
(***************************************************************************)
Fairness ==
    /\ WF_vars(WatcherNext)
    /\ \A b \in Burn :
          WF_vars(SignerProgress(b) /\ UNCHANGED <<mode, tip, watcherVars, crashes, stops>>)
    /\ \A b \in Burn :
          WF_vars(JobStalls(b) /\ UNCHANGED <<mode, tip, watcherVars, crashes, stops>>)
    /\ WF_vars(Exit)
    /\ WF_vars(Start)
    /\ WF_vars(NewBlock)
    /\ \A b \in Burn : WF_vars(Age(b))

FairSpec == Spec /\ Fairness

\* Every confirmed burn ends as a released or refused withdrawal, or as a
\* job out of attempts that an operator sees in the failed set: a kill
\* between Withdrawal.create and queue.add, or a job lost mid-attempt, does
\* not leave it waiting for ever.
Settled(b) ==
    \/ row[b].status \in {"BROADCAST", "FAILED"}
    \/ job[b].state = "failed"

EveryBurnSettles ==
    \A b \in Burn :
        (/\ cursor # -1 /\ BurnLog[b].block > origin
         /\ BurnLog[b].block + Confirmations <= tip) ~> Settled(b)

-----------------------------------------------------------------------------
(***************************************************************************)
(* What the source says of itself and the code does not keep.              *)
(***************************************************************************)

\* base-watcher.ts: "persisting the cursor after each window so progress
\* survives a restart mid-backfill".  A SIGTERM inside a window moves the
\* cursor past the logs of the window that were not handled.
ProgressSurvivesRestart ==
    \A b \in Burn : BurnLog[b].block \in (origin + 1)..cursor => Exists(b)
=============================================================================
