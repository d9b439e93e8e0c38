----------------------------- MODULE FairWatcher -----------------------------
(***************************************************************************)
(* workers/fair-watcher.ts: scans FairCoin block by block for outputs paid *)
(* to deposit addresses, admits or refuses each one, queues its mint, and  *)
(* re-queues the deposits whose job was lost.  One step per awaited call   *)
(* that changes something or whose moment matters.                         *)
(***************************************************************************)
EXTENDS Deposits

CONSTANTS
    FairConfirmations,  \* FAIR_CONFIRMATIONS
    Backfill,           \* INITIAL_BACKFILL_BLOCKS
    ReconcileLimit,     \* orphans re-queued in one tick, 50 in the code
    MinSats,            \* MIN_DEPOSIT_FAIR, in sats
    DailyCap,           \* PER_ADDRESS_DAILY_CAP_FAIR, in sats
    MaxTvl,             \* MAX_TVL_FAIR, in wei
    MaxTip              \* bound: height the FairCoin chain reaches

ASSUME WatcherAssumption ==
    /\ FairConfirmations \in Nat /\ Backfill \in Nat /\ ReconcileLimit \in Nat
    /\ MinSats \in Nat /\ DailyCap \in Nat /\ MaxTvl \in Nat /\ MaxTip \in Nat

VARIABLES
    tip,      \* height of the FairCoin chain
    height,   \* height[d]: block of output d, 0 while it is not paid
    cursor,   \* EventCursor "faircoin", -1 before its first upsert
    origin,   \* history: the cursor the first tick started from
    f,        \* the watcher's place in its loop and its local variables
    slip      \* history: wei that the TVL checks of admitted outputs missed

watcherVars == <<cursor, origin, f, slip>>

(***************************************************************************)
(* pc: load (the address set), idle, reconcile, block (the head of the     *)
(* loop over heights), vouts (the head of the loop over the outputs of     *)
(* block h), tvl (the two reads of the TVL check), refuse, enqueue, off.   *)
(* supply and inflight are what the reads returned, -1 before they did;    *)
(* missed (history) is the wei minted and settled between the two.         *)
(***************************************************************************)
WatcherPc == {"off", "load", "idle", "reconcile", "block", "vouts", "tvl", "refuse",
              "enqueue"}

Watcher == [pc : WatcherPc, todo : SUBSET Vout, h : Nat, safe : Nat,
            supply : Nat \cup {-1}, inflight : Nat \cup {-1},
            missed : Nat]

FBlank == [pc |-> "load", todo |-> {}, h |-> 0, safe |-> 0, supply |-> -1, inflight |-> -1,
           missed |-> 0]
FIdle == [FBlank EXCEPT !.pc = "idle"]
FOff == [FBlank EXCEPT !.pc = "off"]

WatcherTypeOK ==
    /\ tip \in 0..MaxTip
    /\ height \in [Vout -> 0..MaxTip]
    /\ cursor \in Nat \cup {-1}
    /\ origin \in Nat \cup {-1}
    /\ f \in Watcher
    /\ slip \in Nat

WatcherInit ==
    /\ tip = 0
    /\ height = [d \in Vout |-> 0]
    /\ cursor = -1
    /\ origin = -1
    /\ f = FBlank
    /\ slip = 0

-----------------------------------------------------------------------------
\* Mutant: the addresses of the AWAITING documents only.
Documented_Mutant == {a \in Addr : intent[a].status = "open"}

Documented == {a \in Addr : intent[a].status \in {"open", "used"}}

\* getKnownDepositAddressSet: the addresses of every document, kept for the
\* life of the process and added to by /intent.
LoadAddresses ==
    /\ f.pc = "load"
    /\ known' = known \cup Documented
    /\ f' = FIdle
    /\ UNCHANGED <<intent, row, job, upsets, tx, supply, cursor, origin, slip>>

\* Mutant: the cutoff is compared the other way round.
IsOrphan_Mutant(d) == row[d].status = "CONFIRMED" /\ row[d].age < OrphanAge

\* reconcileOrphanDeposits.
IsOrphan(d) == row[d].status = "CONFIRMED" /\ row[d].age >= OrphanAge

ReadOrphans ==
    /\ mode = "up" /\ f.pc = "idle"
    /\ LET orphans == {d \in Vout : IsOrphan(d)}
       IN  \E S \in SUBSET orphans :
              /\ S = orphans \/ Cardinality(S) = ReconcileLimit
              /\ Cardinality(S) <= ReconcileLimit
              /\ f' = [FBlank EXCEPT !.pc = "reconcile", !.todo = S]
    /\ UNCHANGED <<intent, row, job, known, upsets, tx, supply, cursor, origin, slip>>

ReenqueueOrphan(d) ==
    /\ f.pc = "reconcile" /\ d \in f.todo
    /\ job' = [job EXCEPT ![d] = Added(@)]
    /\ f' = [f EXCEPT !.todo = @ \ {d}]
    /\ UNCHANGED <<intent, row, known, upsets, tx, supply, cursor, origin, slip>>

\* Mutant: outputs are taken from blocks that can still be reorganised away.
SafeTip_Mutant == tip

SafeTip == tip - FairConfirmations

FirstCursor == IF tip > Backfill THEN tip - Backfill ELSE 0

ReadTip ==
    /\ f.pc = "reconcile" /\ f.todo = {}
    /\ LET last == IF cursor # -1 THEN cursor ELSE FirstCursor
       IN  /\ cursor' = last
           /\ origin' = IF cursor = -1 THEN last ELSE origin
           /\ f' = IF SafeTip > last
                   THEN [FBlank EXCEPT !.pc = "block", !.h = last, !.safe = SafeTip]
                   ELSE FIdle
    /\ UNCHANGED <<intent, row, job, known, upsets, tx, supply, slip>>

\* Block h is done, the next one is fetched with its outputs to addresses in
\* the cache; the signal is looked at only here.
NextBlock ==
    /\ f.pc = "block" /\ mode = "up" /\ f.h < f.safe
    /\ f' = [f EXCEPT !.pc = "vouts", !.h = @ + 1,
                      !.todo = {d \in Vout : /\ height[d] = f.h + 1
                                             /\ VoutLog[d].addr \in known}]
    /\ UNCHANGED <<intent, row, job, known, upsets, tx, supply, cursor, origin, slip>>

EndTick ==
    /\ f.pc = "block"
    /\ f.h >= f.safe \/ mode = "stopping"
    /\ f' = FIdle
    /\ UNCHANGED <<intent, row, job, known, upsets, tx, supply, cursor, origin, slip>>

-----------------------------------------------------------------------------
(***************************************************************************)
(* processBlock, one output at a time.                                     *)
(***************************************************************************)
IsNext(d) == d \in f.todo /\ \A e \in f.todo : d <= e

Unread == [f EXCEPT !.supply = -1, !.inflight = -1, !.missed = 0]
NextVout(d) == [Unread EXCEPT !.pc = "vouts", !.todo = @ \ {d}]

Pending(a) == intent[a].status = "open"

\* sumDailyDepositSatsForAddress: by createdAt, gross amounts.
Counted(d) == row[d].status \in {"CONFIRMED", "MINTING", "MINTED"} /\ row[d].age < Day

SumDaily(owner) ==
    MapThenSumSet(VoutSats, {d \in Vout : Counted(d) /\ OwnerOf(d) = owner})

\* What was really admitted for a Base address within a day, and the part of
\* it whose createdAt is older: in the sum above that part is missing.
AdmittedToday(owner) ==
    {d \in Vout : /\ row[d].status \in {"CONFIRMED", "MINTING", "MINTED"}
                  /\ row[d].since < Day /\ OwnerOf(d) = owner}

Backdated(owner) == {d \in AdmittedToday(owner) : row[d].age = Day}

\* Mutant: the deposit at hand is left out of the comparison.
OverCap_Mutant(d) == SumDaily(OwnerOf(d)) > DailyCap

OverCap(d) == SumDaily(OwnerOf(d)) + VoutSats(d) > DailyCap

InspectVout(d) ==
    /\ f.pc = "vouts" /\ IsNext(d)
    /\ f' = IF Exists(d) THEN NextVout(d)
            ELSE [f EXCEPT !.pc = IF VoutSats(d) < MinSats \/ OverCap(d)
                                  THEN "refuse" ELSE "tvl"]
    /\ UNCHANGED <<intent, row, job, known, upsets, tx, supply, cursor, origin, slip>>

\* The two halves of Promise.all: they resolve in either order.
ReadSupply ==
    /\ f.pc = "tvl" /\ f.supply = -1
    /\ f' = [f EXCEPT !.supply = supply]
    /\ UNCHANGED <<intent, row, job, known, upsets, tx, supply, cursor, origin, slip>>

\* Mutant: a mint that is being sent is no longer in flight.
InFlight_Mutant(d) == row[d].status = "CONFIRMED"

InFlight(d) == row[d].status \in {"CONFIRMED", "MINTING"}

SumInFlight == MapThenSumSet(MintWei, {d \in Vout : InFlight(d)})

ReadInFlight ==
    /\ f.pc = "tvl" /\ f.inflight = -1
    /\ f' = [f EXCEPT !.inflight = SumInFlight]
    /\ UNCHANGED <<intent, row, job, known, upsets, tx, supply, cursor, origin, slip>>

TvlRead == f.pc = "tvl" /\ f.supply # -1 /\ f.inflight # -1

OverTvl(d) == f.supply + f.inflight + MintWei(d) > MaxTvl

\* The document of an output: the intent's own, with its createdAt, while the
\* slot at the address is open, and a new one afterwards.
Recorded(d, status) ==
    LET a == VoutLog[d].addr
    IN  /\ row' = [row EXCEPT ![d] =
                     [NoRow EXCEPT !.status = status,
                                   !.age = IF Pending(a) THEN intent[a].age ELSE 0]]
        /\ intent' = IF Pending(a) THEN [intent EXCEPT ![a].status = "used"] ELSE intent

ConfirmDeposit(d) ==
    /\ TvlRead /\ IsNext(d) /\ ~OverTvl(d)
    /\ Recorded(d, "CONFIRMED")
    /\ f' = [Unread EXCEPT !.pc = "enqueue"]
    /\ slip' = slip + f.missed
    /\ UNCHANGED <<job, known, upsets, tx, supply, cursor, origin>>

\* persistTerminalDeposit: dust, or over one of the caps.
RefuseDeposit(d) ==
    /\ IsNext(d)
    /\ f.pc = "refuse" \/ (TvlRead /\ OverTvl(d))
    /\ Recorded(d, "FAILED")
    /\ f' = NextVout(d)
    /\ UNCHANGED <<job, known, upsets, tx, supply, cursor, origin, slip>>

EnqueueMint(d) ==
    /\ f.pc = "enqueue" /\ IsNext(d)
    /\ job' = [job EXCEPT ![d] = Added(@)]
    /\ f' = NextVout(d)
    /\ UNCHANGED <<intent, row, known, upsets, tx, supply, cursor, origin, slip>>

SaveCursor ==
    /\ f.pc = "vouts" /\ f.todo = {}
    /\ cursor' = f.h
    /\ f' = [f EXCEPT !.pc = "block"]
    /\ UNCHANGED <<intent, row, job, known, upsets, tx, supply, origin, slip>>

\* Any call of the tick rejects: the catch at the bottom of the loop.
TickError ==
    /\ f.pc \notin {"off", "load", "idle"}
    /\ Fault
    /\ f' = FIdle
    /\ UNCHANGED <<intent, row, job, known, tx, supply, cursor, origin, slip>>

WatcherStep ==
    \/ LoadAddresses
    \/ ReadOrphans
    \/ \E d \in Vout : ReenqueueOrphan(d)
    \/ ReadTip
    \/ NextBlock
    \/ EndTick
    \/ \E d \in Vout : InspectVout(d)
    \/ ReadSupply
    \/ ReadInFlight
    \/ \E d \in Vout : ConfirmDeposit(d)
    \/ \E d \in Vout : RefuseDeposit(d)
    \/ \E d \in Vout : EnqueueMint(d)
    \/ SaveCursor
    \/ TickError
=============================================================================
