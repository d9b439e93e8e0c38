-------------------------- MODULE DepositMintProofs --------------------------
(***************************************************************************)
(* Proofs about DepositMint, for any outputs, owners, caps and bounds.     *)
(***************************************************************************)
EXTENDS DepositMint, BridgeLemmas

(***************************************************************************)
(* The inductive invariant, in named parts.                                *)
(***************************************************************************)

Live == {"CONFIRMED", "MINTING", "MINTED"}

\* The output passed the checks of processBlock.  FAILED with a hash on file
\* is what finalizeDirectEoa writes, FAILED without one what the watcher does.
Admitted(d) ==
    \/ row[d].status \in Live
    \/ row[d].status = "FAILED" /\ row[d].hash # 0

Backed(d) ==
    /\ height[d] > 0
    /\ height[d] + FairConfirmations <= tip
    /\ VoutSats(d) >= MinSats

\* What the stored row of an output looks like, whoever is doing what.
RowInv(d) ==
    /\ row[d].hash # 0 => /\ row[d].status \in {"MINTING", "MINTED", "FAILED"}
                          /\ row[d].hash \in DOMAIN tx[d]
    /\ row[d].status = "MINTED" => row[d].hash # 0 /\ Receipt(d) = "success"
    /\ ~Exists(d) => job[d].state = "none"
    /\ ~row[d].safe => safeTx[d] = "none"

\* Nothing is minted or proposed for an output that was not admitted.
PaidInv(d) ==
    /\ tx[d] # <<>> \/ safeTx[d] # "none" \/ row[d].safe => Admitted(d)
    /\ Admitted(d) => Backed(d)

\* What signMint may rely on at each of its calls.
MintInv(d) == m.vout = d =>
    /\ job[d].state = "active" /\ mode # "down"
    /\ m.pc = "claim" => row[d].status \in {"CONFIRMED", "MINTING"} /\ Unsigned(d)
    /\ m.pc \in {"broadcast", "record", "receipt", "safehash", "propose", "check"} =>
          row[d].status = "MINTING"
    /\ m.pc \in {"broadcast", "record"} => row[d].hash = 0
    /\ m.pc = "record" => m.hash \in DOMAIN tx[d]
    /\ m.pc = "receipt" => row[d].hash # 0
    /\ m.pc = "safehash" => ~row[d].safe
    /\ m.pc = "propose" => row[d].safe /\ safeTx[d] = "none"

\* Every mint is on file, in hand, executed by the Safe or forgotten.
AccountedFor(d) == Len(tx[d]) = lost[d] + Filed(d) + InHand(d) + BySafe(d)

\* The signer is on the branch of the mode it runs under, and before the first
\* change of mode nothing of the other branch has ever happened.
ModeInv(d) ==
    /\ m.vout = d => /\ m.pc \in {"broadcast", "record", "receipt"} => auth = "direct_eoa"
                     /\ m.pc \in {"safehash", "propose", "check"} => auth = "safe_proposal"
    /\ switches = 0 =>
          /\ auth = "direct_eoa" => safeTx[d] = "none" /\ ~row[d].safe
          /\ auth = "safe_proposal" => row[d].hash = 0
          /\ At(d, "record") => m.hash = Len(tx[d])

DepositInv(d) ==
    /\ RowInv(d)
    /\ PaidInv(d)
    /\ MintInv(d)
    /\ AccountedFor(d)
    /\ ModeInv(d)

-----------------------------------------------------------------------------
InBlock == f.pc \in {"vouts", "tvl", "refuse", "enqueue"}

\* The watcher's locals: the orphans it read have rows, the outputs it holds
\* are in the block it is at, under the required confirmations, and one it is
\* about to admit or refuse has no row.
ScanInv ==
    /\ cursor <= tip
    /\ f.pc = "reconcile" => \A d \in f.todo : Exists(d)
    /\ InBlock \/ f.pc = "block" => f.h <= f.safe /\ f.safe + FairConfirmations <= tip
    /\ InBlock => f.h > 0 /\ \A d \in f.todo : height[d] = f.h
    /\ f.pc \in {"tvl", "refuse"} => \A d \in f.todo : IsNext(d) => ~Exists(d)
    /\ f.pc = "tvl" => \A d \in f.todo : IsNext(d) => VoutSats(d) >= MinSats
    /\ f.pc = "enqueue" => \A d \in f.todo : IsNext(d) => Exists(d)

\* Up to where the chain has been turned into rows.
Covered(to, except) ==
    \A d \in Vout : origin < height[d] /\ height[d] <= to => Exists(d) \/ d \in except

CoverInv ==
    /\ Covered(cursor, {})
    /\ f.pc = "block" => Covered(f.h, {})
    /\ InBlock => Covered(f.h, f.todo)

\* The address cache misses no address a depositor may know.
KnownInv ==
    /\ \A a \in Addr : intent[a].status = "allocated" => a \in known
    /\ f.pc \notin {"off", "load"} => Documented \subseteq known
    /\ \A d \in Vout : height[d] > 0 => VoutLog[d].addr \in Documented

\* The sums processBlock compares, before and after the output at hand.
SumsUnderCap == \A d \in Vout : SumDaily(OwnerOf(d)) <= DailyCap

CapInv ==
    /\ SumsUnderCap
    /\ f.pc = "tvl" => \A d \in f.todo :
          IsNext(d) => SumDaily(OwnerOf(d)) + VoutSats(d) <= DailyCap

-----------------------------------------------------------------------------
(***************************************************************************)
(* What the bridge has minted and still owes, as one sum: a deposit that   *)
(* is owed adds its mint, a mint that succeeded is in the supply already.  *)
(***************************************************************************)
Minted(d) == Cardinality(Successes(d))

Pledges == [d \in Vout |-> MintWei(d) * (Owed(d) - Minted(d))]

Exposure == supply + Total(Pledges, Vout)

FlightWei == [d \in Vout |-> IF InFlight(d) THEN MintWei(d) ELSE 0]

\* The exposure only grows when a deposit is admitted, and what the two reads
\* of the TVL check return, in either order, is not below it by more than
\* what was settled between them.
TvlInv ==
    /\ Exposure <= MaxTvl + slip
    /\ f.pc # "tvl" => f.supply = -1 /\ f.inflight = -1
    /\ f.pc = "tvl" =>
          /\ f.supply # -1 /\ f.inflight = -1 =>
                Exposure <= f.supply + Total(FlightWei, Vout) + f.missed
          /\ f.supply = -1 /\ f.inflight # -1 => Exposure <= supply + f.inflight
          /\ f.supply # -1 /\ f.inflight # -1 =>
                Exposure <= f.supply + f.inflight + f.missed

IInv ==
    /\ TypeOK
    /\ \A d \in Vout : DepositInv(d)
    /\ ScanInv
    /\ CoverInv
    /\ KnownInv
    /\ CapInv
    /\ TvlInv

-----------------------------------------------------------------------------
(***************************************************************************)
(* Constants and amounts.                                                  *)
(***************************************************************************)

\* Outputs and addresses are the numbers from 1, and there are finitely many.
LEMMA VoutFacts ==
    /\ IsFiniteSet(Vout)
    /\ \A d \in Vout : d \in Nat /\ d > 0 /\ d \in 0..NumVouts
    /\ \A a \in Addr : a \in Nat
BY DepositAssumption, FS_Interval DEF Vout, Addr

\* The sats and the mint of an output are naturals.
LEMMA AmountTypes ==
    ASSUME NEW d \in Vout
    PROVE  VoutSats(d) \in Nat /\ MintWei(d) \in Nat
<1>1. VoutSats(d) \in Nat
  BY DepositAssumption DEF VoutSats
<1>2. SatsAsWei(VoutSats(d)) \in Nat
  BY <1>1, AmountsAssumption DEF SatsAsWei
<1>3. QED
  BY <1>1, <1>2, ApplyFeeBound DEF MintWei

\* The part of the deposits in flight is a sum of naturals.
LEMMA FlightType == Total(FlightWei, Vout) \in Nat
<1>1. \A d \in Vout : FlightWei[d] \in Nat
  BY AmountTypes DEF FlightWei
<1> HIDE DEF FlightWei
<1>2. QED
  BY <1>1, VoutFacts, TotalNat

\* sumInFlightWei computes it.
LEMMA SumInFlightIs == SumInFlight = Total(FlightWei, Vout)
<1> DEFINE wei == [d \in Vout |-> MintWei(d)]
           T == {d \in Vout : InFlight(d)}
           part == [d \in Vout |-> IF d \in T THEN wei[d] ELSE 0]
<1>1. MapThenSumSet(MintWei, T) = Total(wei, T)
  BY DEF Total, MapThenSumSet, MapThenFoldSet
<1>2. \A d \in T : wei[d] \in Int
  BY AmountTypes
<1>3. T \in SUBSET Vout
  OBVIOUS
<1>4. FlightWei = part
  BY DEF FlightWei
<1> HIDE DEF wei, T
<1>5. Total(wei, T) = Total(part, Vout)
  BY <1>2, <1>3, VoutFacts, TotalPart
<1>6. QED
  BY <1>1, <1>4, <1>5 DEF SumInFlight, T

-----------------------------------------------------------------------------
(***************************************************************************)
(* Records.                                                                *)
(***************************************************************************)

\* A deposit document, the locals of the watcher and those of the signer,
\* with all their fields.
IsRow(r, status, hash, safe, age) ==
    /\ r \in Deposit
    /\ r.status = status /\ r.hash = hash /\ r.safe = safe /\ r.age = age

IsWatcher(r, pc, todo, h, safe, s, i, n) ==
    /\ r \in Watcher
    /\ r.pc = pc /\ r.todo = todo /\ r.h = h /\ r.safe = safe
    /\ r.supply = s /\ r.inflight = i /\ r.missed = n

IsSigner(r, pc, vout, hash) ==
    r \in Signer /\ r.pc = pc /\ r.vout = vout /\ r.hash = hash

\* The values the code writes into status and the two program counters.
LEMMA Values ==
    /\ \A status \in {"none", "CONFIRMED", "MINTING", "MINTED", "FAILED"} : status \in Status
    /\ \A pc \in {"off", "load", "idle", "reconcile", "block", "vouts", "tvl", "refuse",
                  "enqueue"} : pc \in WatcherPc
    /\ \A pc \in {"off", "idle", "load", "claim", "broadcast", "record", "receipt",
                  "safehash", "propose", "check", "audit", "done", "giveup"} : pc \in SignerPc
BY DEF Status, WatcherPc, SignerPc

\* The blank records.
LEMMA BlankRecords ==
    /\ IsRow(NoRow, "none", 0, FALSE, 0)
    /\ IsWatcher(FBlank, "load", {}, 0, 0, -1, -1, 0)
    /\ IsWatcher(FIdle, "idle", {}, 0, 0, -1, -1, 0)
    /\ IsWatcher(FOff, "off", {}, 0, 0, -1, -1, 0)
    /\ IsSigner(MIdle, "idle", 0, 0)
    /\ IsSigner(MOff, "off", 0, 0)
BY DepositAssumption
   DEF IsRow, NoRow, Deposit, Status, IsWatcher, FBlank, FIdle, FOff, Watcher, WatcherPc,
       IsSigner, MIdle, MOff, Signer, SignerPc

\* Assignments to a stored row.
LEMMA RowSet ==
    ASSUME NEW r \in Deposit
    PROVE  /\ IsRow(r, r.status, r.hash, r.safe, r.age)
           /\ \A status \in Status :
                 IsRow([r EXCEPT !.status = status], status, r.hash, r.safe, r.age)
           /\ \A n \in Nat : IsRow([r EXCEPT !.hash = n], r.status, n, r.safe, r.age)
           /\ IsRow([r EXCEPT !.safe = TRUE], r.status, r.hash, TRUE, r.age)
           /\ \A age \in 0..Day :
                 IsRow([r EXCEPT !.age = age], r.status, r.hash, r.safe, age)
           /\ \A status \in Status, age \in 0..Day :
                 IsRow([r EXCEPT !.status = status, !.age = age], status, r.hash, r.safe, age)
BY DEF IsRow, Deposit

\* Assignments to the watcher's locals: its place,
LEMMA WatcherSetPc ==
    ASSUME NEW r \in Watcher, NEW pc \in WatcherPc
    PROVE  IsWatcher([r EXCEPT !.pc = pc],
                     pc, r.todo, r.h, r.safe, r.supply, r.inflight, r.missed)
BY DEF IsWatcher, Watcher

\* ... what it has still to handle,
LEMMA WatcherSetTodo ==
    ASSUME NEW r \in Watcher, NEW T \in SUBSET Vout
    PROVE  IsWatcher([r EXCEPT !.todo = T],
                     r.pc, T, r.h, r.safe, r.supply, r.inflight, r.missed)
BY DEF IsWatcher, Watcher

\* ... both,
LEMMA WatcherSetPcTodo ==
    ASSUME NEW r \in Watcher, NEW pc \in WatcherPc, NEW T \in SUBSET Vout
    PROVE  IsWatcher([r EXCEPT !.pc = pc, !.todo = T],
                     pc, T, r.h, r.safe, r.supply, r.inflight, r.missed)
BY DEF IsWatcher, Watcher

\* ... the block it is at,
LEMMA WatcherSetBlock ==
    ASSUME NEW r \in Watcher, NEW pc \in WatcherPc, NEW h \in Nat, NEW T \in SUBSET Vout
    PROVE  IsWatcher([r EXCEPT !.pc = pc, !.h = h, !.todo = T],
                     pc, T, h, r.safe, r.supply, r.inflight, r.missed)
BY DEF IsWatcher, Watcher

\* ... the blocks to scan,
LEMMA WatcherSetRange ==
    ASSUME NEW r \in Watcher, NEW pc \in WatcherPc, NEW h \in Nat, NEW n \in Nat
    PROVE  IsWatcher([r EXCEPT !.pc = pc, !.h = h, !.safe = n],
                     pc, r.todo, h, n, r.supply, r.inflight, r.missed)
BY DEF IsWatcher, Watcher

\* ... what the two reads returned, and what was settled between them.
LEMMA WatcherSetReads ==
    ASSUME NEW r \in Watcher
    PROVE  /\ IsWatcher([r EXCEPT !.supply = -1, !.inflight = -1, !.missed = 0],
                        r.pc, r.todo, r.h, r.safe, -1, -1, 0)
           /\ \A n \in Nat : IsWatcher([r EXCEPT !.supply = n],
                        r.pc, r.todo, r.h, r.safe, n, r.inflight, r.missed)
           /\ \A n \in Nat : IsWatcher([r EXCEPT !.inflight = n],
                        r.pc, r.todo, r.h, r.safe, r.supply, n, r.missed)
           /\ \A n \in Nat : IsWatcher([r EXCEPT !.missed = n],
                        r.pc, r.todo, r.h, r.safe, r.supply, r.inflight, n)
BY DEF IsWatcher, Watcher

\* Assignments to the signer's locals.
LEMMA SignerSet ==
    ASSUME NEW r \in Signer, NEW pc \in SignerPc
    PROVE  /\ IsSigner(r, r.pc, r.vout, r.hash)
           /\ IsSigner([r EXCEPT !.pc = pc], pc, r.vout, r.hash)
           /\ \A n \in Nat : IsSigner([r EXCEPT !.pc = pc, !.hash = n], pc, r.vout, n)
           /\ \A d \in 0..NumVouts : IsSigner([r EXCEPT !.pc = pc, !.vout = d], pc, d, r.hash)
BY DEF IsSigner, Signer

\* The head of the for loop over the outputs, after one of them.
LEMMA NextVoutIs ==
    ASSUME NEW d \in Vout, f \in Watcher
    PROVE  IsWatcher(NextVout(d), "vouts", f.todo \ {d}, f.h, f.safe, -1, -1, 0)
<1>1. PICK u \in Watcher :
         u = Unread /\ IsWatcher(u, f.pc, f.todo, f.h, f.safe, -1, -1, 0)
  BY WatcherSetReads DEF Unread, IsWatcher
<1>2. f.todo \ {d} \in SUBSET Vout /\ "vouts" \in WatcherPc
  BY Values DEF Watcher
<1>3. NextVout(d) = [u EXCEPT !.pc = "vouts", !.todo = f.todo \ {d}]
  BY <1>1 DEF NextVout, IsWatcher
<1>4. IsWatcher([u EXCEPT !.pc = "vouts", !.todo = f.todo \ {d}],
                "vouts", f.todo \ {d}, u.h, u.safe, u.supply, u.inflight, u.missed)
  BY <1>2, WatcherSetPcTodo
<1>5. QED
  BY <1>1, <1>3, <1>4 DEF IsWatcher

-----------------------------------------------------------------------------
(***************************************************************************)
(* What each step does to the locals.                                      *)
(***************************************************************************)

\* The watcher starts a tick, or ends one.
LEMMA TickMoves ==
    ASSUME TypeOK
    PROVE  /\ LoadAddresses \/ EndTick \/ TickError =>
                 IsWatcher(f', "idle", {}, 0, 0, -1, -1, 0)
           /\ ReadOrphans => \E S \in SUBSET {d \in Vout : IsOrphan(d)} :
                 IsWatcher(f', "reconcile", S, 0, 0, -1, -1, 0)
           /\ \A d \in Vout : ReenqueueOrphan(d) =>
                 IsWatcher(f', "reconcile", f.todo \ {d}, f.h, f.safe,
                           f.supply, f.inflight, f.missed)
<1>1. LoadAddresses \/ EndTick \/ TickError => IsWatcher(f', "idle", {}, 0, 0, -1, -1, 0)
  BY BlankRecords DEF LoadAddresses, EndTick, TickError
<1>2. ASSUME ReadOrphans
      PROVE  \E S \in SUBSET {d \in Vout : IsOrphan(d)} :
                IsWatcher(f', "reconcile", S, 0, 0, -1, -1, 0)
  <2>1. PICK S \in SUBSET {d \in Vout : IsOrphan(d)} :
           f' = [FBlank EXCEPT !.pc = "reconcile", !.todo = S]
    BY <1>2 DEF ReadOrphans
  <2>2. FBlank \in Watcher /\ S \in SUBSET Vout /\ "reconcile" \in WatcherPc
    BY BlankRecords, Values DEF IsWatcher
  <2>3. IsWatcher(f', "reconcile", S, FBlank.h, FBlank.safe, FBlank.supply,
                  FBlank.inflight, FBlank.missed)
    BY <2>1, <2>2, WatcherSetPcTodo
  <2>4. QED
    BY <2>3, BlankRecords DEF IsWatcher
<1>3. ASSUME NEW d \in Vout, ReenqueueOrphan(d)
      PROVE  IsWatcher(f', "reconcile", f.todo \ {d}, f.h, f.safe,
                       f.supply, f.inflight, f.missed)
  <2>1. /\ f' = [f EXCEPT !.todo = f.todo \ {d}] /\ f.pc = "reconcile"
        /\ f \in Watcher /\ f.todo \ {d} \in SUBSET Vout
    BY <1>3 DEF ReenqueueOrphan, TypeOK, WatcherTypeOK, Watcher
  <2>2. QED
    BY <2>1, WatcherSetTodo
<1>4. QED
  BY <1>1, <1>2, <1>3

\* The tip is read: the cursor is there from now on, and there are blocks to
\* scan or the tick ends.
LEMMA ReadTipMoves ==
    ASSUME TypeOK, ReadTip
    PROVE  /\ cursor' \in Nat
           /\ cursor # -1 => cursor' = cursor /\ origin' = origin
           /\ cursor = -1 => cursor' <= tip /\ origin' = cursor'
           /\ \/ /\ SafeTip \in Nat /\ SafeTip > cursor'
                 /\ IsWatcher(f', "block", {}, cursor', SafeTip, -1, -1, 0)
              \/ IsWatcher(f', "idle", {}, 0, 0, -1, -1, 0)
<1>1. tip \in Nat /\ cursor \in Nat \cup {-1} /\ SafeTip \in Int
  BY WatcherAssumption DEF TypeOK, WatcherTypeOK, SafeTip
<1>2. FirstCursor \in Nat /\ FirstCursor <= tip
  BY <1>1, WatcherAssumption DEF FirstCursor
<1>3. /\ cursor' = IF cursor # -1 THEN cursor ELSE FirstCursor
      /\ origin' = IF cursor = -1 THEN cursor' ELSE origin
      /\ f' = IF SafeTip > cursor'
              THEN [FBlank EXCEPT !.pc = "block", !.h = cursor', !.safe = SafeTip]
              ELSE FIdle
  BY DEF ReadTip
<1>4. cursor' \in Nat
  BY <1>1, <1>2, <1>3
<1>5. CASE SafeTip > cursor'
  <2>1. SafeTip \in Nat
    BY <1>1, <1>4, <1>5
  <2>2. FBlank \in Watcher /\ "block" \in WatcherPc
    BY BlankRecords, Values DEF IsWatcher
  <2>3. IsWatcher(f', "block", FBlank.todo, cursor', SafeTip, FBlank.supply,
                  FBlank.inflight, FBlank.missed)
    BY <1>3, <1>4, <1>5, <2>1, <2>2, WatcherSetRange
  <2>4. QED
    BY <1>2, <1>3, <1>4, <1>5, <2>1, <2>3, BlankRecords DEF IsWatcher
<1>6. CASE ~(SafeTip > cursor')
  BY <1>2, <1>3, <1>4, <1>6, BlankRecords
<1>7. QED
  BY <1>5, <1>6

\* The loop over the blocks.
LEMMA BlockMoves ==
    ASSUME TypeOK
    PROVE  /\ NextBlock => \E T \in SUBSET Vout :
                 /\ T = {d \in Vout : height[d] = f.h + 1 /\ VoutLog[d].addr \in known}
                 /\ IsWatcher(f', "vouts", T, f.h + 1, f.safe,
                              f.supply, f.inflight, f.missed)
           /\ SaveCursor =>
                 IsWatcher(f', "block", f.todo, f.h, f.safe, f.supply, f.inflight, f.missed)
<1>1. f \in Watcher /\ f.h \in Nat /\ f.h + 1 \in Nat
  BY DEF TypeOK, WatcherTypeOK, Watcher
<1>2. "vouts" \in WatcherPc /\ "block" \in WatcherPc
  BY Values
<1>3. ASSUME NextBlock
      PROVE  \E T \in SUBSET Vout :
                 /\ T = {d \in Vout : height[d] = f.h + 1 /\ VoutLog[d].addr \in known}
                 /\ IsWatcher(f', "vouts", T, f.h + 1, f.safe,
                              f.supply, f.inflight, f.missed)
  <2> DEFINE T == {d \in Vout : height[d] = f.h + 1 /\ VoutLog[d].addr \in known}
  <2>1. T \in SUBSET Vout /\ f' = [f EXCEPT !.pc = "vouts", !.h = f.h + 1, !.todo = T]
    BY <1>3 DEF NextBlock
  <2> HIDE DEF T
  <2>2. IsWatcher(f', "vouts", T, f.h + 1, f.safe, f.supply, f.inflight, f.missed)
    BY <1>1, <1>2, <2>1, WatcherSetBlock
  <2>3. QED
    BY <2>1, <2>2 DEF T
<1>4. SaveCursor =>
         IsWatcher(f', "block", f.todo, f.h, f.safe, f.supply, f.inflight, f.missed)
  BY <1>1, <1>2, WatcherSetPc DEF SaveCursor
<1>5. QED
  BY <1>3, <1>4

\* The loop over the outputs of a block.
LEMMA VoutMoves ==
    ASSUME TypeOK, NEW d \in Vout
    PROVE  /\ InspectVout(d) =>
                 \/ Exists(d) /\ IsWatcher(f', "vouts", f.todo \ {d}, f.h, f.safe, -1, -1, 0)
                 \/ /\ ~Exists(d)
                    /\ IsWatcher(f', IF VoutSats(d) < MinSats \/ OverCap(d)
                                     THEN "refuse" ELSE "tvl",
                                 f.todo, f.h, f.safe, f.supply, f.inflight, f.missed)
           /\ ConfirmDeposit(d) =>
                 IsWatcher(f', "enqueue", f.todo, f.h, f.safe, -1, -1, 0)
           /\ RefuseDeposit(d) \/ EnqueueMint(d) =>
                 IsWatcher(f', "vouts", f.todo \ {d}, f.h, f.safe, -1, -1, 0)
<1>1. f \in Watcher
  BY DEF TypeOK, WatcherTypeOK
<1>2. IsWatcher(NextVout(d), "vouts", f.todo \ {d}, f.h, f.safe, -1, -1, 0)
  BY <1>1, NextVoutIs
<1>3. ASSUME InspectVout(d), ~Exists(d)
      PROVE  IsWatcher(f', IF VoutSats(d) < MinSats \/ OverCap(d) THEN "refuse" ELSE "tvl",
                       f.todo, f.h, f.safe, f.supply, f.inflight, f.missed)
  <2> DEFINE pc == IF VoutSats(d) < MinSats \/ OverCap(d) THEN "refuse" ELSE "tvl"
  <2>1. pc \in WatcherPc /\ f' = [f EXCEPT !.pc = pc]
    BY <1>3, Values DEF InspectVout
  <2> HIDE DEF pc
  <2>2. IsWatcher(f', pc, f.todo, f.h, f.safe, f.supply, f.inflight, f.missed)
    BY <1>1, <2>1, WatcherSetPc
  <2>3. QED
    BY <2>2 DEF pc
<1>4. ASSUME ConfirmDeposit(d)
      PROVE  IsWatcher(f', "enqueue", f.todo, f.h, f.safe, -1, -1, 0)
  <2>1. PICK u \in Watcher :
           u = Unread /\ IsWatcher(u, f.pc, f.todo, f.h, f.safe, -1, -1, 0)
    BY <1>1, WatcherSetReads DEF Unread, IsWatcher
  <2>2. f' = [u EXCEPT !.pc = "enqueue"] /\ "enqueue" \in WatcherPc
    BY <1>4, <2>1, Values DEF ConfirmDeposit
  <2>3. IsWatcher(f', "enqueue", u.todo, u.h, u.safe, u.supply, u.inflight, u.missed)
    BY <2>2, WatcherSetPc
  <2>4. QED
    BY <2>1, <2>3 DEF IsWatcher
<1>5. RefuseDeposit(d) \/ EnqueueMint(d) =>
         IsWatcher(f', "vouts", f.todo \ {d}, f.h, f.safe, -1, -1, 0)
  BY <1>2 DEF RefuseDeposit, EnqueueMint
<1>6. QED
  BY <1>2, <1>3, <1>4, <1>5 DEF InspectVout

\* The two reads of the TVL check.
LEMMA ReadMoves ==
    ASSUME TypeOK
    PROVE  /\ ReadSupply =>
                 IsWatcher(f', "tvl", f.todo, f.h, f.safe, supply, f.inflight, f.missed)
           /\ ReadInFlight =>
                 /\ Total(FlightWei, Vout) \in Nat
                 /\ IsWatcher(f', "tvl", f.todo, f.h, f.safe, f.supply,
                              Total(FlightWei, Vout), f.missed)
<1>1. f \in Watcher /\ supply \in Nat
  BY DEF TypeOK, WatcherTypeOK, SharedTypeOK
<1>2. Total(FlightWei, Vout) \in Nat /\ SumInFlight = Total(FlightWei, Vout)
  BY FlightType, SumInFlightIs
<1>3. ASSUME ReadSupply
      PROVE  IsWatcher(f', "tvl", f.todo, f.h, f.safe, supply, f.inflight, f.missed)
  <2>1. f' = [f EXCEPT !.supply = supply] /\ f.pc = "tvl"
    BY <1>3 DEF ReadSupply
  <2>2. QED
    BY <1>1, <2>1, WatcherSetReads
<1>4. ASSUME ReadInFlight
      PROVE  IsWatcher(f', "tvl", f.todo, f.h, f.safe, f.supply, Total(FlightWei, Vout),
                       f.missed)
  <2>1. f' = [f EXCEPT !.inflight = Total(FlightWei, Vout)] /\ f.pc = "tvl"
    BY <1>2, <1>4 DEF ReadInFlight
  <2>2. QED
    BY <1>1, <1>2, <2>1, WatcherSetReads
<1>5. QED
  BY <1>2, <1>3, <1>4

-----------------------------------------------------------------------------
(***************************************************************************)
(* Type correctness.                                                       *)
(***************************************************************************)

\* A fault is counted within its bound.
LEMMA FaultType ==
    ASSUME Fault, upsets \in 0..MaxUpsets
    PROVE  upsets' \in 0..MaxUpsets
BY DepositAssumption DEF Fault

\* The initial state has the right types.
LEMMA InitType == Init => TypeOK
<1> SUFFICES ASSUME Init PROVE TypeOK
  OBVIOUS
<1>1. SharedTypeOK
  <2>1. NoIntent \in Intent /\ NoJob \in Job /\ NoRow \in Deposit
    BY BlankRecords, DepositAssumption
       DEF NoIntent, Intent, IntentStatus, NoJob, Job, JobState, IsRow
  <2>2. QED
    BY <2>1, DepositAssumption DEF Init, SharedInit, SharedTypeOK
<1>2. WatcherTypeOK
  BY BlankRecords, WatcherAssumption DEF Init, WatcherInit, WatcherTypeOK, IsWatcher
<1>3. SignerTypeOK
  BY BlankRecords DEF Init, SignerInit, SignerTypeOK, IsSigner
<1>4. QED
  BY <1>1, <1>2, <1>3, ProcessAssumption DEF Init, TypeOK

\* The document of an output gets the right fields.
LEMMA RecordedIs ==
    ASSUME NEW d \in Vout, NEW status \in Status, Recorded(d, status), TypeOK
    PROVE  /\ row' \in [Vout -> Deposit] /\ intent' \in [Addr -> Intent]
           /\ row'[d].status = status /\ row'[d].hash = 0 /\ ~row'[d].safe
           /\ \A e \in Vout : e # d => row'[e] = row[e]
           /\ \A a \in Addr : \/ intent'[a].status = intent[a].status
                              \/ intent[a].status = "open" /\ intent'[a].status = "used"
<1> DEFINE a == VoutLog[d].addr
           age == IF Pending(a) THEN intent[a].age ELSE 0
<1> USE DEF TypeOK, SharedTypeOK
<1>1. a \in Addr /\ intent[a] \in Intent
  BY DepositAssumption
<1>2. age \in 0..Day
  BY <1>1, DepositAssumption DEF Intent
<1>3. row' = [row EXCEPT ![d] = [NoRow EXCEPT !.status = status, !.age = age]]
  BY DEF Recorded
<1>4. intent' = IF Pending(a) THEN [intent EXCEPT ![a].status = "used"] ELSE intent
  BY DEF Recorded
<1> HIDE DEF a, age
<1>5. IsRow([NoRow EXCEPT !.status = status, !.age = age], status, 0, FALSE, age)
  <2>1. NoRow \in Deposit /\ NoRow.hash = 0 /\ NoRow.safe = FALSE
    BY BlankRecords DEF IsRow
  <2>2. IsRow([NoRow EXCEPT !.status = status, !.age = age], status, NoRow.hash,
              NoRow.safe, age)
    BY <1>2, <2>1, RowSet
  <2>3. QED
    BY <2>1, <2>2
<1>6. /\ row' \in [Vout -> Deposit]
      /\ row'[d].status = status /\ row'[d].hash = 0 /\ ~row'[d].safe
      /\ \A e \in Vout : e # d => row'[e] = row[e]
  BY <1>3, <1>5 DEF IsRow
<1>7. /\ intent' \in [Addr -> Intent]
      /\ \A i \in Addr : \/ intent'[i].status = intent[i].status
                         \/ intent[i].status = "open" /\ intent'[i].status = "used"
  BY <1>1, <1>4 DEF Pending, Intent, IntentStatus
<1>8. QED
  BY <1>6, <1>7

\* No step of the watcher leaves the types.
LEMMA WatcherType ==
    ASSUME TypeOK, WatcherNext
    PROVE  TypeOK'
<1> USE DEF TypeOK, SharedTypeOK, WatcherTypeOK
<1>1. /\ SignerTypeOK' /\ switches' \in 0..MaxSwitches /\ tip' = tip /\ height' = height
      /\ mode' \in {"up", "stopping", "down"}
  BY DEF WatcherNext, SignerTypeOK, signerVars, deployment, chainVars

<1>2. CASE LoadAddresses
  BY <1>1, <1>2, TickMoves DEF LoadAddresses, IsWatcher, Documented
<1>3. CASE ReadOrphans
  BY <1>1, <1>3, TickMoves DEF ReadOrphans, IsWatcher
<1>4. ASSUME NEW d \in Vout, ReenqueueOrphan(d)
      PROVE  TypeOK'
  BY <1>1, <1>4, TickMoves, JobType DEF ReenqueueOrphan, IsWatcher
<1>5. CASE ReadTip
  BY <1>1, <1>5, ReadTipMoves DEF ReadTip, IsWatcher
<1>6. CASE NextBlock
  BY <1>1, <1>6, BlockMoves DEF NextBlock, IsWatcher
<1>7. CASE EndTick
  BY <1>1, <1>7, TickMoves DEF EndTick, IsWatcher
<1>8. ASSUME NEW d \in Vout, InspectVout(d)
      PROVE  TypeOK'
  BY <1>1, <1>8, VoutMoves DEF InspectVout, IsWatcher
<1>9. CASE ReadSupply
  BY <1>1, <1>9, ReadMoves DEF ReadSupply, IsWatcher
<1>10. CASE ReadInFlight
  BY <1>1, <1>10, ReadMoves DEF ReadInFlight, IsWatcher
<1>11. ASSUME NEW d \in Vout, ConfirmDeposit(d)
       PROVE  TypeOK'
  <2>1. row' \in [Vout -> Deposit] /\ intent' \in [Addr -> Intent]
    BY <1>11, RecordedIs, Values DEF ConfirmDeposit
  <2>2. f' \in Watcher
    BY <1>11, VoutMoves DEF IsWatcher
  <2>3. slip' \in Nat
    BY <1>11 DEF ConfirmDeposit, Watcher
  <2>4. QED
    BY <1>1, <1>11, <2>1, <2>2, <2>3 DEF ConfirmDeposit
<1>12. ASSUME NEW d \in Vout, RefuseDeposit(d)
       PROVE  TypeOK'
  <2>1. row' \in [Vout -> Deposit] /\ intent' \in [Addr -> Intent]
    BY <1>12, RecordedIs, Values DEF RefuseDeposit
  <2>2. f' \in Watcher
    BY <1>12, VoutMoves DEF IsWatcher
  <2>3. QED
    BY <1>1, <1>12, <2>1, <2>2 DEF RefuseDeposit
<1>13. ASSUME NEW d \in Vout, EnqueueMint(d)
       PROVE  TypeOK'
  BY <1>1, <1>13, VoutMoves, JobType DEF EnqueueMint, IsWatcher
<1>14. CASE SaveCursor
  BY <1>1, <1>14, BlockMoves DEF SaveCursor, IsWatcher, Watcher
<1>15. CASE TickError
  BY <1>1, <1>15, TickMoves, FaultType DEF TickError, IsWatcher
<1>16. QED
  BY <1>2, <1>3, <1>4, <1>5, <1>6, <1>7, <1>8, <1>9, <1>10, <1>11, <1>12, <1>13, <1>14,
     <1>15 DEF WatcherNext, WatcherStep

\* The dispatch on MINT_AUTH_MODE.
LEMMA SignPcIs ==
    ASSUME NEW d \in Vout, TypeOK
    PROVE  \/ auth = "direct_eoa" /\ SignPc(d) = "receipt" /\ row[d].hash # 0
           \/ auth = "direct_eoa" /\ SignPc(d) = "broadcast" /\ row[d].hash = 0
           \/ auth = "safe_proposal" /\ SignPc(d) = "check" /\ row[d].safe
           \/ auth = "safe_proposal" /\ SignPc(d) = "safehash" /\ ~row[d].safe
BY DEF SignPc, TypeOK, SignerTypeOK, AuthMode, SharedTypeOK, Deposit

\* A step of the attempt goes to another call with the same deposit.
LEMMA GotoIs ==
    ASSUME TypeOK, NEW pc \in SignerPc
    PROVE  IsSigner(Goto(pc), pc, m.vout, m.hash)
BY SignerSet DEF Goto, TypeOK, SignerTypeOK

\* Where an attempt goes from the row it reads,
LEMMA LoadMoves ==
    ASSUME TypeOK, NEW d \in Vout, LoadRow(d)
    PROVE  \E pc \in SignerPc \ {"off", "idle"} :
              /\ IsSigner(m', pc, d, m.hash)
              /\ \/ pc \in {"done", "giveup"}
                 \/ pc = "claim" /\ row[d].status \in {"CONFIRMED", "MINTING"} /\ Unsigned(d)
                 \/ pc = SignPc(d) /\ row[d].status = "MINTING"
<1>1. m.vout = d
  BY DEF LoadRow, At
<1>2. SignPc(d) \in {"receipt", "broadcast", "check", "safehash"}
  BY SignPcIs
<1>3. PICK pc \in {"done", "giveup", "claim", SignPc(d)} :
        /\ m' = Goto(pc)
        /\ pc = "claim" => row[d].status \in {"CONFIRMED", "MINTING"} /\ Unsigned(d)
        /\ pc = SignPc(d) => row[d].status = "MINTING"
  <2>1. CASE row[d].status = "MINTED"
    BY <1>2, <2>1 DEF LoadRow
  <2>2. CASE row[d].status = "FAILED"
    BY <1>2, <2>2 DEF LoadRow
  <2>3. CASE row[d].status \in {"CONFIRMED", "MINTING"} /\ Unsigned(d)
    BY <1>2, <2>3 DEF LoadRow
  <2>4. CASE row[d].status = "MINTING" /\ ~Unsigned(d)
    BY <1>2, <2>4 DEF LoadRow
  <2>5. CASE /\ row[d].status \notin {"MINTED", "FAILED", "MINTING"}
             /\ ~(row[d].status = "CONFIRMED" /\ Unsigned(d))
    BY <1>2, <2>5 DEF LoadRow
  <2>6. QED
    BY <2>1, <2>2, <2>3, <2>4, <2>5
<1>4. pc \in SignerPc \ {"off", "idle"}
  BY <1>2, <1>3 DEF SignerPc
<1>5. IsSigner(m', pc, d, m.hash)
  BY <1>1, <1>3, <1>4, GotoIs
<1>6. QED
  BY <1>3, <1>4, <1>5

\* ... and from the claim.
LEMMA ClaimMoves ==
    ASSUME TypeOK, NEW d \in Vout, ClaimMint(d)
    PROVE  /\ row' = IF Claimable(d) THEN [row EXCEPT ![d].status = "MINTING"] ELSE row
           /\ \/ IsSigner(m', SignPc(d), d, m.hash)
                 /\ (Claimable(d) \/ row[d].status = "MINTING")
              \/ IsSigner(m', "done", d, m.hash) /\ ~Claimable(d)
           /\ m'.pc \in SignerPc \ {"off", "idle"}
<1>1. m.vout = d
  BY DEF ClaimMint, At
<1>2. SignPc(d) \in SignerPc \ {"off", "idle"} /\ "done" \in SignerPc \ {"off", "idle"}
  BY SignPcIs, Values
<1>3. IsSigner(Goto(SignPc(d)), SignPc(d), d, m.hash) /\ IsSigner(Goto("done"), "done", d, m.hash)
  BY <1>1, <1>2, GotoIs
<1>4. m' = IF Claimable(d) \/ row[d].status = "MINTING" THEN Goto(SignPc(d)) ELSE Goto("done")
  BY DEF ClaimMint
<1>5. QED
  BY <1>2, <1>3, <1>4 DEF ClaimMint, IsSigner

\* The other steps, which go where their name says.
LEMMA SignerMoves ==
    ASSUME TypeOK, NEW d \in Vout
    PROVE  /\ TakeJob(d) => IsSigner(m', "load", d, 0)
           /\ Broadcast(d) => IsSigner(m', "record", d, Len(tx[d]) + 1)
           /\ RecordHash(d) => IsSigner(m', "receipt", d, 0)
           /\ FinalizeMint(d) => IsSigner(m', "audit", d, m.hash)
           /\ RecordSafeHash(d) => IsSigner(m', "propose", d, m.hash)
           /\ Propose(d) => IsSigner(m', "audit", d, m.hash)
           /\ CheckProposal(d) => IF safeTx[d] = "none" THEN Throw(d)
                                  ELSE IsSigner(m', "audit", d, m.hash) /\ job' = job
           /\ WriteAudit(d) => IsSigner(m', "done", d, m.hash)
<1> USE Values
<1>1. m \in Signer /\ Len(tx[d]) + 1 \in Nat /\ d \in 0..NumVouts
  BY VoutFacts DEF TypeOK, SignerTypeOK, SharedTypeOK
<1>2. ASSUME TakeJob(d)
      PROVE  IsSigner(m', "load", d, 0)
  <2>1. m' = [MIdle EXCEPT !.pc = "load", !.vout = d]
    BY <1>2 DEF TakeJob
  <2>2. MIdle \in Signer /\ MIdle.hash = 0
    BY BlankRecords DEF IsSigner
  <2>3. QED
    BY <1>1, <2>1, <2>2, SignerSet
<1>3. ASSUME Broadcast(d)
      PROVE  IsSigner(m', "record", d, Len(tx[d]) + 1)
  <2>1. m' = [m EXCEPT !.pc = "record", !.hash = Len(tx[d]) + 1] /\ m.vout = d
    BY <1>3 DEF Broadcast, At
  <2>2. QED
    BY <1>1, <2>1, SignerSet
<1>4. ASSUME RecordHash(d)
      PROVE  IsSigner(m', "receipt", d, 0)
  <2>1. m' = [m EXCEPT !.pc = "receipt", !.hash = 0] /\ m.vout = d
    BY <1>4 DEF RecordHash, At
  <2>2. QED
    BY <1>1, <2>1, SignerSet
<1>5. FinalizeMint(d) \/ Propose(d) => IsSigner(m', "audit", d, m.hash)
  BY GotoIs DEF FinalizeMint, Propose, At
<1>6. RecordSafeHash(d) => IsSigner(m', "propose", d, m.hash)
  BY GotoIs DEF RecordSafeHash, At
<1>7. CheckProposal(d) => IF safeTx[d] = "none" THEN Throw(d)
                          ELSE IsSigner(m', "audit", d, m.hash) /\ job' = job
  BY GotoIs DEF CheckProposal, At
<1>8. WriteAudit(d) => IsSigner(m', "done", d, m.hash)
  BY GotoIs DEF WriteAudit, At
<1>9. QED
  BY <1>2, <1>3, <1>4, <1>5, <1>6, <1>7, <1>8

\* An attempt ends: the worker is idle and the job is what the throw made it.
LEMMA ThrowIs ==
    ASSUME TypeOK, NEW d \in Vout, Throw(d)
    PROVE  /\ IsSigner(m', "idle", 0, 0)
           /\ job' \in [Vout -> Job]
           /\ \A e \in Vout : e # d => job'[e] = job[e]
BY JobType, BlankRecords DEF Throw, TypeOK, SharedTypeOK

\* A step writes the row of one output.
RowBecomes(d, status, hash, safe) ==
    /\ row' \in [Vout -> Deposit]
    /\ IsRow(row'[d], status, hash, safe, row[d].age)
    /\ \A e \in Vout : e # d => row'[e] = row[e]

LEMMA RowPut ==
    ASSUME TypeOK, NEW d \in Vout, NEW r, row' = [row EXCEPT ![d] = r],
           NEW status, NEW hash, NEW safe, IsRow(r, status, hash, safe, row[d].age)
    PROVE  RowBecomes(d, status, hash, safe)
BY DEF RowBecomes, IsRow, TypeOK, SharedTypeOK

\* What the signer writes into it.
LEMMA RowMoves ==
    ASSUME TypeOK, NEW d \in Vout
    PROVE  /\ ClaimMint(d) =>
                 RowBecomes(d, IF Claimable(d) THEN "MINTING" ELSE row[d].status,
                            row[d].hash, row[d].safe)
           /\ RecordHash(d) => RowBecomes(d, row[d].status, m.hash, row[d].safe)
           /\ FinalizeMint(d) => RowBecomes(d, "MINTED", row[d].hash, row[d].safe)
           /\ FinalizeReverted(d) => RowBecomes(d, "FAILED", row[d].hash, row[d].safe)
           /\ RecordSafeHash(d) => RowBecomes(d, row[d].status, row[d].hash, TRUE)
<1>1. row[d] \in Deposit /\ m.hash \in Nat
  BY DEF TypeOK, SharedTypeOK, SignerTypeOK, Signer
<1>2. /\ IsRow([row[d] EXCEPT !.status = "MINTING"], "MINTING", row[d].hash, row[d].safe, row[d].age)
      /\ IsRow([row[d] EXCEPT !.status = "MINTED"], "MINTED", row[d].hash, row[d].safe, row[d].age)
      /\ IsRow([row[d] EXCEPT !.status = "FAILED"], "FAILED", row[d].hash, row[d].safe, row[d].age)
      /\ IsRow([row[d] EXCEPT !.hash = m.hash], row[d].status, m.hash, row[d].safe, row[d].age)
      /\ IsRow([row[d] EXCEPT !.safe = TRUE], row[d].status, row[d].hash, TRUE, row[d].age)
      /\ IsRow(row[d], row[d].status, row[d].hash, row[d].safe, row[d].age)
  BY <1>1, RowSet, Values
<1>3. ASSUME ClaimMint(d)
      PROVE  RowBecomes(d, IF Claimable(d) THEN "MINTING" ELSE row[d].status,
                        row[d].hash, row[d].safe)
  <2>1. CASE Claimable(d)
    <3>1. row' = [row EXCEPT ![d] = [row[d] EXCEPT !.status = "MINTING"]]
      BY <1>3, <2>1, ClaimMoves
    <3>2. QED
      BY <1>2, <2>1, <3>1, RowPut
  <2>2. CASE ~Claimable(d)
    <3>1. row' = row
      BY <1>3, <2>2, ClaimMoves
    <3>2. QED
      BY <1>2, <2>2, <3>1 DEF RowBecomes, TypeOK, SharedTypeOK
  <2>3. QED
    BY <2>1, <2>2
<1>4. ASSUME RecordHash(d)
      PROVE  RowBecomes(d, row[d].status, m.hash, row[d].safe)
  <2>1. row' = [row EXCEPT ![d] = [row[d] EXCEPT !.hash = m.hash]]
    BY <1>4 DEF RecordHash
  <2>2. QED
    BY <1>2, <2>1, RowPut
<1>5. ASSUME FinalizeMint(d)
      PROVE  RowBecomes(d, "MINTED", row[d].hash, row[d].safe)
  <2>1. row' = [row EXCEPT ![d] = [row[d] EXCEPT !.status = "MINTED"]]
    BY <1>5 DEF FinalizeMint
  <2>2. QED
    BY <1>2, <2>1, RowPut
<1>6. ASSUME FinalizeReverted(d)
      PROVE  RowBecomes(d, "FAILED", row[d].hash, row[d].safe)
  <2>1. row' = [row EXCEPT ![d] = [row[d] EXCEPT !.status = "FAILED"]]
    BY <1>6 DEF FinalizeReverted
  <2>2. QED
    BY <1>2, <2>1, RowPut
<1>7. ASSUME RecordSafeHash(d)
      PROVE  RowBecomes(d, row[d].status, row[d].hash, TRUE)
  <2>1. row' = [row EXCEPT ![d] = [row[d] EXCEPT !.safe = TRUE]]
    BY <1>7 DEF RecordSafeHash
  <2>2. QED
    BY <1>2, <2>1, RowPut
<1>8. QED
  BY <1>3, <1>4, <1>5, <1>6, <1>7

\* The watcher's locals after a step of the signer.
LEMMA AroundSignerIs ==
    ASSUME NEW d \in Vout, TypeOK, SignerNext(d)
    PROVE  \E n \in Nat :
              /\ IsWatcher(f', f.pc, f.todo, f.h, f.safe, f.supply, f.inflight, n)
              /\ n = IF SlipsBy(d) THEN f.missed + MintWei(d) ELSE f.missed
<1>1. f \in Watcher
  BY DEF TypeOK, WatcherTypeOK
<1>2. f.missed + MintWei(d) \in Nat
  BY <1>1, AmountTypes DEF Watcher
<1>3. CASE SlipsBy(d)
  <2>1. f' = [f EXCEPT !.missed = f.missed + MintWei(d)]
    BY <1>3 DEF SignerNext, AroundSigner
  <2> DEFINE n == f.missed + MintWei(d)
  <2> HIDE DEF n
  <2>2. n \in Nat /\ f' = [f EXCEPT !.missed = n]
    BY <1>2, <2>1 DEF n
  <2>3. IsWatcher(f', f.pc, f.todo, f.h, f.safe, f.supply, f.inflight, n)
    BY <1>1, <2>2, WatcherSetReads
  <2>4. QED
    BY <1>3, <2>2, <2>3 DEF n
<1>4. CASE ~SlipsBy(d)
  <2>1. f' = f
    BY <1>4 DEF SignerNext, AroundSigner
  <2>2. IsWatcher(f', f.pc, f.todo, f.h, f.safe, f.supply, f.inflight, f.missed)
        /\ f.missed \in Nat
    BY <1>1, <2>1 DEF IsWatcher, Watcher
  <2>3. QED
    BY <1>4, <2>2
<1>5. QED
  BY <1>3, <1>4

\* No step of the signer leaves the types.
LEMMA SignerType ==
    ASSUME NEW d \in Vout, TypeOK, SignerNext(d)
    PROVE  TypeOK'
<1>1. SignerStep(d) /\ d # 0
  BY VoutFacts DEF SignerNext
<1> DEFINE SignerOK == \E pc, e, n : /\ IsSigner(m', pc, e, n)
                                     /\ e = 0 <=> pc \in {"off", "idle"}
<1>2. ASSUME NEW pc, NEW n, IsSigner(m', pc, d, n), pc \notin {"off", "idle"}
      PROVE  SignerOK
  BY <1>1, <1>2
<1>3. ASSUME Throw(d)
      PROVE  SignerOK /\ job' \in [Vout -> Job]
  BY <1>3, ThrowIs
<1>4. m' = m => SignerOK
  <2>1. IsSigner(m, m.pc, m.vout, m.hash) /\ (m.vout = 0 <=> m.pc \in {"off", "idle"})
    BY DEF TypeOK, SignerTypeOK, IsSigner
  <2>2. QED
    BY <2>1
<1>5. SignerOK => \E pc, e, n : /\ IsSigner(m', pc, e, n)
                                /\ e = 0 <=> pc \in {"off", "idle"}
  OBVIOUS
<1> HIDE DEF SignerOK
<1> DEFINE Types == /\ row' \in [Vout -> Deposit]
                    /\ job' \in [Vout -> Job]
                    /\ upsets' \in 0..MaxUpsets
                    /\ tx' \in [Vout -> Seq(TxStatus)]
                    /\ supply' \in Nat
                    /\ SignerOK
                    /\ safeTx' \in [Vout -> {"none", "proposed", "executed"}]
                    /\ lost' \in [Vout -> Nat]
<1>6. /\ row \in [Vout -> Deposit] /\ job \in [Vout -> Job] /\ upsets \in 0..MaxUpsets
      /\ tx \in [Vout -> Seq(TxStatus)] /\ supply \in Nat
      /\ safeTx \in [Vout -> {"none", "proposed", "executed"}] /\ lost \in [Vout -> Nat]
  BY DEF TypeOK, SharedTypeOK, SignerTypeOK
<1>7. ASSUME TakeJob(d) PROVE Types
  <2>1. SignerOK
    BY <1>2, <1>7, SignerMoves
  <2>2. QED
    BY <1>6, <1>7, <2>1, JobType DEF TakeJob, OnBase
<1>8. ASSUME LoadRow(d) PROVE Types
  <2>1. SignerOK
    BY <1>2, <1>8, LoadMoves
  <2>2. QED
    BY <1>6, <1>8, <2>1 DEF LoadRow, OnBase
<1>9. ASSUME ClaimMint(d) PROVE Types
  <2>1. SignerOK
    <3>1. PICK pc : IsSigner(m', pc, d, m.hash)
      BY <1>9, ClaimMoves
    <3>2. pc \notin {"off", "idle"}
      BY <1>9, <3>1, ClaimMoves DEF IsSigner
    <3>3. QED
      BY <1>2, <3>1, <3>2
  <2>2. row' \in [Vout -> Deposit]
    BY <1>9, RowMoves DEF RowBecomes
  <2>3. QED
    BY <1>6, <1>9, <2>1, <2>2 DEF ClaimMint, OnBase
<1>10. ASSUME Broadcast(d) PROVE Types
  <2>1. SignerOK
    BY <1>2, <1>10, SignerMoves
  <2>2. tx' \in [Vout -> Seq(TxStatus)]
    BY <1>6, <1>10 DEF Broadcast, TxStatus
  <2>3. QED
    BY <1>6, <1>10, <2>1, <2>2 DEF Broadcast
<1>11. ASSUME BroadcastRefused(d) PROVE Types
  BY <1>3, <1>6, <1>11 DEF BroadcastRefused, OnBase
<1>12. ASSUME RecordHash(d) PROVE Types
  <2>1. SignerOK
    BY <1>2, <1>12, SignerMoves
  <2>2. row' \in [Vout -> Deposit]
    BY <1>12, RowMoves DEF RowBecomes
  <2>3. QED
    BY <1>6, <1>12, <2>1, <2>2 DEF RecordHash, OnBase
<1>13. ASSUME FinalizeMint(d) PROVE Types
  <2>1. SignerOK
    BY <1>2, <1>13, SignerMoves
  <2>2. row' \in [Vout -> Deposit]
    BY <1>13, RowMoves DEF RowBecomes
  <2>3. QED
    BY <1>6, <1>13, <2>1, <2>2 DEF FinalizeMint, OnBase
<1>14. ASSUME FinalizeReverted(d) PROVE Types
  <2>1. row' \in [Vout -> Deposit]
    BY <1>14, RowMoves DEF RowBecomes
  <2>2. QED
    BY <1>3, <1>6, <1>14, <2>1 DEF FinalizeReverted, OnBase
<1>15. ASSUME RecordSafeHash(d) PROVE Types
  <2>1. SignerOK
    BY <1>2, <1>15, SignerMoves
  <2>2. row' \in [Vout -> Deposit]
    BY <1>15, RowMoves DEF RowBecomes
  <2>3. QED
    BY <1>6, <1>15, <2>1, <2>2 DEF RecordSafeHash, OnBase
<1>16. ASSUME Propose(d) PROVE Types
  <2>1. SignerOK
    BY <1>2, <1>16, SignerMoves
  <2>2. QED
    BY <1>6, <1>16, <2>1 DEF Propose, OnBase
<1>17. ASSUME CheckProposal(d) PROVE Types
  <2>1. SignerOK /\ job' \in [Vout -> Job]
    <3>1. CASE safeTx[d] = "none"
      BY <1>3, <1>17, <3>1, SignerMoves
    <3>2. CASE safeTx[d] # "none"
      BY <1>2, <1>6, <1>17, <3>2, SignerMoves
    <3>3. QED
      BY <3>1, <3>2
  <2>2. QED
    BY <1>6, <1>17, <2>1 DEF CheckProposal, OnBase
<1>18. ASSUME WriteAudit(d) PROVE Types
  <2>1. SignerOK
    BY <1>2, <1>18, SignerMoves
  <2>2. QED
    BY <1>6, <1>18, <2>1 DEF WriteAudit, OnBase
<1>19. ASSUME EndJob(d) PROVE Types
  <2>1. SignerOK
    BY <1>19, BlankRecords DEF SignerOK, EndJob
  <2>2. job' \in [Vout -> Job]
    BY <1>6, <1>19, JobType, ZenonT(60) DEF EndJob
  <2>3. QED
    BY <1>6, <1>19, <2>1, <2>2 DEF EndJob, OnBase
<1>20. ASSUME StepFails(d) PROVE Types
  <2>1. Forgotten(d) \in Nat
    BY <1>6 DEF Forgotten
  <2>2. upsets' \in 0..MaxUpsets /\ Throw(d)
    BY <1>6, <1>20, FaultType DEF StepFails
  <2>3. QED
    BY <1>3, <1>6, <1>20, <2>1, <2>2 DEF StepFails, OnBase
<1>21. ASSUME BroadcastUnanswered(d) PROVE Types
  <2>1. tx' \in [Vout -> Seq(TxStatus)]
    BY <1>6, <1>21 DEF BroadcastUnanswered, TxStatus
  <2>2. upsets' \in 0..MaxUpsets /\ Throw(d)
    BY <1>6, <1>21, FaultType DEF BroadcastUnanswered
  <2>3. QED
    BY <1>3, <1>6, <1>21, <2>1, <2>2 DEF BroadcastUnanswered
<1>22. ASSUME ProposeUnanswered(d) PROVE Types
  <2>1. upsets' \in 0..MaxUpsets /\ Throw(d)
    BY <1>6, <1>22, FaultType DEF ProposeUnanswered
  <2>2. QED
    BY <1>3, <1>6, <1>22, <2>1 DEF ProposeUnanswered, OnBase
<1>23. ASSUME ExecuteSafe(d) PROVE Types
  <2>1. tx' \in [Vout -> Seq(TxStatus)]
    BY <1>6, <1>23 DEF ExecuteSafe, TxStatus
  <2>2. supply' \in Nat
    BY <1>6, <1>23, AmountTypes DEF ExecuteSafe
  <2>3. QED
    BY <1>4, <1>6, <1>23, <2>1, <2>2 DEF ExecuteSafe
<1>24. ASSUME JobStalls(d) PROVE Types
  BY <1>4, <1>6, <1>24, JobType DEF JobStalls, OnBase
<1>25. ASSUME JobTrimmed(d) PROVE Types
  BY <1>4, <1>6, <1>25, JobType DEF JobTrimmed, OnBase
<1>26. Types
  BY <1>1, <1>7, <1>8, <1>9, <1>10, <1>11, <1>12, <1>13, <1>14, <1>15, <1>16, <1>17, <1>18,
     <1>19, <1>20, <1>21, <1>22, <1>23, <1>24, <1>25 DEF SignerStep, SignerProgress
<1>27. /\ f' \in Watcher /\ UNCHANGED <<intent, known, mode, chainVars, cursor, origin, slip,
                                        deployment, paused>>
  BY AroundSignerIs DEF IsWatcher, SignerNext, AroundSigner
<1>28. m' \in Signer /\ ((m'.vout = 0) <=> (m'.pc \in {"off", "idle"}))
  BY <1>5, <1>26 DEF IsSigner
<1>29. QED
  BY <1>26, <1>27, <1>28
     DEF TypeOK, SharedTypeOK, WatcherTypeOK, SignerTypeOK, chainVars, deployment

\* No step of the process leaves the types.
LEMMA ProcessType ==
    ASSUME TypeOK, Crash \/ Stop \/ Exit \/ Start
    PROVE  TypeOK'
<1>1. /\ FOff \in Watcher /\ FBlank \in Watcher
      /\ MOff \in Signer /\ MOff.vout = 0 /\ MOff.pc = "off"
      /\ MIdle \in Signer /\ MIdle.vout = 0 /\ MIdle.pc = "idle"
  BY BlankRecords DEF IsWatcher, IsSigner
<1> USE DEF TypeOK, SharedTypeOK, WatcherTypeOK, SignerTypeOK, chainVars, deployment
<1>2. CASE Crash
  <2>1. \A d \in Vout : Forgotten(d) \in Nat
    BY DEF Forgotten
  <2>2. intent' \in [Addr -> Intent]
    <3>1. \A a \in Addr : [intent[a] EXCEPT !.status = "dropped"] \in Intent
      BY DEF Intent, IntentStatus
    <3>2. QED
      BY <1>2, <3>1 DEF Crash
  <2>3. upsets' \in 0..MaxUpsets
    BY <1>2, FaultType DEF Crash
  <2>4. QED
    BY <1>1, <1>2, <2>1, <2>2, <2>3 DEF Crash
<1>3. CASE Stop
  <2>1. upsets' \in 0..MaxUpsets
    BY <1>3, FaultType DEF Stop
  <2>2. QED
    BY <1>3, <2>1 DEF Stop, watcherVars, signerVars
<1>4. CASE Exit
  BY <1>1, <1>4 DEF Exit
<1>5. CASE Start
  <2>1. /\ upsets' \in 0..MaxUpsets /\ auth' \in AuthMode /\ switches' \in 0..MaxSwitches
    <3>1. CASE SwitchMode
      BY <3>1, FaultType, ProcessAssumption DEF SwitchMode
    <3>2. CASE UNCHANGED <<deployment, upsets>>
      BY <3>2
    <3>3. QED
      BY <1>5, <3>1, <3>2 DEF Start
  <2>2. QED
    BY <1>1, <1>5, <2>1 DEF Start
<1>6. QED
  BY <1>2, <1>3, <1>4, <1>5

\* Nor does one of the chains, the depositors, the operator or the clock.
LEMMA WorldType ==
    ASSUME TypeOK,
           \/ \E a \in Addr : ApiNext(a)
           \/ NewBlock
           \/ \E d \in Vout : Mine(d)
           \/ \E flag \in BOOLEAN : SetPaused(flag)
           \/ BurnAll
           \/ Tick
    PROVE  TypeOK'
<1> USE DEF TypeOK, SharedTypeOK, WatcherTypeOK, SignerTypeOK, chainVars, deployment,
            watcherVars, signerVars
<1>1. ASSUME NEW a \in Addr, ApiNext(a)
      PROVE  TypeOK'
  <2>1. CASE AllocateAddress(a)
    BY <1>1, <2>1 DEF ApiNext, AllocateAddress, AnswerIntent, CreateIntent, IntentFails,
                      AroundApi, Intent, IntentStatus
  <2>2. CASE CreateIntent(a)
    BY <1>1, <2>2 DEF ApiNext, AnswerIntent, AllocateAddress, CreateIntent, IntentFails,
                      AroundApi, Intent, IntentStatus
  <2>3. CASE IntentFails(a)
    <3>1. upsets' \in 0..MaxUpsets
      BY <2>3, FaultType DEF IntentFails
    <3>2. QED
      BY <1>1, <2>3, <3>1 DEF ApiNext, AnswerIntent, AllocateAddress, CreateIntent,
                              IntentFails, AroundApi, Intent, IntentStatus
  <2>4. QED
    BY <1>1, <2>1, <2>2, <2>3 DEF ApiNext, AnswerIntent
<1>2. CASE NewBlock
  BY <1>2, WatcherAssumption DEF NewBlock
<1>3. ASSUME NEW d \in Vout, Mine(d)
      PROVE  TypeOK'
  <2>1. PICK i \in DOMAIN tx[d], status \in {"reverted", "success"} : Mined(d, i, status)
    BY <1>3 DEF Mine
  <2>2. tx' \in [Vout -> Seq(TxStatus)]
    BY <2>1 DEF Mined, TxStatus
  <2>3. supply' \in Nat
    BY <2>1, AmountTypes DEF Mined
  <2>4. QED
    BY <1>3, <2>2, <2>3 DEF Mine
<1>4. ASSUME NEW flag \in BOOLEAN, SetPaused(flag)
      PROVE  TypeOK'
  <2>1. upsets' \in 0..MaxUpsets
    BY <1>4, FaultType DEF SetPaused
  <2>2. QED
    BY <1>4, <2>1 DEF SetPaused
<1>5. CASE BurnAll
  <2>1. upsets' \in 0..MaxUpsets
    BY <1>5, FaultType DEF BurnAll
  <2>2. QED
    BY <1>5, <2>1 DEF BurnAll
<1>6. CASE Tick
  <2>1. \A age \in 0..Day : Older(age) \in 0..Day
    BY DepositAssumption DEF Older
  <2>2. intent' \in [Addr -> Intent]
    BY <1>6, <2>1 DEF Tick, Intent
  <2>3. row' \in [Vout -> Deposit]
    <3>1. \A d \in Vout : [row[d] EXCEPT !.age = Older(row[d].age), !.since = Older(row[d].since)] \in Deposit
      BY <2>1 DEF Deposit
    <3>2. QED
      BY <1>6, <3>1 DEF Tick
  <2>4. QED
    BY <1>6, <2>2, <2>3 DEF Tick
<1>7. QED
  BY <1>1, <1>2, <1>3, <1>4, <1>5, <1>6

\* Every step keeps the types.
LEMMA TypeStep == TypeOK /\ [Next]_vars => TypeOK'
<1> SUFFICES ASSUME TypeOK, [Next]_vars
             PROVE  TypeOK'
  OBVIOUS
<1>1. CASE UNCHANGED vars
  BY <1>1 DEF vars, TypeOK, SharedTypeOK, WatcherTypeOK, SignerTypeOK, chainVars,
              deployment, watcherVars, signerVars
<1>2. CASE Next
  BY <1>2, WatcherType, SignerType, ProcessType, WorldType DEF Next
<1>3. QED
  BY <1>1, <1>2

-----------------------------------------------------------------------------
(***************************************************************************)
(* The invariant of one output.                                            *)
(***************************************************************************)

\* The initial state satisfies the invariant.
LEMMA InitInv == Init => IInv
<1> SUFFICES ASSUME Init PROVE IInv
  OBVIOUS
<1>1. TypeOK
  BY InitType
<1>2. /\ m.pc = "idle" /\ m.vout = 0 /\ f.pc = "load" /\ switches = 0 /\ cursor = -1
      /\ tip = 0 /\ supply = 0 /\ slip = 0 /\ f.supply = -1 /\ f.inflight = -1
  BY BlankRecords DEF Init, SignerInit, WatcherInit, SharedInit, IsSigner, IsWatcher
<1>3. \A d \in Vout : /\ row[d] = NoRow /\ row[d].status = "none" /\ row[d].hash = 0
                      /\ row[d].safe = FALSE /\ job[d].state = "none"
                      /\ tx[d] = <<>> /\ safeTx[d] = "none" /\ lost[d] = 0 /\ height[d] = 0
  BY BlankRecords DEF Init, SharedInit, SignerInit, WatcherInit, IsRow, NoJob
<1>4. ASSUME NEW d \in Vout
      PROVE  DepositInv(d)
  <2>1. d # 0
    BY VoutFacts
  <2>2. RowInv(d) /\ PaidInv(d)
    BY <1>3 DEF RowInv, PaidInv, Admitted, Live, Exists
  <2>3. MintInv(d) /\ AccountedFor(d) /\ ModeInv(d)
    BY <1>2, <1>3, <2>1 DEF MintInv, AccountedFor, ModeInv, Filed, InHand, BySafe, At
  <2>4. QED
    BY <2>2, <2>3 DEF DepositInv
<1>5. ScanInv /\ CoverInv
  BY <1>2, <1>3 DEF ScanInv, CoverInv, InBlock, Covered
<1>6. KnownInv
  BY <1>2, <1>3 DEF KnownInv, Init, SharedInit, NoIntent
<1>7. CapInv
  <2>1. ASSUME NEW d \in Vout PROVE SumDaily(OwnerOf(d)) = 0
    <3>1. {e \in Vout : Counted(e) /\ OwnerOf(e) = OwnerOf(d)} = {}
      BY <1>3 DEF Counted
    <3>2. MapThenSumSet(VoutSats, {}) = Total([e \in {} |-> VoutSats(e)], {})
      BY ZenonT(60) DEF Total, MapThenSumSet, MapThenFoldSet
    <3>3. QED
      BY <3>1, <3>2, TotalEmpty DEF SumDaily
  <2>2. QED
    BY <1>2, <2>1, WatcherAssumption DEF CapInv, SumsUnderCap
<1>8. TvlInv
  <2>1. \A d \in Vout : Successes(d) = {} /\ Minted(d) = 0 /\ Owed(d) = 0
    <3>1. \A d \in Vout : Successes(d) = {} /\ Owed(d) = 0
      BY <1>3 DEF Successes, Owed
    <3>2. QED
      BY <3>1, FS_EmptySet DEF Minted
  <2>2. \A d \in Vout : Pledges[d] = 0
    BY <2>1, AmountTypes DEF Pledges
  <2>3. Total(Pledges, Vout) = 0
    <3>1. Pledges = [d \in Vout |-> 0]
      BY <2>2 DEF Pledges
    <3>2. QED
      BY <3>1, VoutFacts, TotalZero
  <2>4. QED
    BY <1>2, <2>3, WatcherAssumption DEF TvlInv, Exposure
<1>9. QED
  BY <1>1, <1>4, <1>5, <1>6, <1>7, <1>8 DEF IInv

\* A step that touches neither an output's row, job and mints nor a signer
\* working on it keeps what is known of it.
LEMMA DepositFrame ==
    ASSUME NEW d \in Vout, DepositInv(d), TypeOK, tip' \in Nat, tip' >= tip,
           height[d] > 0 => height'[d] = height[d],
           mode' = "down" => mode = "down",
           row'[d].status = row[d].status, row'[d].hash = row[d].hash,
           row'[d].safe = row[d].safe,
           job'[d] = job[d], tx'[d] = tx[d], safeTx'[d] = safeTx[d], lost'[d] = lost[d],
           UNCHANGED deployment,
           m.vout = d \/ m'.vout = d => m' = m
    PROVE  DepositInv(d)'
<1> USE DEF DepositInv, deployment
<1>1. RowInv(d)' /\ MintInv(d)'
  BY DEF RowInv, MintInv, Exists, Receipt, Unsigned
<1>2. PaidInv(d)'
  BY WatcherAssumption DEF PaidInv, Admitted, Backed, TypeOK, WatcherTypeOK
<1>3. AccountedFor(d)' /\ ModeInv(d)'
  BY DEF AccountedFor, ModeInv, Filed, InHand, BySafe, At
<1>4. QED
  BY <1>1, <1>2, <1>3

\* What queue.add may find: a row without a job, or a job it leaves alone.
LEMMA AddedState ==
    ASSUME NEW j
    PROVE  Added(j).state = IF j.state = "none" THEN "wait" ELSE j.state
BY DEF Added, NoJob

\* A step of the job of a stored row that no attempt is at work on.
LEMMA DepositQueued ==
    ASSUME NEW d \in Vout, DepositInv(d), TypeOK,
           Exists(d) \/ job'[d].state = job[d].state,
           m.vout = d => job'[d].state = job[d].state,
           UNCHANGED <<row, tx, safeTx, lost, m, chainVars, mode, deployment>>
    PROVE  DepositInv(d)'
<1> USE DEF DepositInv, deployment, chainVars
<1>1. RowInv(d)' /\ PaidInv(d)' /\ MintInv(d)'
  BY DEF RowInv, PaidInv, MintInv, Exists, Receipt, Unsigned, Admitted, Backed
<1>2. AccountedFor(d)' /\ ModeInv(d)'
  BY DEF AccountedFor, ModeInv, Filed, InHand, BySafe, At
<1>3. QED
  BY <1>1, <1>2

\* A step of the signer about one output touches no other.
LEMMA SignerTouches ==
    ASSUME TypeOK, NEW d \in Vout, SignerStep(d), NEW c \in Vout, c # d
    PROVE  /\ row'[c] = row[c] /\ job'[c] = job[c] /\ tx'[c] = tx[c]
           /\ safeTx'[c] = safeTx[c] /\ lost'[c] = lost[c]
           /\ m.vout = c \/ m'.vout = c => m' = m
<1>1. /\ row \in [Vout -> Deposit] /\ job \in [Vout -> Job]
      /\ tx \in [Vout -> Seq(TxStatus)]
      /\ safeTx \in [Vout -> {"none", "proposed", "executed"}] /\ lost \in [Vout -> Nat]
  BY DEF TypeOK, SharedTypeOK, SignerTypeOK
<1>2. c # 0 /\ (m.pc = "idle" => m.vout = 0)
  BY VoutFacts DEF TypeOK, SignerTypeOK
<1>3. row'[c] = row[c]
  <2>1. row' = row \/ \E status, hash, safe : RowBecomes(d, status, hash, safe)
    BY RowMoves DEF SignerStep, SignerProgress, TakeJob, LoadRow, Broadcast, BroadcastRefused,
       Propose, CheckProposal, WriteAudit, EndJob, StepFails, BroadcastUnanswered,
       ProposeUnanswered, ExecuteSafe, JobStalls, JobTrimmed
  <2>2. QED
    BY <2>1 DEF RowBecomes
<1>4. job'[c] = job[c]
  <2>1. job' = job \/ \E j : job' = [job EXCEPT ![d] = j]
    BY DEF SignerStep, SignerProgress, TakeJob, LoadRow, ClaimMint, Broadcast,
       BroadcastRefused, RecordHash, FinalizeMint, FinalizeReverted, RecordSafeHash,
       Propose, CheckProposal, WriteAudit, EndJob, StepFails, BroadcastUnanswered,
       ProposeUnanswered, ExecuteSafe, JobStalls, JobTrimmed, Throw
  <2>2. QED
    BY <1>1, <2>1
<1>5. /\ tx'[c] = tx[c] /\ safeTx'[c] = safeTx[c] /\ lost'[c] = lost[c]
  BY <1>1 DEF SignerStep, SignerProgress, TakeJob, LoadRow, ClaimMint, Broadcast,
     BroadcastRefused, RecordHash, FinalizeMint, FinalizeReverted, RecordSafeHash, Propose,
     CheckProposal, WriteAudit, EndJob, StepFails, BroadcastUnanswered, ProposeUnanswered,
     ExecuteSafe, JobStalls, JobTrimmed, OnBase
<1>6. m.vout = c \/ m'.vout = c => m' = m
  <2>1. \/ m' = m
        \/ m.vout \in {0, d} /\ m'.vout \in {0, d}
    <3>1. ASSUME Throw(d) PROVE m'.vout = 0
      BY <3>1, ThrowIs DEF IsSigner
    <3>2. CASE TakeJob(d)
      BY <1>2, <3>2, SignerMoves DEF TakeJob, IsSigner
    <3>3. CASE LoadRow(d)
      BY <3>3, LoadMoves DEF LoadRow, IsSigner, At
    <3>4. CASE ClaimMint(d)
      BY <3>4, ClaimMoves DEF ClaimMint, IsSigner, At
    <3>5. CASE Broadcast(d) \/ RecordHash(d) \/ FinalizeMint(d)
      BY <3>5, SignerMoves DEF Broadcast, RecordHash, FinalizeMint, IsSigner, At
    <3>6. CASE RecordSafeHash(d) \/ Propose(d) \/ WriteAudit(d)
      BY <3>6, SignerMoves DEF RecordSafeHash, Propose, WriteAudit, IsSigner, At
    <3>7. CASE CheckProposal(d)
      BY <3>1, <3>7, SignerMoves DEF CheckProposal, IsSigner, At
    <3>8. CASE BroadcastRefused(d) \/ FinalizeReverted(d)
      BY <3>1, <3>8 DEF BroadcastRefused, FinalizeReverted, At
    <3>9. CASE StepFails(d) \/ BroadcastUnanswered(d) \/ ProposeUnanswered(d)
      BY <3>1, <3>9 DEF StepFails, BroadcastUnanswered, ProposeUnanswered, At
    <3>10. CASE EndJob(d)
      BY <3>10, BlankRecords DEF EndJob, IsSigner, At
    <3>11. CASE ExecuteSafe(d) \/ JobStalls(d) \/ JobTrimmed(d)
      BY <3>11 DEF ExecuteSafe, JobStalls, JobTrimmed
    <3>12. QED
      BY <3>2, <3>3, <3>4, <3>5, <3>6, <3>7, <3>8, <3>9, <3>10, <3>11
         DEF SignerStep, SignerProgress
  <2>2. QED
    BY <1>2, <2>1
<1>7. QED
  BY <1>3, <1>4, <1>5, <1>6

\* What is known of an output an attempt is at work on.
Attempted(d) ==
    /\ DepositInv(d)
    /\ m.vout = d /\ job[d].state = "active" /\ mode # "down" /\ Exists(d)
    /\ UNCHANGED <<mode, chainVars, deployment>>

LEMMA AttemptedIs ==
    ASSUME NEW d \in Vout, DepositInv(d), SignerNext(d), m.vout = d
    PROVE  Attempted(d)
BY DEF Attempted, DepositInv, MintInv, RowInv, Exists, SignerNext, AroundSigner

\* An attempt that goes on: the row, the mints and the proposal are as the
\* next call expects them.
LEMMA AttemptGoesOn ==
    ASSUME TypeOK, NEW d \in Vout, Attempted(d), NEW pc, NEW n, IsSigner(m', pc, d, n),
           m.pc # "record", pc # "record",
           UNCHANGED <<row, job, tx, safeTx, lost>>,
           pc = "claim" => row[d].status \in {"CONFIRMED", "MINTING"} /\ Unsigned(d),
           pc \in {"broadcast", "receipt", "safehash", "propose", "check"} =>
              row[d].status = "MINTING" /\ pc = SignPc(d)
    PROVE  DepositInv(d)'
<1> USE DEF Attempted, DepositInv
<1>1. RowInv(d)' /\ PaidInv(d)'
  BY DEF RowInv, PaidInv, Exists, Receipt, Admitted, Backed, chainVars
<1>2. MintInv(d)'
  BY SignPcIs DEF MintInv, IsSigner, Unsigned
<1>3. AccountedFor(d)'
  BY DEF AccountedFor, Filed, InHand, BySafe, At, IsSigner
<1>4. ModeInv(d)'
  BY SignPcIs DEF ModeInv, IsSigner, At, deployment
<1>5. QED
  BY <1>1, <1>2, <1>3, <1>4

\* An attempt that ends: nothing is expected of the deposit any more, and a
\* hash that was only in memory is counted as lost.
LEMMA AttemptEnds ==
    ASSUME TypeOK, NEW d \in Vout, Attempted(d), IsSigner(m', "idle", 0, 0),
           UNCHANGED <<row, tx, safeTx>>, lost'[d] = Forgotten(d)
    PROVE  DepositInv(d)'
<1> USE DEF Attempted, DepositInv
<1>1. m'.vout # d
  BY VoutFacts DEF IsSigner
<1>2. RowInv(d)' /\ PaidInv(d)'
  BY DEF RowInv, PaidInv, Exists, Receipt, Admitted, Backed, chainVars
<1>3. MintInv(d)'
  BY <1>1 DEF MintInv
<1>4. AccountedFor(d)'
  <2>1. /\ InHand(d)' = 0 /\ Filed(d)' = Filed(d) /\ BySafe(d)' = BySafe(d)
        /\ lost'[d] = lost[d] + InHand(d)
    BY <1>1 DEF InHand, Filed, BySafe, At, Forgotten, TypeOK, SignerTypeOK
  <2>2. lost[d] \in Nat /\ Filed(d) \in Nat /\ BySafe(d) \in Nat /\ InHand(d) \in Nat
    BY DEF TypeOK, SignerTypeOK, InHand, Filed, BySafe
  <2>3. QED
    BY <2>1, <2>2 DEF AccountedFor
<1>5. ModeInv(d)'
  BY <1>1 DEF ModeInv, At, deployment
<1>6. QED
  BY <1>2, <1>3, <1>4, <1>5

\* The steps of an attempt that write something.
LEMMA ClaimDeposit ==
    ASSUME TypeOK, NEW d \in Vout, Attempted(d), ClaimMint(d)
    PROVE  DepositInv(d)'
<1> USE DEF Attempted, DepositInv
<1>1. Claimable(d)
  BY DEF ClaimMint, At, MintInv, Claimable
<1>2. RowBecomes(d, "MINTING", row[d].hash, row[d].safe)
  BY <1>1, RowMoves
<1>3. row'[d].status = "MINTING" /\ row'[d].hash = 0 /\ row[d].hash = 0
      /\ ~row'[d].safe /\ ~row[d].safe
  BY <1>1, <1>2 DEF RowBecomes, IsRow, Claimable, Unsigned
<1>4. IsSigner(m', SignPc(d), d, m.hash)
  BY <1>1, ClaimMoves
<1>5. UNCHANGED <<job, tx, safeTx, lost>> /\ m.pc = "claim"
  BY DEF ClaimMint, OnBase, At
<1>6. RowInv(d)'
  BY <1>3, <1>5 DEF RowInv, Exists
<1>7. PaidInv(d)'
  BY <1>1, <1>3, <1>5 DEF PaidInv, Admitted, Live, Claimable, Backed, chainVars
<1>8. MintInv(d)' /\ ModeInv(d)'
  <2>1. \/ auth = "direct_eoa" /\ m'.pc = "broadcast"
        \/ auth = "safe_proposal" /\ m'.pc = "safehash"
    BY <1>3, <1>4, SignPcIs DEF IsSigner
  <2>2. safeTx[d] = "none"
    BY <1>3 DEF RowInv
  <2>3. QED
    BY <1>3, <1>4, <1>5, <2>1, <2>2 DEF MintInv, ModeInv, IsSigner, At, deployment
<1>9. AccountedFor(d)'
  <2>1. ~At(d, "record") /\ m'.pc # "record"
    BY <1>3, <1>4, <1>5, SignPcIs DEF At, IsSigner
  <2>2. QED
    BY <1>3, <1>5, <2>1 DEF AccountedFor, Filed, InHand, BySafe, At
<1>10. QED
  BY <1>6, <1>7, <1>8, <1>9

\* A broadcast that was answered.
LEMMA BroadcastDeposit ==
    ASSUME TypeOK, NEW d \in Vout, Attempted(d), Broadcast(d)
    PROVE  DepositInv(d)'
<1> USE DEF Attempted, DepositInv
<1>1. /\ m.pc = "broadcast" /\ row[d].status = "MINTING" /\ row[d].hash = 0
      /\ UNCHANGED <<row, job, safeTx, lost>>
  BY DEF Broadcast, At, MintInv
<1>2. tx[d] \in Seq(TxStatus) /\ lost[d] \in Nat /\ tx'[d] = Append(tx[d], "pending")
  BY DEF Broadcast, TypeOK, SharedTypeOK, SignerTypeOK
<1>3. Len(tx'[d]) = Len(tx[d]) + 1 /\ Len(tx[d]) + 1 \in DOMAIN tx'[d] /\ Len(tx[d]) \in Nat
  BY <1>2 DEF TxStatus
<1>4. m'.pc = "record" /\ m'.vout = d /\ m'.hash = Len(tx[d]) + 1
  BY SignerMoves DEF IsSigner
<1>5. RowInv(d)' /\ PaidInv(d)'
  BY <1>1 DEF RowInv, PaidInv, Exists, Admitted, Live, Backed, chainVars
<1>6. MintInv(d)' /\ ModeInv(d)'
  BY <1>1, <1>3, <1>4 DEF MintInv, ModeInv, At, deployment
<1>7. AccountedFor(d)'
  BY <1>1, <1>2, <1>3, <1>4 DEF AccountedFor, Filed, InHand, BySafe, At
<1>8. QED
  BY <1>5, <1>6, <1>7

\* ... and one that was not.
LEMMA UnansweredDeposit ==
    ASSUME TypeOK, NEW d \in Vout, Attempted(d), BroadcastUnanswered(d)
    PROVE  DepositInv(d)'
<1> USE DEF Attempted, DepositInv
<1>1. /\ m.pc = "broadcast" /\ row[d].status = "MINTING" /\ row[d].hash = 0
      /\ UNCHANGED <<row, safeTx>>
  BY DEF BroadcastUnanswered, At, MintInv
<1>2. /\ tx[d] \in Seq(TxStatus) /\ lost[d] \in Nat /\ tx'[d] = Append(tx[d], "pending")
      /\ lost'[d] = lost[d] + 1
  BY DEF BroadcastUnanswered, TypeOK, SharedTypeOK, SignerTypeOK
<1>3. Len(tx'[d]) = Len(tx[d]) + 1 /\ Len(tx[d]) \in Nat
  BY <1>2 DEF TxStatus
<1>4. m'.vout # d
  BY ThrowIs, VoutFacts DEF IsSigner, BroadcastUnanswered
<1>5. RowInv(d)' /\ PaidInv(d)'
  BY <1>1 DEF RowInv, PaidInv, Exists, Admitted, Live, Backed, chainVars
<1>6. MintInv(d)' /\ ModeInv(d)'
  BY <1>1, <1>4 DEF MintInv, ModeInv, At, deployment
<1>7. AccountedFor(d)'
  BY <1>1, <1>2, <1>3, <1>4 DEF AccountedFor, Filed, InHand, BySafe, At
<1>8. QED
  BY <1>5, <1>6, <1>7

\* The hash goes on file.
LEMMA RecordDeposit ==
    ASSUME TypeOK, NEW d \in Vout, Attempted(d), RecordHash(d)
    PROVE  DepositInv(d)'
<1> USE DEF Attempted, DepositInv
<1>1. /\ m.pc = "record" /\ row[d].status = "MINTING" /\ row[d].hash = 0
      /\ m.hash \in DOMAIN tx[d]
      /\ UNCHANGED <<job, tx, safeTx, lost>>
  BY DEF RecordHash, At, MintInv, OnBase
<1>2. m.hash # 0
  BY <1>1 DEF TypeOK, SharedTypeOK
<1>3. row'[d].status = "MINTING" /\ row'[d].hash = m.hash /\ row'[d].safe = row[d].safe
  BY <1>1, RowMoves DEF RowBecomes, IsRow
<1>4. m'.pc = "receipt" /\ m'.vout = d
  BY SignerMoves DEF IsSigner
<1>5. RowInv(d)' /\ PaidInv(d)'
  BY <1>1, <1>2, <1>3 DEF RowInv, PaidInv, Exists, Admitted, Live, Backed, chainVars
<1>6. MintInv(d)' /\ ModeInv(d)'
  BY <1>1, <1>2, <1>3, <1>4 DEF MintInv, ModeInv, At, deployment
<1>7. AccountedFor(d)'
  <2>1. Filed(d) = 0 /\ InHand(d) = 1 /\ Filed(d)' = 1 /\ InHand(d)' = 0
        /\ BySafe(d)' = BySafe(d)
    BY <1>1, <1>2, <1>3, <1>4 DEF Filed, InHand, BySafe, At
  <2>2. lost[d] \in Nat /\ BySafe(d) \in Nat
    BY DEF TypeOK, SignerTypeOK, BySafe
  <2>3. QED
    BY <1>1, <2>1, <2>2 DEF AccountedFor
<1>8. QED
  BY <1>5, <1>6, <1>7

\* The receipt decides.
LEMMA FinalizeDeposit ==
    ASSUME TypeOK, NEW d \in Vout, Attempted(d), FinalizeMint(d) \/ FinalizeReverted(d)
    PROVE  DepositInv(d)'
<1> USE DEF Attempted, DepositInv
<1>1. /\ m.pc = "receipt" /\ row[d].status = "MINTING" /\ row[d].hash # 0
      /\ row[d].hash \in DOMAIN tx[d]
      /\ UNCHANGED <<tx, safeTx, lost>>
  BY DEF FinalizeMint, FinalizeReverted, At, MintInv, RowInv, OnBase
<1>2. row'[d].hash = row[d].hash /\ row'[d].safe = row[d].safe
      /\ \/ row'[d].status = "MINTED" /\ Receipt(d) = "success"
         \/ row'[d].status = "FAILED"
  BY RowMoves DEF RowBecomes, IsRow, FinalizeMint
<1>3. \/ m'.pc = "audit" /\ m'.vout = d /\ job' = job
      \/ m'.vout # d
  BY SignerMoves, ThrowIs, VoutFacts DEF IsSigner, FinalizeMint, FinalizeReverted
<1>4. RowInv(d)' /\ PaidInv(d)'
  BY <1>1, <1>2
     DEF RowInv, PaidInv, Exists, Admitted, Live, Backed, chainVars, Receipt
<1>5. MintInv(d)' /\ ModeInv(d)'
  BY <1>1, <1>2, <1>3 DEF MintInv, ModeInv, At, deployment
<1>6. AccountedFor(d)'
  BY <1>1, <1>2, <1>3 DEF AccountedFor, Filed, InHand, BySafe, At
<1>7. QED
  BY <1>4, <1>5, <1>6

\* The hash of the Safe's transaction goes on file, then it is proposed.
LEMMA SafeDeposit ==
    ASSUME TypeOK, NEW d \in Vout, Attempted(d),
           RecordSafeHash(d) \/ Propose(d) \/ ProposeUnanswered(d)
    PROVE  DepositInv(d)'
<1> USE DEF Attempted, DepositInv
<1>1. CASE RecordSafeHash(d)
  <2>1. /\ m.pc = "safehash" /\ row[d].status = "MINTING" /\ ~row[d].safe
        /\ safeTx[d] = "none" /\ UNCHANGED <<job, tx, safeTx, lost>>
    BY <1>1 DEF RecordSafeHash, At, MintInv, RowInv, OnBase
  <2>2. row'[d].status = "MINTING" /\ row'[d].hash = row[d].hash /\ row'[d].safe
    BY <1>1, <2>1, RowMoves DEF RowBecomes, IsRow
  <2>3. m'.pc = "propose" /\ m'.vout = d
    BY <1>1, SignerMoves DEF IsSigner
  <2>4. RowInv(d)' /\ PaidInv(d)'
    BY <2>1, <2>2 DEF RowInv, PaidInv, Exists, Admitted, Live, Backed, chainVars
  <2>5. MintInv(d)' /\ ModeInv(d)'
    BY <2>1, <2>2, <2>3 DEF MintInv, ModeInv, At, deployment
  <2>6. AccountedFor(d)'
    BY <2>1, <2>2, <2>3 DEF AccountedFor, Filed, InHand, BySafe, At
  <2>7. QED
    BY <2>4, <2>5, <2>6
<1>2. CASE Propose(d) \/ ProposeUnanswered(d)
  <2>1. /\ m.pc = "propose" /\ row[d].status = "MINTING" /\ row[d].safe
        /\ safeTx[d] = "none" /\ UNCHANGED <<row, tx, lost>>
    BY <1>2 DEF Propose, ProposeUnanswered, At, MintInv, OnBase
  <2>2. safeTx'[d] = "proposed"
    BY <1>2 DEF Propose, ProposeUnanswered, TypeOK, SignerTypeOK
  <2>3. \/ m'.pc = "audit" /\ m'.vout = d /\ job' = job
        \/ m'.vout # d
    BY <1>2, SignerMoves, ThrowIs, VoutFacts DEF IsSigner, Propose, ProposeUnanswered
  <2>4. RowInv(d)' /\ PaidInv(d)'
    BY <2>1, <2>2 DEF RowInv, PaidInv, Exists, Admitted, Live, Backed, chainVars, Receipt
  <2>5. MintInv(d)' /\ ModeInv(d)'
    BY <2>1, <2>2, <2>3 DEF MintInv, ModeInv, At, deployment
  <2>6. AccountedFor(d)'
    BY <2>1, <2>2, <2>3 DEF AccountedFor, Filed, InHand, BySafe, At
  <2>7. QED
    BY <2>4, <2>5, <2>6
<1>3. QED
  BY <1>1, <1>2

\* The signers execute the proposal, whatever the worker does meanwhile.
LEMMA ExecutedDeposit ==
    ASSUME TypeOK, NEW d \in Vout, DepositInv(d), SignerNext(d), ExecuteSafe(d)
    PROVE  DepositInv(d)'
<1> USE DEF DepositInv
<1>1. /\ safeTx[d] = "proposed" /\ UNCHANGED <<row, job, m, lost, mode, chainVars, deployment>>
  BY DEF ExecuteSafe, SignerNext, AroundSigner
<1>2. safeTx'[d] = "executed" /\ tx[d] \in Seq(TxStatus) /\ tx'[d] = Append(tx[d], "success")
  BY DEF ExecuteSafe, TypeOK, SharedTypeOK, SignerTypeOK
<1>3. /\ Len(tx'[d]) = Len(tx[d]) + 1 /\ Len(tx[d]) \in Nat
      /\ \A i \in DOMAIN tx[d] : i \in DOMAIN tx'[d] /\ tx'[d][i] = tx[d][i]
  BY <1>2 DEF TxStatus
<1>4. RowInv(d)' /\ PaidInv(d)'
  BY <1>1, <1>3 DEF RowInv, PaidInv, Exists, Admitted, Live, Backed, chainVars, Receipt
<1>5. MintInv(d)'
  BY <1>1, <1>3 DEF MintInv, RowInv, Unsigned
<1>6. AccountedFor(d)'
  <2>1. /\ Filed(d)' = Filed(d) /\ InHand(d)' = InHand(d)
        /\ BySafe(d) = 0 /\ BySafe(d)' = 1
    BY <1>1, <1>2 DEF Filed, InHand, BySafe, At
  <2>2. lost[d] \in Nat /\ Filed(d) \in Nat /\ InHand(d) \in Nat
    BY DEF TypeOK, SignerTypeOK, Filed, InHand
  <2>3. QED
    BY <1>1, <1>3, <2>1, <2>2 DEF AccountedFor
<1>7. ModeInv(d)'
  <2>1. switches # 0 \/ auth = "safe_proposal"
    BY <1>1 DEF ModeInv, TypeOK, SignerTypeOK, AuthMode
  <2>2. QED
    BY <1>1, <2>1 DEF ModeInv, At, deployment
<1>8. QED
  BY <1>4, <1>5, <1>6, <1>7

\* The signer keeps what is known of every output.
LEMMA SignerDeposits ==
    ASSUME IInv, NEW d \in Vout, SignerNext(d)
    PROVE  \A c \in Vout : DepositInv(c)'
<1>1. /\ TypeOK /\ SignerStep(d) /\ \A c \in Vout : DepositInv(c)
      /\ UNCHANGED <<mode, chainVars, deployment>>
  BY DEF IInv, SignerNext, AroundSigner
<1>2. ASSUME NEW c \in Vout, c # d
      PROVE  DepositInv(c)'
  <2>1. tip' = tip /\ tip \in Nat /\ height' = height /\ mode' = mode
    BY <1>1, WatcherAssumption DEF chainVars, TypeOK, WatcherTypeOK
  <2>2. QED
    BY <1>1, <1>2, <2>1, SignerTouches, DepositFrame
<1>3. DepositInv(d)'
  <2>1. CASE TakeJob(d)
    <3>1. job[d].state = "wait" /\ job'[d].state = "active" /\ mode = "up" /\ m.pc = "idle"
          /\ UNCHANGED <<row, tx, safeTx, lost>>
      BY <1>1, <2>1, JobMoves DEF TakeJob, OnBase, TypeOK, SharedTypeOK
    <3>2. m'.pc = "load" /\ m'.vout = d /\ m.vout = 0
      BY <1>1, <2>1, <3>1, SignerMoves DEF IsSigner, TypeOK, SignerTypeOK
    <3>3. RowInv(d)' /\ PaidInv(d)'
      BY <1>1, <3>1
         DEF DepositInv, RowInv, PaidInv, Exists, Admitted, Backed, chainVars, Receipt
    <3>4. MintInv(d)' /\ AccountedFor(d)' /\ ModeInv(d)'
      BY <1>1, <3>1, <3>2
         DEF DepositInv, MintInv, AccountedFor, ModeInv, Filed, InHand, BySafe, At, deployment
    <3>5. QED
      BY <3>3, <3>4 DEF DepositInv
  <2>2. ASSUME m.vout = d PROVE Attempted(d)
    BY <1>1, <2>2, AttemptedIs
  <2>3. CASE LoadRow(d)
    <3>1. Attempted(d) /\ m.pc = "load" /\ UNCHANGED <<row, job, tx, safeTx, lost>>
      BY <2>2, <2>3 DEF LoadRow, At, OnBase
    <3>2. PICK pc \in SignerPc \ {"off", "idle"} :
              /\ IsSigner(m', pc, d, m.hash)
              /\ \/ pc \in {"done", "giveup"}
                 \/ pc = "claim" /\ row[d].status \in {"CONFIRMED", "MINTING"} /\ Unsigned(d)
                 \/ pc = SignPc(d) /\ row[d].status = "MINTING"
      BY <1>1, <2>3, LoadMoves
    <3>3. SignPc(d) \in {"receipt", "broadcast", "check", "safehash"}
      BY <1>1, SignPcIs
    <3>4. QED
      BY <1>1, <3>1, <3>2, <3>3, AttemptGoesOn
  <2>4. CASE ClaimMint(d)
    BY <1>1, <2>2, <2>4, ClaimDeposit DEF ClaimMint, At
  <2>5. CASE Broadcast(d)
    BY <1>1, <2>2, <2>5, BroadcastDeposit DEF Broadcast, At
  <2>6. CASE RecordHash(d)
    BY <1>1, <2>2, <2>6, RecordDeposit DEF RecordHash, At
  <2>7. CASE FinalizeMint(d) \/ FinalizeReverted(d)
    BY <1>1, <2>2, <2>7, FinalizeDeposit DEF FinalizeMint, FinalizeReverted, At
  <2>8. CASE RecordSafeHash(d) \/ Propose(d) \/ ProposeUnanswered(d)
    BY <1>1, <2>2, <2>8, SafeDeposit DEF RecordSafeHash, Propose, ProposeUnanswered, At
  <2>9. CASE BroadcastUnanswered(d)
    BY <1>1, <2>2, <2>9, UnansweredDeposit DEF BroadcastUnanswered, At
  <2>10. ASSUME m.vout = d, m.pc # "record", Throw(d), UNCHANGED <<row, tx, safeTx, lost>>
         PROVE  DepositInv(d)'
    <3>1. lost'[d] = Forgotten(d)
      BY <2>10 DEF Forgotten, At
    <3>2. QED
      BY <1>1, <2>2, <2>10, <3>1, ThrowIs, AttemptEnds
  <2>11. CASE BroadcastRefused(d)
    BY <2>10, <2>11 DEF BroadcastRefused, At, OnBase
  <2>12. CASE CheckProposal(d)
    <3>1. CASE safeTx[d] = "none"
      BY <2>10, <2>12, <3>1 DEF CheckProposal, At, OnBase
    <3>2. CASE safeTx[d] # "none"
      <4>1. IsSigner(m', "audit", d, m.hash) /\ UNCHANGED <<row, job, tx, safeTx, lost>>
        BY <1>1, <2>12, <3>2, SignerMoves DEF CheckProposal, OnBase
      <4>2. Attempted(d) /\ m.pc # "record"
        BY <2>2, <2>12 DEF CheckProposal, At
      <4>3. QED
        BY <1>1, <4>1, <4>2, AttemptGoesOn
    <3>3. QED
      BY <3>1, <3>2
  <2>13. CASE WriteAudit(d)
    <3>1. IsSigner(m', "done", d, m.hash) /\ UNCHANGED <<row, job, tx, safeTx, lost>>
      BY <1>1, <2>13, SignerMoves DEF WriteAudit, OnBase
    <3>2. Attempted(d) /\ m.pc # "record"
      BY <2>2, <2>13 DEF WriteAudit, At
    <3>3. QED
      BY <1>1, <3>1, <3>2, AttemptGoesOn
  <2>14. CASE EndJob(d)
    <3>1. IsSigner(m', "idle", 0, 0) /\ UNCHANGED <<row, tx, safeTx, lost>>
          /\ m.vout = d /\ m.pc # "record"
      BY <2>14, BlankRecords DEF EndJob, OnBase, At
    <3>2. lost'[d] = Forgotten(d)
      BY <3>1 DEF Forgotten, At
    <3>3. QED
      BY <1>1, <2>2, <3>1, <3>2, AttemptEnds
  <2>15. CASE StepFails(d)
    <3>1. /\ m.vout = d /\ Throw(d) /\ UNCHANGED <<row, tx, safeTx>>
          /\ lost'[d] = Forgotten(d)
      BY <1>1, <2>15 DEF StepFails, OnBase, TypeOK, SignerTypeOK
    <3>2. QED
      BY <1>1, <2>2, <3>1, ThrowIs, AttemptEnds
  <2>16. CASE ExecuteSafe(d)
    BY <1>1, <2>16, ExecutedDeposit
  <2>17. CASE JobStalls(d)
    <3>1. /\ m.vout # d /\ job[d].state = "active"
          /\ UNCHANGED <<row, m, tx, safeTx, lost>>
      BY <2>17 DEF JobStalls, OnBase
    <3>2. Exists(d)
      BY <1>1, <3>1 DEF DepositInv, RowInv
    <3>3. QED
      BY <1>1, <3>1, <3>2, DepositQueued
  <2>18. CASE JobTrimmed(d)
    <3>1. /\ job[d].state = "completed" /\ UNCHANGED <<row, m, tx, safeTx, lost>>
      BY <2>18 DEF JobTrimmed, OnBase
    <3>2. Exists(d) /\ m.vout # d
      BY <1>1, <3>1 DEF DepositInv, RowInv, MintInv
    <3>3. QED
      BY <1>1, <3>1, <3>2, DepositQueued
  <2>19. QED
    BY <1>1, <2>1, <2>3, <2>4, <2>5, <2>6, <2>7, <2>8, <2>9, <2>11, <2>12, <2>13, <2>14,
       <2>15, <2>16, <2>17, <2>18 DEF SignerStep, SignerProgress
<1>4. QED
  BY <1>2, <1>3

\* processBlock has one next output.
LEMMA NextIsUnique ==
    ASSUME NEW d \in Vout, NEW e \in Vout, IsNext(d), IsNext(e)
    PROVE  d = e
BY VoutFacts DEF IsNext

\* An output without a row has nothing else either.
LEMMA BlankDeposit ==
    ASSUME TypeOK, NEW d \in Vout, DepositInv(d), ~Exists(d)
    PROVE  /\ row[d].hash = 0 /\ ~row[d].safe /\ job[d].state = "none"
           /\ tx[d] = <<>> /\ safeTx[d] = "none" /\ lost[d] = 0 /\ m.vout # d
<1> USE DEF DepositInv
<1>1. row[d].status = "none" /\ ~Admitted(d)
  BY DEF Exists, RowInv, Admitted, Live
<1>2. /\ row[d].hash = 0 /\ ~row[d].safe /\ job[d].state = "none"
      /\ tx[d] = <<>> /\ safeTx[d] = "none"
  BY <1>1 DEF RowInv, PaidInv
<1>3. m.vout # d
  BY <1>2 DEF MintInv
<1>4. lost[d] = 0
  <2>1. Filed(d) = 0 /\ InHand(d) = 0 /\ BySafe(d) = 0 /\ Len(tx[d]) = 0
    BY <1>2, <1>3 DEF Filed, InHand, BySafe, At
  <2>2. lost[d] \in Nat
    BY DEF TypeOK, SignerTypeOK
  <2>3. QED
    BY <2>1, <2>2 DEF AccountedFor
<1>5. QED
  BY <1>2, <1>3, <1>4

\* The watcher writes the row of an output it has not seen before: confirmed
\* only if it is buried and large enough.
LEMMA NewDeposit ==
    ASSUME TypeOK, NEW d \in Vout, DepositInv(d), ~Exists(d),
           row'[d].status \in {"CONFIRMED", "FAILED"}, row'[d].hash = 0, ~row'[d].safe,
           UNCHANGED <<job, tx, safeTx, lost, m, chainVars, mode, deployment>>,
           row'[d].status = "CONFIRMED" => Backed(d)
    PROVE  DepositInv(d)'
<1>1. /\ row[d].hash = 0 /\ ~row[d].safe /\ job[d].state = "none"
      /\ tx[d] = <<>> /\ safeTx[d] = "none" /\ lost[d] = 0 /\ m.vout # d
  BY BlankDeposit
<1>2. RowInv(d)' /\ PaidInv(d)'
  BY <1>1 DEF RowInv, PaidInv, Exists, Admitted, Live, Backed, chainVars
<1>3. MintInv(d)' /\ AccountedFor(d)' /\ ModeInv(d)'
  BY <1>1 DEF MintInv, AccountedFor, ModeInv, Filed, InHand, BySafe, At
<1>4. QED
  BY <1>2, <1>3 DEF DepositInv

\* The watcher keeps what is known of every output.
LEMMA WatcherDeposits ==
    ASSUME IInv, WatcherNext
    PROVE  \A c \in Vout : DepositInv(c)'
<1>1. /\ TypeOK /\ \A c \in Vout : DepositInv(c)
      /\ UNCHANGED <<mode, chainVars, m, safeTx, lost, deployment>>
      /\ tip' = tip /\ height' = height /\ tip \in Nat
  BY WatcherAssumption
     DEF IInv, WatcherNext, signerVars, chainVars, TypeOK, WatcherTypeOK
<1>2. ASSUME UNCHANGED <<row, job, tx>>
      PROVE  \A c \in Vout : DepositInv(c)'
  BY <1>1, <1>2, DepositFrame
<1>3. ASSUME NEW d \in Vout, ReenqueueOrphan(d) \/ EnqueueMint(d)
      PROVE  \A c \in Vout : DepositInv(c)'
  <2>1. Exists(d) /\ row' = row /\ tx' = tx /\ job' = [job EXCEPT ![d] = Added(job[d])]
    BY <1>3 DEF ReenqueueOrphan, EnqueueMint, IInv, ScanInv, IsNext
  <2>2. job'[d] = Added(job[d]) /\ \A c \in Vout : c # d => job'[c] = job[c]
    BY <1>1, <2>1 DEF TypeOK, SharedTypeOK
  <2>3. m.vout = d => job'[d].state = job[d].state
    BY <1>1, <2>2, AddedState DEF DepositInv, MintInv
  <2>4. DepositInv(d)'
    BY <1>1, <2>1, <2>3, DepositQueued
  <2>5. ASSUME NEW c \in Vout, c # d PROVE DepositInv(c)'
    BY <1>1, <2>1, <2>2, <2>5, DepositFrame
  <2>6. QED
    BY <2>4, <2>5
<1>4. ASSUME NEW d \in Vout, ConfirmDeposit(d) \/ RefuseDeposit(d)
      PROVE  \A c \in Vout : DepositInv(c)'
  <2>1. PICK status \in {"CONFIRMED", "FAILED"} :
           /\ Recorded(d, status)
           /\ status = "CONFIRMED" => f.pc = "tvl"
    BY <1>4 DEF ConfirmDeposit, RefuseDeposit, TvlRead
  <2>2. f.pc \in {"tvl", "refuse"} /\ IsNext(d) /\ d \in f.todo /\ UNCHANGED <<job, tx>>
    BY <1>4 DEF ConfirmDeposit, RefuseDeposit, TvlRead, IsNext
  <2>3. /\ row'[d].status = status /\ row'[d].hash = 0 /\ ~row'[d].safe
        /\ \A c \in Vout : c # d => row'[c] = row[c]
    BY <1>1, <2>1, Values, RecordedIs
  <2>4. ~Exists(d)
    BY <2>2 DEF IInv, ScanInv
  <2>5. status = "CONFIRMED" => Backed(d)
    <3>1. f.h \in Nat /\ f.safe \in Nat /\ height[d] \in Nat
      BY <1>1, WatcherAssumption DEF TypeOK, WatcherTypeOK, Watcher
    <3>2. f.h <= f.safe /\ f.safe + FairConfirmations <= tip /\ f.h > 0 /\ height[d] = f.h
      BY <2>2 DEF IInv, ScanInv, InBlock
    <3>3. status = "CONFIRMED" => VoutSats(d) >= MinSats
      BY <2>1, <2>2 DEF IInv, ScanInv
    <3>4. QED
      BY <1>1, <3>1, <3>2, <3>3, WatcherAssumption DEF Backed
  <2>6. DepositInv(d)'
    BY <1>1, <2>2, <2>3, <2>4, <2>5, NewDeposit
  <2>7. ASSUME NEW c \in Vout, c # d PROVE DepositInv(c)'
    BY <1>1, <2>2, <2>3, <2>7, DepositFrame
  <2>8. QED
    BY <2>6, <2>7
<1>5. QED
  BY <1>2, <1>3, <1>4 DEF WatcherNext, WatcherStep, LoadAddresses, ReadOrphans, ReadTip,
     NextBlock, EndTick, InspectVout, ReadSupply, ReadInFlight, SaveCursor, TickError

\* The process is stopped, killed and restarted.
LEMMA ProcessDeposits ==
    ASSUME IInv, Crash \/ Stop \/ Exit \/ Start
    PROVE  \A c \in Vout : DepositInv(c)'
<1> SUFFICES ASSUME NEW c \in Vout PROVE DepositInv(c)'
  OBVIOUS
<1>1. /\ TypeOK /\ DepositInv(c) /\ c # 0 /\ tip \in Nat
      /\ MOff.vout = 0 /\ MOff.pc = "off" /\ MIdle.vout = 0 /\ MIdle.pc = "idle"
  BY BlankRecords, VoutFacts, WatcherAssumption
     DEF IInv, IsSigner, TypeOK, WatcherTypeOK
<1>2. CASE Stop
  <2>1. mode = "up" /\ mode' = "stopping"
        /\ UNCHANGED <<row, job, tx, chainVars, m, safeTx, lost, deployment>>
    BY <1>2 DEF Stop, signerVars
  <2>2. QED
    BY <1>1, <2>1, DepositFrame DEF chainVars
<1>3. ASSUME m'.vout = 0, m'.pc \in {"off", "idle"}, lost'[c] = Forgotten(c),
             UNCHANGED <<row, job, tx, safeTx, chainVars>>,
             switches' = 0 => UNCHANGED deployment
      PROVE  DepositInv(c)'
  <2>1. RowInv(c)' /\ PaidInv(c)' /\ MintInv(c)'
    BY <1>1, <1>3
       DEF DepositInv, RowInv, PaidInv, MintInv, Exists, Receipt, Admitted, Backed, chainVars
  <2>2. AccountedFor(c)'
    <3>1. /\ Filed(c)' = Filed(c) /\ BySafe(c)' = BySafe(c) /\ InHand(c)' = 0
          /\ lost'[c] = lost[c] + InHand(c)
      BY <1>1, <1>3 DEF Filed, BySafe, InHand, At, Forgotten, TypeOK, SignerTypeOK
    <3>2. lost[c] \in Nat /\ Filed(c) \in Nat /\ BySafe(c) \in Nat /\ InHand(c) \in Nat
      BY <1>1 DEF TypeOK, SignerTypeOK, Filed, BySafe, InHand
    <3>3. QED
      BY <1>1, <1>3, <3>1, <3>2 DEF DepositInv, AccountedFor
  <2>3. ModeInv(c)'
    BY <1>1, <1>3 DEF DepositInv, ModeInv, At, deployment
  <2>4. QED
    BY <2>1, <2>2, <2>3 DEF DepositInv
<1>4. CASE Crash
  <2>1. lost'[c] = Forgotten(c)
    BY <1>4 DEF Crash
  <2>2. QED
    BY <1>1, <1>3, <1>4, <2>1 DEF Crash
<1>5. ASSUME m.pc \in {"off", "idle"} \/ m.vout # c
      PROVE  Forgotten(c) = lost[c]
  BY <1>5 DEF Forgotten, At
<1>6. CASE Exit
  BY <1>1, <1>3, <1>5, <1>6 DEF Exit
<1>7. CASE Start
  <2>1. m.vout # c
    BY <1>1, <1>7 DEF Start, DepositInv, MintInv
  <2>2. switches' = 0 => UNCHANGED deployment
    BY <1>1, <1>7 DEF Start, SwitchMode, TypeOK
  <2>3. QED
    BY <1>1, <1>3, <1>5, <1>7, <2>1, <2>2 DEF Start
<1>8. QED
  BY <1>2, <1>4, <1>6, <1>7

\* The chains, the depositors, the operator and time.
LEMMA WorldDeposits ==
    ASSUME IInv,
           \/ \E a \in Addr : ApiNext(a)
           \/ NewBlock
           \/ \E d \in Vout : Mine(d)
           \/ \E flag \in BOOLEAN : SetPaused(flag)
           \/ BurnAll
           \/ Tick
    PROVE  \A c \in Vout : DepositInv(c)'
<1> SUFFICES ASSUME NEW c \in Vout PROVE DepositInv(c)'
  OBVIOUS
<1>1. TypeOK /\ DepositInv(c) /\ tip \in Nat
  BY WatcherAssumption DEF IInv, TypeOK, WatcherTypeOK
<1> USE DEF watcherVars, signerVars, deployment, chainVars
<1>2. CASE \E a \in Addr : ApiNext(a)
  <2>1. UNCHANGED <<row, job, tx, mode, chainVars, m, safeTx, lost, deployment>>
    BY <1>2 DEF ApiNext, AnswerIntent, AllocateAddress, CreateIntent, IntentFails, AroundApi
  <2>2. QED
    BY <1>1, <2>1, DepositFrame
<1>3. CASE NewBlock
  <2>1. /\ UNCHANGED <<row, job, tx, mode, m, safeTx, lost, deployment>>
        /\ tip' = tip + 1 /\ (height[c] > 0 => height'[c] = height[c])
    BY <1>1, <1>3, WatcherAssumption DEF NewBlock, Payable, TypeOK, WatcherTypeOK
  <2>2. tip' \in Nat /\ tip' >= tip
    BY <1>1, <2>1
  <2>3. QED
    BY <1>1, <2>1, <2>2, DepositFrame
<1>4. ASSUME NEW d \in Vout, Mine(d)
      PROVE  DepositInv(c)'
  <2>1. PICK i \in DOMAIN tx[d], status \in {"reverted", "success"} : Mined(d, i, status)
    BY <1>4 DEF Mine
  <2>2. /\ UNCHANGED <<row, job, mode, chainVars, m, safeTx, lost, deployment>>
        /\ tx[c] \in Seq(TxStatus) /\ tx[d] \in Seq(TxStatus)
        /\ tx' = [tx EXCEPT ![d] = [tx[d] EXCEPT ![i] = status]] /\ tx[d][i] = "pending"
        /\ c \in DOMAIN tx
    BY <1>1, <1>4, <2>1 DEF Mine, Mined, TypeOK, SharedTypeOK
  <2>3. /\ DOMAIN tx'[c] = DOMAIN tx[c] /\ Len(tx'[c]) = Len(tx[c])
        /\ \A k \in DOMAIN tx[c] : tx[c][k] = "success" => tx'[c][k] = "success"
        /\ tx[c] = <<>> => tx'[c] = <<>>
        /\ tx'[c] # <<>> => tx[c] # <<>>
    <3>1. CASE c # d
      <4>1. tx'[c] = tx[c]
        BY <2>2, <3>1
      <4>2. QED
        BY <4>1
    <3>2. CASE c = d
      <4>1. tx'[c] = [tx[c] EXCEPT ![i] = status]
        BY <2>2, <3>2
      <4>2. QED
        BY <2>1, <2>2, <3>2, <4>1 DEF TxStatus
    <3>3. QED
      BY <3>1, <3>2
  <2>4. RowInv(c)'
    BY <1>1, <2>2, <2>3 DEF DepositInv, RowInv, Exists, Receipt
  <2>5. PaidInv(c)'
    BY <1>1, <2>2, <2>3 DEF DepositInv, PaidInv, Admitted, Backed
  <2>6. MintInv(c)' /\ AccountedFor(c)' /\ ModeInv(c)'
    BY <1>1, <2>2, <2>3
       DEF DepositInv, MintInv, AccountedFor, ModeInv, Filed, InHand, BySafe, At, Unsigned
  <2>7. QED
    BY <2>4, <2>5, <2>6 DEF DepositInv
<1>5. CASE (\E flag \in BOOLEAN : SetPaused(flag)) \/ BurnAll
  <2>1. UNCHANGED <<row, job, tx, mode, chainVars, m, safeTx, lost, deployment>>
    BY <1>5 DEF SetPaused, BurnAll
  <2>2. QED
    BY <1>1, <2>1, DepositFrame
<1>6. CASE Tick
  <2>1. UNCHANGED <<job, tx, mode, chainVars, m, safeTx, lost, deployment>>
    BY <1>6 DEF Tick
  <2>2. row'[c].status = row[c].status /\ row'[c].hash = row[c].hash
        /\ row'[c].safe = row[c].safe
    BY <1>1, <1>6 DEF Tick, TypeOK, SharedTypeOK, Deposit
  <2>3. QED
    BY <1>1, <2>1, <2>2, DepositFrame
<1>7. QED
  BY <1>2, <1>3, <1>4, <1>5, <1>6

-----------------------------------------------------------------------------
(***************************************************************************)
(* The watcher's own invariants.                                           *)
(***************************************************************************)

\* A step that leaves the watcher's place alone and deletes no row keeps
\* both; a new block is above everything the watcher is at.
LEMMA ScanFrame ==
    ASSUME IInv, f'.pc = f.pc, f'.todo = f.todo, f'.h = f.h, f'.safe = f.safe,
           UNCHANGED <<cursor, origin>>, tip' \in Nat, tip' >= tip, height' \in [Vout -> Nat],
           \A d \in Vout : height'[d] = height[d] \/ (height[d] = 0 /\ height'[d] > tip),
           \A d \in Vout : Exists(d)' = Exists(d)
    PROVE  ScanInv' /\ CoverInv'
<1>1. /\ f.h \in Nat /\ f.safe \in Nat /\ f.todo \in SUBSET Vout
      /\ cursor \in Nat \cup {-1} /\ origin \in Nat \cup {-1} /\ tip \in Nat
      /\ height \in [Vout -> Nat]
      /\ FairConfirmations \in Nat
  BY WatcherAssumption DEF IInv, TypeOK, WatcherTypeOK, Watcher
<1>2. ScanInv /\ CoverInv
  BY DEF IInv
<1>3. ScanInv'
  BY <1>1, <1>2 DEF ScanInv, InBlock, IsNext
<1>4. \A d \in Vout : height'[d] <= tip => height'[d] = height[d]
  BY <1>1
<1>5. /\ cursor \in Int /\ cursor <= tip
      /\ InBlock \/ f.pc = "block" => f.h \in Int /\ f.h <= tip
  BY <1>1, <1>2 DEF ScanInv
<1>6. CoverInv'
  <2>1. Covered(cursor, {})'
    BY <1>1, <1>2, <1>4, <1>5 DEF CoverInv, Covered
  <2>2. f.pc = "block" => Covered(f.h, {})'
    BY <1>1, <1>2, <1>4, <1>5 DEF CoverInv, Covered
  <2>3. InBlock => Covered(f.h, f.todo)'
    BY <1>1, <1>2, <1>4, <1>5 DEF CoverInv, Covered
  <2>4. QED
    BY <2>1, <2>2, <2>3 DEF CoverInv, InBlock
<1>7. QED
  BY <1>3, <1>6

\* The steps of a tick around the scan.
LEMMA TickScan ==
    ASSUME IInv, UNCHANGED <<row, tip, height>>,
           \/ LoadAddresses \/ EndTick \/ TickError
           \/ ReadOrphans
           \/ \E d \in Vout : ReenqueueOrphan(d)
           \/ ReadTip
    PROVE  ScanInv' /\ CoverInv'
<1>1. /\ TypeOK /\ ScanInv /\ CoverInv
      /\ cursor \in Nat \cup {-1} /\ origin \in Nat \cup {-1} /\ tip \in Nat
      /\ FairConfirmations \in Nat
  BY WatcherAssumption DEF IInv, TypeOK, WatcherTypeOK
<1>2. ASSUME f'.pc \in {"idle", "reconcile"}, f'.pc = "reconcile" => \A d \in f'.todo : Exists(d),
             cursor' <= tip, Covered(cursor, {})'
      PROVE  ScanInv' /\ CoverInv'
  BY <1>2 DEF ScanInv, CoverInv, InBlock, Exists
<1>3. ASSUME UNCHANGED <<cursor, origin>>
      PROVE  cursor' <= tip /\ Covered(cursor, {})'
  BY <1>1, <1>3 DEF ScanInv, CoverInv, Covered, Exists
<1>4. CASE LoadAddresses \/ EndTick \/ TickError
  <2>1. f'.pc = "idle" /\ UNCHANGED <<cursor, origin>>
    BY <1>1, <1>4, TickMoves DEF IsWatcher, LoadAddresses, EndTick, TickError
  <2>2. QED
    BY <1>2, <1>3, <2>1
<1>5. CASE ReadOrphans
  <2>1. f'.pc = "reconcile" /\ UNCHANGED <<cursor, origin>>
        /\ \A d \in f'.todo : IsOrphan(d)
    BY <1>1, <1>5, TickMoves DEF IsWatcher, ReadOrphans
  <2>2. \A d \in f'.todo : Exists(d)
    BY <2>1 DEF IsOrphan, Exists
  <2>3. QED
    BY <1>2, <1>3, <2>1, <2>2
<1>6. ASSUME NEW d \in Vout, ReenqueueOrphan(d)
      PROVE  ScanInv' /\ CoverInv'
  <2>1. f.pc = "reconcile" /\ f'.pc = "reconcile" /\ f'.todo = f.todo \ {d}
        /\ UNCHANGED <<cursor, origin>>
    BY <1>1, <1>6, TickMoves DEF IsWatcher, ReenqueueOrphan
  <2>2. \A e \in f'.todo : Exists(e)
    BY <1>1, <2>1 DEF ScanInv
  <2>3. QED
    BY <1>2, <1>3, <2>1, <2>2
<1>7. CASE ReadTip
  <2>1. cursor' \in Nat /\ cursor' <= tip
    BY <1>1, <1>7, ReadTipMoves DEF ScanInv
  <2>2. Covered(cursor, {})'
    <3>1. CASE cursor = -1
      <4>1. origin' = cursor'
        BY <1>1, <1>7, <3>1, ReadTipMoves
      <4>2. height' \in [Vout -> Nat]
        BY WatcherAssumption DEF IInv, TypeOK, WatcherTypeOK
      <4>3. QED
        BY <2>1, <4>1, <4>2 DEF Covered
    <3>2. CASE cursor # -1
      BY <1>1, <1>3, <1>7, <3>2, ReadTipMoves
    <3>3. QED
      BY <3>1, <3>2
  <2>3. CASE IsWatcher(f', "idle", {}, 0, 0, -1, -1, 0)
    BY <1>2, <2>1, <2>2, <2>3 DEF IsWatcher
  <2>4. CASE /\ SafeTip \in Nat /\ SafeTip > cursor'
             /\ IsWatcher(f', "block", {}, cursor', SafeTip, -1, -1, 0)
    <3>1. f'.pc = "block" /\ f'.h = cursor' /\ f'.safe = SafeTip /\ SafeTip > cursor'
      BY <2>4 DEF IsWatcher
    <3>2. SafeTip + FairConfirmations <= tip
      BY <1>1 DEF SafeTip
    <3>3. ScanInv'
      BY <1>1, <2>1, <2>4, <3>1, <3>2 DEF ScanInv, InBlock
    <3>4. CoverInv'
      BY <2>2, <3>1 DEF CoverInv, InBlock, Covered
    <3>5. QED
      BY <3>3, <3>4
  <2>5. QED
    BY <1>1, <1>7, <2>3, <2>4, ReadTipMoves
<1>8. QED
  BY <1>4, <1>5, <1>6, <1>7

\* The loop over the blocks: what is fetched is all there is to admit.
LEMMA BlockScan ==
    ASSUME IInv, UNCHANGED <<row, tip, height>>, NextBlock \/ SaveCursor
    PROVE  ScanInv' /\ CoverInv'
<1>1. /\ TypeOK /\ ScanInv /\ CoverInv /\ KnownInv
      /\ f.h \in Nat /\ f.safe \in Nat /\ tip \in Nat /\ cursor \in Nat \cup {-1}
      /\ origin \in Nat \cup {-1} /\ height \in [Vout -> Nat]
      /\ FairConfirmations \in Nat
  BY WatcherAssumption DEF IInv, TypeOK, WatcherTypeOK, Watcher
<1>2. CASE NextBlock
  <2>1. f.pc = "block" /\ f.h < f.safe /\ UNCHANGED <<cursor, origin>>
    BY <1>2 DEF NextBlock
  <2>2. /\ f'.pc = "vouts" /\ f'.h = f.h + 1 /\ f'.safe = f.safe
        /\ f'.todo = {d \in Vout : height[d] = f.h + 1 /\ VoutLog[d].addr \in known}
    BY <1>1, <1>2, BlockMoves DEF IsWatcher
  <2>3. ScanInv'
    BY <1>1, <2>1, <2>2 DEF ScanInv, InBlock
  <2>4. Covered(cursor, {})'
    BY <1>1, <2>1 DEF CoverInv, Covered, Exists
  <2>5. \A d \in Vout : height[d] = f.h + 1 => d \in f'.todo
    BY <1>1, <2>1, <2>2 DEF KnownInv
  <2>6. \A d \in Vout : origin < height[d] /\ height[d] <= f.h + 1 =>
           Exists(d) \/ d \in f'.todo
    BY <1>1, <2>1, <2>5 DEF CoverInv, Covered
  <2>7. CoverInv'
    BY <2>1, <2>2, <2>4, <2>6 DEF CoverInv, InBlock, Covered, Exists
  <2>8. QED
    BY <2>3, <2>7
<1>3. CASE SaveCursor
  <2>1. /\ f.pc = "vouts" /\ f.todo = {} /\ cursor' = f.h /\ origin' = origin
        /\ f'.pc = "block" /\ f'.h = f.h /\ f'.safe = f.safe
    BY <1>1, <1>3, BlockMoves DEF SaveCursor, IsWatcher
  <2>2. ScanInv'
    BY <1>1, <2>1 DEF ScanInv, InBlock
  <2>3. CoverInv'
    BY <1>1, <2>1 DEF CoverInv, InBlock, Covered, Exists
  <2>4. QED
    BY <2>2, <2>3
<1>4. QED
  BY <1>2, <1>3

\* The loop over the outputs of a block, one by one.
LEMMA VoutScan ==
    ASSUME IInv, UNCHANGED <<tip, height>>, NEW d \in Vout,
           InspectVout(d) \/ ConfirmDeposit(d) \/ RefuseDeposit(d) \/ EnqueueMint(d)
    PROVE  ScanInv' /\ CoverInv'
<1>1. /\ TypeOK /\ ScanInv /\ CoverInv
      /\ f.h \in Nat /\ f.safe \in Nat /\ f.todo \in SUBSET Vout
  BY DEF IInv, TypeOK, WatcherTypeOK, Watcher
<1>2. /\ InBlock /\ IsNext(d) /\ UNCHANGED <<cursor, origin>>
      /\ f'.h = f.h /\ f'.safe = f.safe
  <2>1. InBlock /\ IsNext(d) /\ UNCHANGED <<cursor, origin>>
    BY DEF InBlock, InspectVout, ConfirmDeposit, RefuseDeposit, EnqueueMint, TvlRead
  <2>2. f'.h = f.h /\ f'.safe = f.safe
    BY <1>1, VoutMoves DEF IsWatcher
  <2>3. QED
    BY <2>1, <2>2
<1>3. ASSUME f'.pc = "vouts", f'.todo = f.todo \ {d}, Exists(d)',
             \A c \in Vout : Exists(c) => Exists(c)'
      PROVE  ScanInv' /\ CoverInv'
  <2>1. ScanInv'
    BY <1>1, <1>2, <1>3 DEF ScanInv, InBlock
  <2>2. CoverInv'
    BY <1>1, <1>2, <1>3 DEF CoverInv, InBlock, Covered
  <2>3. QED
    BY <2>1, <2>2
<1>4. CASE InspectVout(d)
  <2>1. row' = row /\ f.pc = "vouts"
    BY <1>4 DEF InspectVout
  <2>2. CASE Exists(d)
    <3>1. f'.pc = "vouts" /\ f'.todo = f.todo \ {d}
      BY <1>1, <1>4, <2>2, VoutMoves DEF IsWatcher
    <3>2. QED
      BY <1>3, <2>1, <2>2, <3>1 DEF Exists
  <2>3. CASE ~Exists(d)
    <3>1. /\ f'.todo = f.todo /\ f'.pc \in {"refuse", "tvl"}
          /\ f'.pc = "tvl" => ~(VoutSats(d) < MinSats)
      BY <1>1, <1>4, <2>3, VoutMoves DEF IsWatcher
    <3>2. \A c \in f.todo : (IsNext(c)' => c = d)
      BY <1>1, <1>2, <3>1, NextIsUnique DEF IsNext
    <3>3. VoutSats(d) \in Nat /\ MinSats \in Nat
      BY AmountTypes, WatcherAssumption
    <3>4. ScanInv'
      BY <1>1, <1>2, <2>1, <2>3, <3>1, <3>2, <3>3 DEF ScanInv, InBlock, Exists
    <3>5. CoverInv'
      BY <1>1, <1>2, <2>1, <3>1 DEF CoverInv, InBlock, Covered, Exists
    <3>6. QED
      BY <3>4, <3>5
  <2>4. QED
    BY <2>2, <2>3
<1>5. ASSUME NEW status \in {"CONFIRMED", "FAILED"}, Recorded(d, status)
      PROVE  Exists(d)' /\ \A c \in Vout : Exists(c) => Exists(c)'
  BY <1>1, <1>5, Values, RecordedIs DEF Exists
<1>6. CASE ConfirmDeposit(d)
  <2>1. f'.pc = "enqueue" /\ f'.todo = f.todo
    BY <1>1, <1>6, VoutMoves DEF IsWatcher
  <2>2. Exists(d)' /\ \A c \in Vout : Exists(c) => Exists(c)'
    BY <1>5, <1>6 DEF ConfirmDeposit
  <2>3. \A c \in f.todo : (IsNext(c)' => c = d)
    BY <1>1, <1>2, <2>1, NextIsUnique DEF IsNext
  <2>4. ScanInv'
    BY <1>1, <1>2, <2>1, <2>2, <2>3 DEF ScanInv, InBlock
  <2>5. CoverInv'
    BY <1>1, <1>2, <2>1, <2>2 DEF CoverInv, InBlock, Covered
  <2>6. QED
    BY <2>4, <2>5
<1>7. CASE RefuseDeposit(d)
  <2>1. f'.pc = "vouts" /\ f'.todo = f.todo \ {d}
    BY <1>1, <1>7, VoutMoves DEF IsWatcher
  <2>2. Exists(d)' /\ \A c \in Vout : Exists(c) => Exists(c)'
    BY <1>5, <1>7 DEF RefuseDeposit
  <2>3. QED
    BY <1>3, <2>1, <2>2
<1>8. CASE EnqueueMint(d)
  <2>1. f'.pc = "vouts" /\ f'.todo = f.todo \ {d}
    BY <1>1, <1>8, VoutMoves DEF IsWatcher
  <2>2. row' = row /\ Exists(d)
    BY <1>1, <1>2, <1>8 DEF EnqueueMint, ScanInv, IsNext
  <2>3. QED
    BY <1>3, <2>1, <2>2 DEF Exists
<1>9. QED
  BY <1>4, <1>6, <1>7, <1>8

\* The watcher keeps its own invariants.
LEMMA WatcherScan ==
    ASSUME IInv, WatcherNext
    PROVE  ScanInv' /\ CoverInv'
<1>1. TypeOK /\ UNCHANGED <<tip, height>> /\ tip \in Nat /\ height \in [Vout -> Nat]
  BY WatcherAssumption DEF IInv, WatcherNext, chainVars, TypeOK, WatcherTypeOK
<1>2. CASE LoadAddresses \/ EndTick \/ TickError \/ ReadOrphans \/ ReadTip
  BY <1>1, <1>2, TickScan DEF LoadAddresses, EndTick, TickError, ReadOrphans, ReadTip
<1>3. ASSUME NEW d \in Vout, ReenqueueOrphan(d)
      PROVE  ScanInv' /\ CoverInv'
  BY <1>1, <1>3, TickScan DEF ReenqueueOrphan
<1>4. CASE NextBlock \/ SaveCursor
  BY <1>1, <1>4, BlockScan DEF NextBlock, SaveCursor
<1>5. ASSUME NEW d \in Vout,
             InspectVout(d) \/ ConfirmDeposit(d) \/ RefuseDeposit(d) \/ EnqueueMint(d)
      PROVE  ScanInv' /\ CoverInv'
  BY <1>1, <1>5, VoutScan
<1>6. CASE ReadSupply \/ ReadInFlight
  <2>1. /\ f'.pc = f.pc /\ f'.todo = f.todo /\ f'.h = f.h /\ f'.safe = f.safe
        /\ UNCHANGED <<cursor, origin, row>>
    BY <1>1, <1>6, ReadMoves DEF IsWatcher, ReadSupply, ReadInFlight
  <2>2. QED
    BY <1>1, <2>1, ScanFrame DEF Exists
<1>7. QED
  BY <1>2, <1>3, <1>4, <1>5, <1>6 DEF WatcherNext, WatcherStep

\* The signer makes and deletes no row.
LEMMA SignerKeepsRows ==
    ASSUME IInv, NEW d \in Vout, SignerNext(d)
    PROVE  \A c \in Vout : Exists(c)' = Exists(c)
<1>1. TypeOK /\ SignerStep(d) /\ DepositInv(d)
  BY DEF IInv, SignerNext
<1>2. \A c \in Vout : c # d => row'[c] = row[c]
  BY <1>1, SignerTouches
<1>3. m.vout = d => Exists(d)
  BY <1>1 DEF DepositInv, MintInv, RowInv
<1>4. row'[d] = row[d] \/ (Exists(d) /\ row'[d].status # "none")
  <2>1. CASE ClaimMint(d) \/ RecordHash(d) \/ RecordSafeHash(d)
    BY <1>1, <1>3, <2>1, RowMoves
       DEF ClaimMint, RecordHash, RecordSafeHash, At, RowBecomes, IsRow, Exists
  <2>2. CASE FinalizeMint(d) \/ FinalizeReverted(d)
    BY <1>1, <1>3, <2>2, RowMoves
       DEF FinalizeMint, FinalizeReverted, At, RowBecomes, IsRow, Exists
  <2>3. QED
    BY <1>1, <2>1, <2>2 DEF SignerStep, SignerProgress, TakeJob, LoadRow, Broadcast,
       BroadcastRefused, Propose, CheckProposal, WriteAudit, EndJob, StepFails,
       BroadcastUnanswered, ProposeUnanswered, ExecuteSafe, JobStalls, JobTrimmed
<1>5. QED
  BY <1>2, <1>4 DEF Exists

\* The other steps keep the watcher's invariants too.
LEMMA OtherScan ==
    ASSUME IInv, TypeOK', Next, ~WatcherNext
    PROVE  ScanInv' /\ CoverInv'
<1>1. /\ TypeOK /\ ScanInv /\ CoverInv /\ tip \in Nat /\ height \in [Vout -> Nat]
      /\ tip' \in Nat /\ height' \in [Vout -> Nat]
  BY WatcherAssumption DEF IInv, TypeOK, WatcherTypeOK
<1> USE DEF watcherVars, signerVars, deployment, chainVars
<1>2. ASSUME NEW d \in Vout, SignerNext(d)
      PROVE  ScanInv' /\ CoverInv'
  <2>1. f'.pc = f.pc /\ f'.todo = f.todo /\ f'.h = f.h /\ f'.safe = f.safe
    BY <1>1, <1>2, AroundSignerIs DEF IsWatcher
  <2>2. UNCHANGED <<tip, height, cursor, origin>>
    BY <1>2 DEF SignerNext, AroundSigner
  <2>3. \A c \in Vout : Exists(c)' = Exists(c)
    BY <1>2, SignerKeepsRows
  <2>4. QED
    BY <1>1, <2>1, <2>2, <2>3, ScanFrame
<1>3. CASE Crash \/ Exit \/ Start
  <2>1. f' = FOff \/ f' = FBlank
    BY <1>3 DEF Crash, Exit, Start
  <2>2. f'.pc \in {"off", "load"} /\ UNCHANGED <<row, tip, height, cursor, origin>>
    BY <1>3, <2>1, BlankRecords DEF Crash, Exit, Start, IsWatcher
  <2>3. QED
    BY <1>1, <2>2 DEF ScanInv, CoverInv, InBlock, Covered, Exists
<1>4. CASE \/ Stop \/ BurnAll
           \/ \E a \in Addr : ApiNext(a)
           \/ \E d \in Vout : Mine(d)
           \/ \E flag \in BOOLEAN : SetPaused(flag)
  <2>1. UNCHANGED <<row, tip, height, cursor, origin, f>>
    BY <1>4 DEF Stop, BurnAll, ApiNext, AllocateAddress, AnswerIntent, CreateIntent,
       IntentFails, AroundApi, Mine, SetPaused
  <2>2. QED
    BY <1>1, <2>1, ScanFrame DEF Exists
<1>5. CASE NewBlock
  <2>1. /\ UNCHANGED <<row, cursor, origin, f>> /\ tip' = tip + 1
        /\ \A d \in Vout : height'[d] = height[d] \/ (height[d] = 0 /\ height'[d] > tip)
    BY <1>1, <1>5 DEF NewBlock, Payable
  <2>2. QED
    BY <1>1, <2>1, ScanFrame DEF Exists
<1>6. CASE Tick
  <2>1. UNCHANGED <<tip, height, cursor, origin, f>>
    BY <1>1, <1>6 DEF Tick
  <2>2. ASSUME NEW d \in Vout PROVE Exists(d)' = Exists(d)
    <3>1. row[d] \in Deposit
      BY <1>1 DEF TypeOK, SharedTypeOK
    <3>2. row'[d] = IF Exists(d) THEN [row[d] EXCEPT !.age = Older(row[d].age),
                                                     !.since = Older(row[d].since)]
                                ELSE row[d]
      BY <1>6 DEF Tick
    <3>3. row'[d].status = row[d].status
      BY <3>1, <3>2 DEF Deposit
    <3>4. QED
      BY <3>3 DEF Exists
  <2>3. QED
    BY <1>1, <2>1, <2>2, ScanFrame
<1>7. QED
  BY <1>2, <1>3, <1>4, <1>5, <1>6 DEF Next

\* The set of documented addresses depends on the open and used intents.
LEMMA DocumentedSame ==
    ASSUME \A a \in Addr : \/ intent'[a].status = intent[a].status
                           \/ intent[a].status = "open" /\ intent'[a].status = "used"
                           \/ /\ intent[a].status \in {"none", "allocated"}
                              /\ intent'[a].status \in {"allocated", "dropped"}
    PROVE  Documented' = Documented
BY DEF Documented

\* The address cache is complete at every step.
LEMMA KnownStep ==
    ASSUME IInv, Next
    PROVE  KnownInv'
<1>1. /\ TypeOK /\ KnownInv /\ \A d \in Vout : height[d] \in Nat /\ VoutLog[d].addr \in Addr
      /\ tip \in Nat
  BY WatcherAssumption, DepositAssumption DEF IInv, TypeOK, WatcherTypeOK
<1> USE DEF watcherVars, signerVars, deployment, chainVars
<1>2. ASSUME UNCHANGED <<intent, known, height>>,
             f'.pc \notin {"off", "load"} => f.pc \notin {"off", "load"}
      PROVE  KnownInv'
  BY <1>1, <1>2 DEF KnownInv, Documented
<1>3. CASE WatcherNext
  <2>1. height' = height
    BY <1>3 DEF WatcherNext
  <2>2. CASE LoadAddresses
    BY <1>1, <2>1, <2>2 DEF LoadAddresses, KnownInv, Documented
  <2>3. ASSUME NEW d \in Vout, ConfirmDeposit(d) \/ RefuseDeposit(d)
        PROVE  KnownInv'
    <3>1. PICK status \in Status : Recorded(d, status)
      BY <2>3, Values DEF ConfirmDeposit, RefuseDeposit
    <3>2. \A a \in Addr : \/ intent'[a].status = intent[a].status
                          \/ intent[a].status = "open" /\ intent'[a].status = "used"
      BY <1>1, <3>1, RecordedIs
    <3>3. Documented' = Documented
      BY <3>2, DocumentedSame
    <3>4. known' = known /\ f.pc \notin {"off", "load"}
      BY <2>3 DEF ConfirmDeposit, RefuseDeposit, TvlRead
    <3>5. QED
      BY <1>1, <2>1, <3>2, <3>3, <3>4 DEF KnownInv
  <2>4. ASSUME NEW d \in Vout, ReenqueueOrphan(d) \/ InspectVout(d) \/ EnqueueMint(d)
        PROVE  KnownInv'
    BY <1>2, <2>1, <2>4 DEF ReenqueueOrphan, InspectVout, EnqueueMint
  <2>5. CASE ReadOrphans \/ ReadTip \/ NextBlock \/ EndTick \/ ReadSupply \/ ReadInFlight
             \/ SaveCursor \/ TickError
    BY <1>2, <2>1, <2>5 DEF ReadOrphans, ReadTip, NextBlock, EndTick, ReadSupply,
       ReadInFlight, SaveCursor, TickError
  <2>6. QED
    BY <1>3, <2>2, <2>3, <2>4, <2>5 DEF WatcherNext, WatcherStep
<1>4. ASSUME NEW d \in Vout, SignerNext(d)
      PROVE  KnownInv'
  <2>1. f'.pc = f.pc
    BY <1>1, <1>4, AroundSignerIs DEF IsWatcher
  <2>2. QED
    BY <1>2, <1>4, <2>1 DEF SignerNext, AroundSigner
<1>5. ASSUME NEW a \in Addr, ApiNext(a)
      PROVE  KnownInv'
  <2>1. UNCHANGED <<height, f>> /\ intent \in [Addr -> Intent]
    BY <1>1, <1>5 DEF ApiNext, AnswerIntent, AroundApi, TypeOK, SharedTypeOK
  <2>2. CASE AllocateAddress(a)
    <3>1. /\ known' = known \cup {a} /\ intent[a].status = "none"
          /\ intent'[a].status = "allocated"
          /\ \A i \in Addr : i # a => intent'[i] = intent[i]
      BY <2>1, <2>2 DEF AllocateAddress, Intent
    <3>2. Documented' = Documented
      BY <3>1, DocumentedSame
    <3>3. QED
      BY <1>1, <2>1, <3>1, <3>2 DEF KnownInv
  <2>3. CASE CreateIntent(a)
    <3>1. /\ known' = known /\ intent[a].status = "allocated"
          /\ intent'[a].status = "open"
          /\ \A i \in Addr : i # a => intent'[i] = intent[i]
      BY <2>1, <2>3 DEF CreateIntent, Intent
    <3>2. Documented' = Documented \cup {a} /\ a \in known
      BY <1>1, <3>1 DEF Documented, KnownInv
    <3>3. QED
      BY <1>1, <2>1, <3>1, <3>2 DEF KnownInv
  <2>4. CASE IntentFails(a)
    <3>1. /\ known' = known /\ intent[a].status = "allocated"
          /\ intent'[a].status = "dropped"
          /\ \A i \in Addr : i # a => intent'[i] = intent[i]
      BY <2>1, <2>4 DEF IntentFails, Intent
    <3>2. Documented' = Documented
      BY <3>1, DocumentedSame
    <3>3. QED
      BY <1>1, <2>1, <3>1, <3>2 DEF KnownInv
  <2>5. QED
    BY <1>5, <2>2, <2>3, <2>4 DEF ApiNext, AnswerIntent
<1>6. CASE Crash
  <2>1. /\ f'.pc = "off" /\ height' = height /\ intent \in [Addr -> Intent]
        /\ intent' = [a \in Addr |-> IF intent[a].status = "allocated"
                                     THEN [intent[a] EXCEPT !.status = "dropped"]
                                     ELSE intent[a]]
    BY <1>1, <1>6, BlankRecords DEF Crash, IsWatcher, TypeOK, SharedTypeOK
  <2>2. \A a \in Addr : IF intent[a].status = "allocated"
                        THEN intent'[a].status = "dropped"
                        ELSE intent'[a] = intent[a]
    BY <2>1 DEF Intent
  <2>3. Documented' = Documented
    BY <2>2, DocumentedSame
  <2>4. QED
    BY <1>1, <2>1, <2>2, <2>3 DEF KnownInv
<1>7. CASE Exit
  <2>1. f'.pc = "off" /\ UNCHANGED <<height, intent>>
        /\ \A a \in Addr : intent[a].status # "allocated"
    BY <1>7, BlankRecords DEF Exit, IsWatcher
  <2>2. QED
    BY <1>1, <2>1 DEF KnownInv, Documented
<1>8. CASE Start
  BY <1>2, <1>8, BlankRecords DEF Start, IsWatcher
<1>9. CASE \/ Stop \/ BurnAll
           \/ \E d \in Vout : Mine(d)
           \/ \E flag \in BOOLEAN : SetPaused(flag)
  BY <1>2, <1>9 DEF Stop, BurnAll, Mine, SetPaused
<1>10. CASE NewBlock
  <2>1. /\ UNCHANGED <<intent, known, f>>
        /\ \A d \in Vout : height'[d] = height[d]
                           \/ intent[VoutLog[d].addr].status \in {"open", "used"}
    BY <1>1, <1>10 DEF NewBlock, Payable
  <2>2. Documented' = Documented
    BY <2>1 DEF Documented
  <2>3. QED
    BY <1>1, <2>1, <2>2 DEF KnownInv, Documented
<1>11. CASE Tick
  <2>1. /\ UNCHANGED <<known, height, f>>
        /\ \A a \in Addr : intent'[a].status = intent[a].status
    BY <1>1, <1>11 DEF Tick, TypeOK, SharedTypeOK, Intent
  <2>2. Documented' = Documented
    BY <2>1, DocumentedSame
  <2>3. QED
    BY <1>1, <2>1, <2>2 DEF KnownInv
<1>12. QED
  BY <1>3, <1>4, <1>5, <1>6, <1>7, <1>8, <1>9, <1>10, <1>11 DEF Next

-----------------------------------------------------------------------------
(***************************************************************************)
(* The daily cap.                                                          *)
(***************************************************************************)

\* The sats of a set of outputs, as a sum over all of them.
LEMMA SumSats ==
    ASSUME NEW C \in SUBSET Vout
    PROVE  /\ MapThenSumSet(VoutSats, C)
                = Total([d \in Vout |-> IF d \in C THEN VoutSats(d) ELSE 0], Vout)
           /\ MapThenSumSet(VoutSats, C) \in Nat
<1> DEFINE sats == [d \in Vout |-> VoutSats(d)]
           part == [d \in Vout |-> IF d \in C THEN sats[d] ELSE 0]
<1>1. MapThenSumSet(VoutSats, C) = Total(sats, C)
  BY DEF Total, MapThenSumSet, MapThenFoldSet
<1>2. /\ \A d \in C : sats[d] \in Int
      /\ \A d \in Vout : part[d] \in Nat
      /\ part = [d \in Vout |-> IF d \in C THEN VoutSats(d) ELSE 0]
  BY AmountTypes
<1> HIDE DEF sats
<1>3. Total(sats, C) = Total(part, Vout)
  BY <1>2, VoutFacts, TotalPart
<1> HIDE DEF part
<1>4. Total(part, Vout) \in Nat
  BY <1>2, VoutFacts, TotalNat
<1>5. QED
  BY <1>1, <1>2, <1>3, <1>4

\* Fewer outputs are counted,
LEMMA SumFalls ==
    ASSUME NEW D \in SUBSET Vout, NEW C \in SUBSET D
    PROVE  MapThenSumSet(VoutSats, C) <= MapThenSumSet(VoutSats, D)
<1> DEFINE v == [d \in Vout |-> IF d \in C THEN VoutSats(d) ELSE 0]
           w == [d \in Vout |-> IF d \in D THEN VoutSats(d) ELSE 0]
<1>1. MapThenSumSet(VoutSats, C) = Total(v, Vout) /\ MapThenSumSet(VoutSats, D) = Total(w, Vout)
  BY SumSats
<1>2. \A d \in Vout : v[d] \in Int /\ w[d] \in Int /\ v[d] <= w[d]
  BY AmountTypes
<1> HIDE DEF v, w
<1>3. QED
  BY <1>1, <1>2, VoutFacts, TotalMonotonic

\* ... or one more.
LEMMA SumRises ==
    ASSUME NEW C \in SUBSET Vout, NEW d \in Vout
    PROVE  MapThenSumSet(VoutSats, C \cup {d}) <= MapThenSumSet(VoutSats, C) + VoutSats(d)
<1> DEFINE v == [e \in Vout |-> IF e \in C THEN VoutSats(e) ELSE 0]
           w == [e \in Vout |-> IF e \in C \cup {d} THEN VoutSats(e) ELSE 0]
<1>1. MapThenSumSet(VoutSats, C) = Total(v, Vout)
      /\ MapThenSumSet(VoutSats, C \cup {d}) = Total(w, Vout)
  BY SumSats
<1>2. /\ \A e \in Vout : v[e] \in Int /\ w[e] \in Int
      /\ \A e \in Vout \ {d} : v[e] = w[e]
      /\ w[d] = VoutSats(d) /\ v[d] \in Nat
      /\ VoutSats(d) \in Nat
  BY AmountTypes
<1> HIDE DEF v, w
<1>3. Total(w, Vout) = Total(v, Vout) + w[d] - v[d] /\ Total(v, Vout) \in Int
  BY <1>2, VoutFacts, TotalChange, TotalInt
<1>4. Total(w, Vout) <= Total(v, Vout) + VoutSats(d)
  BY <1>2, <1>3
<1>5. QED
  BY <1>1, <1>4

\* What an address has had admitted in a day.
LEMMA SumDailyType ==
    ASSUME NEW owner
    PROVE  SumDaily(owner) \in Nat
BY SumSats DEF SumDaily

\* A step that admits nothing adds to no sum.
LEMMA SumDailyFalls ==
    ASSUME \A d \in Vout : Counted(d)' => Counted(d), NEW owner
    PROVE  SumDaily(owner)' <= SumDaily(owner)
<1> DEFINE C == {d \in Vout : Counted(d)' /\ OwnerOf(d) = owner}
           D == {d \in Vout : Counted(d) /\ OwnerOf(d) = owner}
<1>1. D \in SUBSET Vout /\ C \in SUBSET D
  OBVIOUS
<1>2. SumDaily(owner)' = MapThenSumSet(VoutSats, C) /\ SumDaily(owner) = MapThenSumSet(VoutSats, D)
  BY DEF SumDaily, OwnerOf
<1> HIDE DEF C, D
<1>3. QED
  BY <1>1, <1>2, SumFalls

\* Admitting an output adds its sats to the sum of its owner.
LEMMA SumDailyRises ==
    ASSUME NEW d \in Vout, \A c \in Vout : c # d /\ Counted(c)' => Counted(c), NEW owner
    PROVE  /\ OwnerOf(d) = owner => SumDaily(owner)' <= SumDaily(owner) + VoutSats(d)
           /\ OwnerOf(d) # owner => SumDaily(owner)' <= SumDaily(owner)
<1> DEFINE C == {e \in Vout : Counted(e)' /\ OwnerOf(e) = owner}
           D == {e \in Vout : Counted(e) /\ OwnerOf(e) = owner}
<1>1. D \in SUBSET Vout /\ D \cup {d} \in SUBSET Vout /\ C \in SUBSET (D \cup {d})
      /\ (OwnerOf(d) # owner => C \in SUBSET D)
  OBVIOUS
<1>2. SumDaily(owner)' = MapThenSumSet(VoutSats, C) /\ SumDaily(owner) = MapThenSumSet(VoutSats, D)
  BY DEF SumDaily, OwnerOf
<1>3. VoutSats(d) \in Nat
  BY AmountTypes
<1> HIDE DEF C, D
<1>4. /\ MapThenSumSet(VoutSats, C) \in Nat /\ MapThenSumSet(VoutSats, D) \in Nat
      /\ MapThenSumSet(VoutSats, D \cup {d}) \in Nat
  BY <1>1, SumSats
<1>5. OwnerOf(d) # owner => MapThenSumSet(VoutSats, C) <= MapThenSumSet(VoutSats, D)
  BY <1>1, SumFalls
<1>6. MapThenSumSet(VoutSats, C) <= MapThenSumSet(VoutSats, D \cup {d})
  BY <1>1, SumFalls
<1>7. MapThenSumSet(VoutSats, D \cup {d}) <= MapThenSumSet(VoutSats, D) + VoutSats(d)
  BY <1>1, SumRises
<1> DEFINE c == MapThenSumSet(VoutSats, C)
           n == MapThenSumSet(VoutSats, D)
           p == MapThenSumSet(VoutSats, D \cup {d})
<1>8. c \in Nat /\ n \in Nat /\ p \in Nat /\ c <= p /\ p <= n + VoutSats(d)
      /\ (OwnerOf(d) # owner => c <= n)
  BY <1>4, <1>5, <1>6, <1>7
<1>9. SumDaily(owner)' = c /\ SumDaily(owner) = n
  BY <1>2
<1> HIDE DEF c, n, p
<1>10. c <= n + VoutSats(d)
  BY <1>3, <1>8
<1>11. QED
  BY <1>8, <1>9, <1>10

\* A step that admits nothing and leaves the watcher where it is keeps the cap.
LEMMA CapFrame ==
    ASSUME IInv, \A d \in Vout : Counted(d)' => Counted(d),
           f'.pc = "tvl" => f.pc = "tvl" /\ f'.todo = f.todo
    PROVE  CapInv'
<1>1. CapInv /\ DailyCap \in Nat
  BY WatcherAssumption DEF IInv
<1>2. ASSUME NEW d \in Vout
      PROVE  /\ SumDaily(OwnerOf(d))' \in Nat /\ SumDaily(OwnerOf(d)) \in Nat
             /\ SumDaily(OwnerOf(d))' <= SumDaily(OwnerOf(d))
             /\ VoutSats(d) \in Nat
  <2> DEFINE owner == OwnerOf(d)
  <2>1. SumDaily(owner)' \in Nat /\ SumDaily(owner) \in Nat
    BY SumSats DEF SumDaily, OwnerOf
  <2>2. SumDaily(owner)' <= SumDaily(owner)
    <3> HIDE DEF owner
    <3>1. QED
      BY SumDailyFalls
  <2>3. QED
    BY <2>1, <2>2, AmountTypes
<1>3. SumsUnderCap'
  BY <1>1, <1>2 DEF CapInv, SumsUnderCap
<1>4. f'.pc = "tvl" => \A d \in f'.todo :
         IsNext(d)' => SumDaily(OwnerOf(d))' + VoutSats(d) <= DailyCap
  <2>1. SUFFICES ASSUME f'.pc = "tvl", NEW d \in f'.todo, IsNext(d)'
                 PROVE  SumDaily(OwnerOf(d))' + VoutSats(d) <= DailyCap
    OBVIOUS
  <2>2. f.pc = "tvl" /\ d \in f.todo /\ IsNext(d) /\ d \in Vout
    BY <2>1 DEF IsNext, IInv, TypeOK, WatcherTypeOK, Watcher
  <2>3. SumDaily(OwnerOf(d)) + VoutSats(d) <= DailyCap
    BY <1>1, <2>2 DEF CapInv
  <2>4. QED
    BY <1>1, <1>2, <2>2, <2>3
<1>5. QED
  BY <1>3, <1>4 DEF CapInv, VoutSats, OwnerOf

\* Inspecting an output checks the cap, admitting it keeps it.
LEMMA CapVout ==
    ASSUME IInv, NEW d \in Vout, InspectVout(d) \/ ConfirmDeposit(d)
    PROVE  CapInv'
<1>1. TypeOK /\ CapInv /\ DailyCap \in Nat /\ VoutSats(d) \in Nat /\ IsNext(d)
  BY AmountTypes, WatcherAssumption DEF IInv, InspectVout, ConfirmDeposit
<1>2. CASE InspectVout(d)
  <2>1. row' = row
    BY <1>2 DEF InspectVout
  <2>2. ASSUME NEW e \in Vout
        PROVE  SumDaily(OwnerOf(e))' = SumDaily(OwnerOf(e))
    <3> DEFINE owner == OwnerOf(e)
    <3>1. {c \in Vout : Counted(c)' /\ OwnerOf(c) = owner}
              = {c \in Vout : Counted(c) /\ OwnerOf(c) = owner}
      BY <2>1 DEF Counted
    <3>2. QED
      BY <3>1 DEF SumDaily, OwnerOf
  <2>3. SumsUnderCap'
    BY <1>1, <2>2 DEF CapInv, SumsUnderCap, OwnerOf
  <2>4. f'.pc = "tvl" => ~OverCap(d) /\ f'.todo = f.todo
    BY <1>1, <1>2, VoutMoves DEF IsWatcher
  <2>5. ASSUME f'.pc = "tvl", NEW e \in f'.todo, IsNext(e)'
        PROVE  SumDaily(OwnerOf(e))' + VoutSats(e) <= DailyCap
    <3>1. e \in Vout /\ IsNext(e)
      BY <1>1, <2>4, <2>5 DEF IsNext, TypeOK, WatcherTypeOK, Watcher
    <3>2. e = d
      BY <1>1, <3>1, NextIsUnique
    <3>3. SumDaily(OwnerOf(d)) + VoutSats(d) <= DailyCap
      <4>1. SumDaily(OwnerOf(d)) \in Nat
        BY SumDailyType
      <4>2. QED
        BY <1>1, <2>4, <2>5, <4>1 DEF OverCap
    <3>4. QED
      BY <2>2, <3>2, <3>3
  <2>6. QED
    BY <2>3, <2>5 DEF CapInv, VoutSats, OwnerOf
<1>3. CASE ConfirmDeposit(d)
  <2>1. f'.pc = "enqueue" /\ f.pc = "tvl" /\ d \in f.todo /\ Recorded(d, "CONFIRMED")
    BY <1>1, <1>3, VoutMoves DEF IsWatcher, ConfirmDeposit, TvlRead, IsNext
  <2>2. \A c \in Vout : c # d /\ Counted(c)' => Counted(c)
    <3>1. \A c \in Vout : c # d => row'[c] = row[c]
      BY <1>1, <2>1, RecordedIs, Values
    <3>2. QED
      BY <3>1 DEF Counted
  <2>3. SumDaily(OwnerOf(d)) + VoutSats(d) <= DailyCap
    BY <1>1, <2>1 DEF CapInv
  <2>4. ASSUME NEW e \in Vout
        PROVE  SumDaily(OwnerOf(e))' <= DailyCap
    <3> DEFINE owner == OwnerOf(e)
    <3>1. SumDaily(owner)' \in Nat /\ SumDaily(owner) \in Nat
      BY SumSats DEF SumDaily, OwnerOf
    <3>2. SumDaily(owner) <= DailyCap
      BY <1>1 DEF CapInv, SumsUnderCap
    <3>3. owner = OwnerOf(d) => SumDaily(owner) + VoutSats(d) <= DailyCap
      BY <2>3
    <3>4. SumDaily(owner)' = SumDaily(OwnerOf(e))'
      BY DEF OwnerOf
    <3> HIDE DEF owner
    <3>5. /\ OwnerOf(d) = owner => SumDaily(owner)' <= SumDaily(owner) + VoutSats(d)
          /\ OwnerOf(d) # owner => SumDaily(owner)' <= SumDaily(owner)
      BY <2>2, SumDailyRises
    <3>6. SumDaily(owner)' <= DailyCap
      BY <1>1, <3>1, <3>2, <3>3, <3>5
    <3>7. QED
      BY <3>4, <3>6
  <2>5. QED
    BY <2>1, <2>4 DEF CapInv, SumsUnderCap, OwnerOf
<1>4. QED
  BY <1>1, <1>2, <1>3

\* The signer counts no output that was not counted.
LEMMA SignerCounts ==
    ASSUME IInv, NEW d \in Vout, SignerNext(d)
    PROVE  \A c \in Vout : Counted(c)' => Counted(c)
<1>1. TypeOK /\ SignerStep(d) /\ DepositInv(d)
  BY DEF IInv, SignerNext
<1>2. \A c \in Vout : c # d => row'[c] = row[c]
  BY <1>1, SignerTouches
<1>3. row'[d] = row[d] \/ (row'[d].age = row[d].age
                           /\ (row'[d].status \in Live => row[d].status \in Live))
  <2>1. CASE ClaimMint(d)
    BY <1>1, <2>1, RowMoves DEF RowBecomes, IsRow, Claimable, Live
  <2>2. CASE RecordHash(d) \/ RecordSafeHash(d)
    BY <1>1, <2>2, RowMoves DEF RowBecomes, IsRow
  <2>3. CASE FinalizeReverted(d)
    BY <1>1, <2>3, RowMoves DEF RowBecomes, IsRow, Live
  <2>4. CASE FinalizeMint(d)
    <3>1. row[d].status = "MINTING"
      BY <1>1, <2>4 DEF DepositInv, MintInv, RowInv, FinalizeMint, At
    <3>2. QED
      BY <1>1, <2>4, <3>1, RowMoves DEF RowBecomes, IsRow, Live
  <2>5. QED
    BY <1>1, <2>1, <2>2, <2>3, <2>4 DEF SignerStep, SignerProgress, TakeJob, LoadRow,
       Broadcast, BroadcastRefused, Propose, CheckProposal, WriteAudit, EndJob, StepFails,
       BroadcastUnanswered, ProposeUnanswered, ExecuteSafe, JobStalls, JobTrimmed
<1>4. QED
  BY <1>2, <1>3 DEF Counted, Live

\* The daily cap holds at every step.
LEMMA CapStep ==
    ASSUME IInv, Next
    PROVE  CapInv'
<1>1. TypeOK
  BY DEF IInv
<1> USE DEF watcherVars, signerVars, deployment, chainVars
<1>2. ASSUME row' = row, f'.pc = "tvl" => f.pc = "tvl" /\ f'.todo = f.todo
      PROVE  CapInv'
  BY <1>2, CapFrame DEF Counted
<1>3. CASE WatcherNext
  <2>1. ASSUME NEW d \in Vout, RefuseDeposit(d)
        PROVE  CapInv'
    <3>1. Recorded(d, "FAILED") /\ f'.pc = "vouts"
      BY <1>1, <2>1, VoutMoves DEF RefuseDeposit, IsWatcher
    <3>2. row'[d].status = "FAILED" /\ \A c \in Vout : c # d => row'[c] = row[c]
      BY <1>1, <3>1, RecordedIs, Values
    <3>3. \A c \in Vout : Counted(c)' => Counted(c)
      BY <3>2 DEF Counted
    <3>4. QED
      BY <3>1, <3>3, CapFrame
  <2>2. ASSUME NEW d \in Vout, ReenqueueOrphan(d) \/ EnqueueMint(d)
        PROVE  CapInv'
    BY <1>1, <1>2, <2>2, TickMoves, VoutMoves DEF ReenqueueOrphan, EnqueueMint, IsWatcher
  <2>3. CASE ReadSupply \/ ReadInFlight
    BY <1>1, <1>2, <2>3, ReadMoves DEF ReadSupply, ReadInFlight, IsWatcher
  <2>4. CASE LoadAddresses \/ ReadOrphans \/ EndTick \/ TickError
    BY <1>1, <1>2, <2>4, TickMoves DEF LoadAddresses, ReadOrphans, EndTick, TickError,
       IsWatcher
  <2>5. CASE ReadTip
    BY <1>1, <1>2, <2>5, ReadTipMoves DEF ReadTip, IsWatcher
  <2>6. CASE NextBlock \/ SaveCursor
    BY <1>1, <1>2, <2>6, BlockMoves DEF NextBlock, SaveCursor, IsWatcher
  <2>7. QED
    BY <1>3, <2>1, <2>2, <2>3, <2>4, <2>5, <2>6, CapVout DEF WatcherNext, WatcherStep
<1>4. ASSUME NEW d \in Vout, SignerNext(d)
      PROVE  CapInv'
  <2>1. f'.pc = f.pc /\ f'.todo = f.todo
    BY <1>1, <1>4, AroundSignerIs DEF IsWatcher
  <2>2. QED
    BY <1>4, <2>1, SignerCounts, CapFrame
<1>5. CASE \E a \in Addr : ApiNext(a)
  BY <1>2, <1>5 DEF ApiNext, AllocateAddress, AnswerIntent, CreateIntent, IntentFails,
     AroundApi
<1>6. CASE Crash \/ Exit \/ Start
  BY <1>2, <1>6, BlankRecords DEF Crash, Exit, Start, IsWatcher
<1>7. CASE \/ Stop \/ BurnAll \/ NewBlock
           \/ \E d \in Vout : Mine(d)
           \/ \E flag \in BOOLEAN : SetPaused(flag)
  BY <1>2, <1>7 DEF Stop, BurnAll, NewBlock, Mine, SetPaused
<1>8. CASE Tick
  <2>1. ASSUME NEW d \in Vout, Counted(d)' PROVE Counted(d)
    <3>1. row[d] \in Deposit /\ row[d].age \in Nat /\ Day \in Nat
          /\ row'[d] = IF Exists(d)
                       THEN [row[d] EXCEPT !.age = Older(row[d].age),
                                           !.since = Older(row[d].since)]
                       ELSE row[d]
      <4>1. row[d] \in Deposit /\ Day \in Nat
        BY <1>1, DepositAssumption DEF TypeOK, SharedTypeOK
      <4>2. row[d].age \in Nat
        BY <4>1, DepositAssumption DEF Deposit
      <4>3. QED
        BY <1>8, <4>1, <4>2 DEF Tick
    <3>2. CASE Exists(d)
      <4>1. row'[d].status = row[d].status /\ row'[d].age = Older(row[d].age)
        BY <3>1, <3>2 DEF Deposit
      <4>2. QED
        BY <2>1, <3>1, <4>1 DEF Counted, Older
    <3>3. CASE ~Exists(d)
      BY <2>1, <3>1, <3>3 DEF Counted
    <3>4. QED
      BY <3>2, <3>3
  <2>2. QED
    BY <1>8, <2>1, CapFrame DEF Tick
<1>9. QED
  BY <1>3, <1>4, <1>5, <1>6, <1>7, <1>8 DEF Next

-----------------------------------------------------------------------------
(***************************************************************************)
(* The supply cap.                                                         *)
(***************************************************************************)

\* The transactions of a sequence that succeeded, and what a deposit with
\* such a status and such transactions adds to the exposure.
Succeeded(s) == {i \in DOMAIN s : s[i] = "success"}

Pledge(d, status, s) ==
    MintWei(d) * ((IF status \in Live THEN 1 ELSE 0) - Cardinality(Succeeded(s)))

\* How the number of transactions that succeeded changes.
LEMMA SucceededCount ==
    ASSUME NEW s \in Seq(TxStatus)
    PROVE  /\ IsFiniteSet(Succeeded(s)) /\ Cardinality(Succeeded(s)) \in Nat
           /\ \A i \in DOMAIN s : s[i] = "success" => Cardinality(Succeeded(s)) >= 1
           /\ Succeeded(Append(s, "pending")) = Succeeded(s)
           /\ Cardinality(Succeeded(Append(s, "success"))) = Cardinality(Succeeded(s)) + 1
           /\ \A i \in DOMAIN s : s[i] = "pending" =>
                 /\ Succeeded([s EXCEPT ![i] = "reverted"]) = Succeeded(s)
                 /\ Cardinality(Succeeded([s EXCEPT ![i] = "success"]))
                       = Cardinality(Succeeded(s)) + 1
<1>1. IsFiniteSet(Succeeded(s)) /\ Cardinality(Succeeded(s)) \in Nat
  <2>1. IsFiniteSet(1..Len(s)) /\ Succeeded(s) \subseteq 1..Len(s)
    BY FS_Interval DEF Succeeded
  <2>2. IsFiniteSet(Succeeded(s))
    BY <2>1, FS_Subset
  <2>3. QED
    BY <2>2, FS_CardinalityType
<1>2. ASSUME NEW i \in DOMAIN s, s[i] = "success"
      PROVE  Cardinality(Succeeded(s)) >= 1
  <2>1. Succeeded(s) # {}
    BY <1>2 DEF Succeeded
  <2>2. Cardinality(Succeeded(s)) # 0
    BY <1>1, <2>1, FS_EmptySet
  <2>3. QED
    BY <1>1, <2>2
<1>3. Succeeded(Append(s, "pending")) = Succeeded(s)
  BY DEF Succeeded
<1>4. Cardinality(Succeeded(Append(s, "success"))) = Cardinality(Succeeded(s)) + 1
  <2>1. Succeeded(Append(s, "success")) = Succeeded(s) \cup {Len(s) + 1}
        /\ Len(s) + 1 \notin Succeeded(s)
    BY DEF Succeeded
  <2>2. QED
    BY <1>1, <2>1, FS_AddElement
<1>5. ASSUME NEW i \in DOMAIN s, s[i] = "pending"
      PROVE  /\ Succeeded([s EXCEPT ![i] = "reverted"]) = Succeeded(s)
             /\ Cardinality(Succeeded([s EXCEPT ![i] = "success"]))
                   = Cardinality(Succeeded(s)) + 1
  <2>1. Succeeded([s EXCEPT ![i] = "reverted"]) = Succeeded(s)
    BY <1>5 DEF Succeeded
  <2>2. Succeeded([s EXCEPT ![i] = "success"]) = Succeeded(s) \cup {i} /\ i \notin Succeeded(s)
    BY <1>5 DEF Succeeded
  <2>3. QED
    BY <1>1, <2>1, <2>2, FS_AddElement
<1>6. QED
  BY <1>1, <1>2, <1>3, <1>4, <1>5

\* A pledge is an integer, and one more mint or one deposit less lowers it by
\* the mint.
LEMMA PledgeChange ==
    ASSUME NEW d \in Vout, NEW s \in Seq(TxStatus), NEW t \in Seq(TxStatus),
           NEW status, NEW next
    PROVE  /\ Pledge(d, status, s) \in Int
           /\ /\ Cardinality(Succeeded(t)) = Cardinality(Succeeded(s))
              /\ status \in Live <=> next \in Live
              => Pledge(d, next, t) = Pledge(d, status, s)
           /\ /\ Cardinality(Succeeded(t)) = Cardinality(Succeeded(s)) + 1
              /\ status \in Live <=> next \in Live
              => Pledge(d, next, t) = Pledge(d, status, s) - MintWei(d)
           /\ status \in Live /\ next \notin Live =>
                 Pledge(d, next, s) = Pledge(d, status, s) - MintWei(d)
           /\ status \notin Live /\ next \in Live =>
                 Pledge(d, next, s) = Pledge(d, status, s) + MintWei(d)
<1> DEFINE w == MintWei(d)
           n == Cardinality(Succeeded(s))
           k == Cardinality(Succeeded(t))
           a == IF status \in Live THEN 1 ELSE 0
           b == IF next \in Live THEN 1 ELSE 0
<1>1. w \in Nat /\ n \in Nat /\ k \in Nat /\ a \in {0, 1} /\ b \in {0, 1}
  BY AmountTypes, SucceededCount
<1>2. Pledge(d, status, s) = w * (a - n) /\ Pledge(d, next, t) = w * (b - k)
      /\ Pledge(d, next, s) = w * (b - n)
  BY DEF Pledge
<1>3. /\ status \in Live <=> a = 1
      /\ next \in Live <=> b = 1
  OBVIOUS
<1> HIDE DEF w, n, k, a, b
<1>4. \A i \in Int : w * i \in Int /\ w * (i + 1) = w * i + w /\ w * (i - 1) = w * i - w
  BY <1>1
<1>5. a - n \in Int
  BY <1>1
<1>6. k = n + 1 /\ a = b => b - k = (a - n) - 1
  BY <1>1
<1>7. a = 1 /\ b = 0 => b - n = (a - n) - 1
  BY <1>1
<1>8. a = 0 /\ b = 1 => b - n = (a - n) + 1
  BY <1>1
<1>9. QED
  BY <1>1, <1>2, <1>3, <1>4, <1>5, <1>6, <1>7, <1>8 DEF w, n, k

LEMMA PledgeMints ==
    ASSUME NEW d \in Vout, NEW s \in Seq(TxStatus), NEW t \in Seq(TxStatus), NEW status
    PROVE  /\ Pledge(d, status, s) \in Int /\ Pledge(d, status, t) \in Int
           /\ Cardinality(Succeeded(t)) = Cardinality(Succeeded(s)) =>
                 Pledge(d, status, t) = Pledge(d, status, s)
           /\ Cardinality(Succeeded(t)) = Cardinality(Succeeded(s)) + 1 =>
                 Pledge(d, status, t) = Pledge(d, status, s) - MintWei(d)
BY PledgeChange

\* Pledges, in terms of the row and the transactions.
LEMMA PledgesAre ==
    /\ Pledges = [d \in Vout |-> Pledge(d, row[d].status, tx[d])]
    /\ Pledges' = [d \in Vout |-> Pledge(d, row'[d].status, tx'[d])]
BY DEF Pledges, Pledge, Owed, Minted, Successes, Succeeded, Live

\* A deposit that was minted is no longer owed, one that is owed is in flight.
LEMMA PledgeBound ==
    ASSUME TypeOK, NEW d \in Vout, RowInv(d)
    PROVE  /\ Pledges[d] \in Int /\ FlightWei[d] \in Nat
           /\ Pledges[d] <= FlightWei[d]
           /\ row[d].hash # 0 /\ Receipt(d) = "success" => Pledges[d] <= 0
<1> DEFINE w == MintWei(d)
           n == Cardinality(Succeeded(tx[d]))
           a == IF row[d].status \in Live THEN 1 ELSE 0
<1>1. tx[d] \in Seq(TxStatus) /\ w \in Nat /\ n \in Nat /\ a \in {0, 1}
  BY AmountTypes, SucceededCount DEF TypeOK, SharedTypeOK
<1>2. row[d].hash # 0 /\ Receipt(d) = "success" => n >= 1
  BY <1>1, SucceededCount DEF RowInv, Receipt
<1>3. Pledges[d] = w * (a - n) /\ FlightWei[d] = IF InFlight(d) THEN w ELSE 0
  BY PledgesAre DEF Pledge, FlightWei
<1>4. /\ InFlight(d) \/ a = 0 \/ n >= 1
      /\ InFlight(d) => a = 1
  BY <1>2 DEF Live, InFlight, RowInv
<1> HIDE DEF w, n, a
<1>5. a - n \in Int /\ a - n <= 1 /\ (a - n <= 0 \/ n = 0)
  BY <1>1
<1>6. w * (a - n) \in Int /\ (a - n <= 0 => w * (a - n) <= 0) /\ (a - n <= 1 => w * (a - n) <= w)
  <2> DEFINE k == a - n
  <2>1. k \in Int /\ k <= 1
    BY <1>5
  <2> HIDE DEF k
  <2>2. w * k \in Int /\ (k <= 0 => w * k <= 0) /\ w * k <= w
    BY <1>1, <2>1
  <2>3. QED
    BY <2>2 DEF k
<1>7. n >= 1 \/ a = 0 => a - n <= 0
  BY <1>1
<1>8. QED
  BY <1>1, <1>2, <1>3, <1>4, <1>5, <1>6, <1>7

\* The exposure is an integer, and within what the two reads return when
\* nothing happens between them.
LEMMA ExposureBound ==
    ASSUME TypeOK, \A d \in Vout : RowInv(d)
    PROVE  /\ Exposure \in Int /\ Total(FlightWei, Vout) \in Nat
           /\ Exposure <= supply + Total(FlightWei, Vout)
<1>1. \A d \in Vout : Pledges[d] \in Int /\ FlightWei[d] \in Int /\ Pledges[d] <= FlightWei[d]
  BY PledgeBound
<1>2. Total(Pledges, Vout) \in Int /\ Total(Pledges, Vout) <= Total(FlightWei, Vout)
  BY <1>1, VoutFacts, TotalInt, TotalMonotonic
<1>3. QED
  BY <1>2, FlightType DEF Exposure, TypeOK, SharedTypeOK

\* A step that changes no status and no transaction changes neither sum.
LEMMA ExposureSame ==
    ASSUME TypeOK, \A d \in Vout : row'[d].status = row[d].status /\ tx'[d] = tx[d]
    PROVE  /\ Total(Pledges, Vout)' = Total(Pledges, Vout)
           /\ Total(FlightWei, Vout)' = Total(FlightWei, Vout)
<1>1. Pledges' = Pledges
  BY PledgesAre
<1>2. FlightWei' = FlightWei
  BY DEF FlightWei, InFlight, MintWei, VoutSats
<1>3. QED
  BY <1>1, <1>2

\* A step about one output changes both sums by that output's part.
LEMMA ExposureChange ==
    ASSUME TypeOK, NEW d \in Vout, tx'[d] \in Seq(TxStatus),
           \A c \in Vout : c # d => row'[c].status = row[c].status /\ tx'[c] = tx[c]
    PROVE  /\ Total(Pledges, Vout)' = Total(Pledges, Vout)
                 + Pledge(d, row'[d].status, tx'[d]) - Pledge(d, row[d].status, tx[d])
           /\ Total(FlightWei, Vout)' = Total(FlightWei, Vout)
                 + (IF row'[d].status \in {"CONFIRMED", "MINTING"} THEN MintWei(d) ELSE 0)
                 - FlightWei[d]
<1> DEFINE v == [c \in Vout |-> Pledge(c, row[c].status, tx[c])]
           w == [c \in Vout |-> Pledge(c, row'[c].status, tx'[c])]
           x == [c \in Vout |-> IF row'[c].status \in {"CONFIRMED", "MINTING"}
                                THEN MintWei(c) ELSE 0]
<1>1. Pledges = v /\ Pledges' = w /\ FlightWei' = x
  BY PledgesAre DEF FlightWei, InFlight, MintWei, VoutSats
<1>2. \A c \in Vout : tx[c] \in Seq(TxStatus) /\ tx'[c] \in Seq(TxStatus)
  BY DEF TypeOK, SharedTypeOK
<1>3. /\ \A c \in Vout : v[c] \in Int /\ w[c] \in Int
      /\ \A c \in Vout \ {d} : v[c] = w[c]
      /\ v[d] = Pledge(d, row[d].status, tx[d])
      /\ w[d] = Pledge(d, row'[d].status, tx'[d])
  BY <1>2, PledgeChange
<1>4. /\ \A c \in Vout : FlightWei[c] \in Int /\ x[c] \in Int
      /\ \A c \in Vout \ {d} : FlightWei[c] = x[c]
      /\ x[d] = IF row'[d].status \in {"CONFIRMED", "MINTING"} THEN MintWei(d) ELSE 0
  BY AmountTypes DEF FlightWei, InFlight
<1> HIDE DEF v, w, x
<1>5. Total(w, Vout) = Total(v, Vout) + w[d] - v[d]
  BY <1>3, VoutFacts, TotalChange
<1>6. Total(x, Vout) = Total(FlightWei, Vout) + x[d] - FlightWei[d]
  BY <1>4, VoutFacts, TotalChange
<1>7. Total(Pledges, Vout)' = Total(w, Vout) /\ Total(FlightWei, Vout)' = Total(x, Vout)
  BY <1>1 DEF Vout
<1>8. QED
  BY <1>1, <1>3, <1>4, <1>5, <1>6, <1>7

\* A step that does not raise the exposure, and leaves the TVL check where it
\* is or out of it, keeps the cap.
LEMMA TvlReset ==
    ASSUME IInv, Exposure' \in Int, Exposure' <= Exposure, slip' = slip,
           f'.supply = -1, f'.inflight = -1
    PROVE  TvlInv'
<1>1. Exposure \in Int /\ Exposure <= MaxTvl + slip /\ MaxTvl \in Nat /\ slip \in Nat
  <2>1. TypeOK /\ \A d \in Vout : RowInv(d)
    BY DEF IInv, DepositInv
  <2>2. QED
    BY <2>1, ExposureBound, WatcherAssumption DEF IInv, TvlInv, TypeOK, WatcherTypeOK
<1>2. Exposure' <= MaxTvl + slip'
  BY <1>1
<1>3. QED
  BY <1>2 DEF TvlInv

LEMMA TvlFrame ==
    ASSUME IInv, TypeOK', Total(FlightWei, Vout)' \in Nat, slip' = slip,
           Exposure' \in Int, Exposure' <= Exposure, Exposure' - supply' <= Exposure - supply,
           Exposure' - Total(FlightWei, Vout)' <= Exposure - Total(FlightWei, Vout),
           f'.pc = f.pc, f'.supply = f.supply, f'.inflight = f.inflight,
           f'.missed >= f.missed
    PROVE  TvlInv'
<1> DEFINE F == Total(FlightWei, Vout)
           G == Total(FlightWei, Vout)'
<1>1. TypeOK /\ TvlInv /\ \A d \in Vout : RowInv(d)
  BY DEF IInv, DepositInv
<1>2. Exposure \in Int /\ F \in Nat /\ G \in Nat /\ MaxTvl \in Nat /\ slip \in Nat
  BY <1>1, ExposureBound, WatcherAssumption DEF TypeOK, WatcherTypeOK
<1>3. /\ f.supply \in Int /\ f.inflight \in Int /\ f.missed \in Int /\ f'.missed \in Int
      /\ supply \in Int /\ supply' \in Int
  <2>1. f \in Watcher /\ f' \in Watcher /\ supply \in Nat /\ supply' \in Nat
    BY <1>1 DEF TypeOK, WatcherTypeOK, SharedTypeOK
  <2>2. QED
    BY <2>1 DEF Watcher
<1>4. Exposure' - G <= Exposure - F
  OBVIOUS
<1> HIDE DEF F, G
<1>5. Exposure' <= MaxTvl + slip'
  BY <1>1, <1>2 DEF TvlInv
<1>6. f'.pc # "tvl" => f'.supply = -1 /\ f'.inflight = -1
  BY <1>1 DEF TvlInv
<1>7. ASSUME f.pc = "tvl", f.supply # -1, f.inflight = -1
      PROVE  Exposure' <= f'.supply + G + f'.missed
  <2>1. Exposure <= f.supply + F + f.missed
    BY <1>1, <1>7 DEF TvlInv, F
  <2>2. QED
    BY <1>2, <1>3, <1>4, <2>1
<1>8. ASSUME f.pc = "tvl", f.supply = -1, f.inflight # -1
      PROVE  Exposure' <= supply' + f'.inflight
  <2>1. Exposure <= supply + f.inflight
    BY <1>1, <1>8 DEF TvlInv
  <2>2. QED
    BY <1>2, <1>3, <2>1
<1>9. ASSUME f.pc = "tvl", f.supply # -1, f.inflight # -1
      PROVE  Exposure' <= f'.supply + f'.inflight + f'.missed
  <2>1. Exposure <= f.supply + f.inflight + f.missed
    BY <1>1, <1>9 DEF TvlInv
  <2>2. QED
    BY <1>2, <1>3, <2>1
<1>10. QED
  BY <1>5, <1>6, <1>7, <1>8, <1>9 DEF TvlInv, G

\* What a step of the signer does to the exposure: a claim, a hash or a
\* proposal nothing, a mint that reverted lowers it, and one the Safe executes
\* moves from the deposits to the supply.
SumsFall ==
    /\ Exposure' \in Int /\ Total(FlightWei, Vout)' \in Nat
    /\ Exposure' <= Exposure
    /\ Exposure' - supply' <= Exposure - supply
    /\ Exposure' - Total(FlightWei, Vout)' <= Exposure - Total(FlightWei, Vout)

LEMMA SumsSame ==
    ASSUME TypeOK, supply' = supply, \A d \in Vout : RowInv(d),
           \A d \in Vout : row'[d].status = row[d].status /\ tx'[d] = tx[d]
    PROVE  SumsFall
<1>1. /\ Exposure \in Int /\ Total(FlightWei, Vout) \in Nat /\ supply \in Nat
  BY ExposureBound DEF TypeOK, SharedTypeOK
<1>2. Exposure' = Exposure /\ Total(FlightWei, Vout)' = Total(FlightWei, Vout)
  BY ExposureSame DEF Exposure
<1>3. QED
  BY <1>1, <1>2 DEF SumsFall

\* A step about output d adds p to its pledge, q to its part of the mints in
\* flight and s to the supply ...
MovesBy(d, p, q, s) ==
    /\ tx'[d] \in Seq(TxStatus)
    /\ \A c \in Vout : c # d => row'[c].status = row[c].status /\ tx'[c] = tx[c]
    /\ Pledge(d, row'[d].status, tx'[d]) = Pledge(d, row[d].status, tx[d]) + p
    /\ (IF row'[d].status \in {"CONFIRMED", "MINTING"} THEN MintWei(d) ELSE 0)
          = FlightWei[d] + q
    /\ supply' = supply + s

\* ... and so to the sums.
SumsBy(p, q, s) ==
    /\ Exposure \in Int /\ Exposure' \in Int /\ Exposure' = Exposure + p + s
    /\ Total(FlightWei, Vout) \in Nat
    /\ Total(FlightWei, Vout)' = Total(FlightWei, Vout) + q

LEMMA SumsMove ==
    ASSUME TypeOK, \A c \in Vout : RowInv(c), NEW d \in Vout,
           NEW p \in Int, NEW q \in Int, NEW s \in Int, MovesBy(d, p, q, s)
    PROVE  SumsBy(p, q, s)
<1> DEFINE P == Total(Pledges, Vout)
           Q == Total(Pledges, Vout)'
           a == Pledge(d, row[d].status, tx[d])
           F == Total(FlightWei, Vout)
           G == Total(FlightWei, Vout)'
           b == FlightWei[d]
<1>1. a \in Int /\ b \in Int /\ F \in Nat /\ supply \in Nat /\ Exposure \in Int
      /\ P \in Int
  <2>1. a \in Int /\ supply \in Nat
    BY PledgeChange DEF TypeOK, SharedTypeOK
  <2>2. b \in Int /\ F \in Nat /\ Exposure \in Int /\ \A c \in Vout : Pledges[c] \in Int
    BY ExposureBound, PledgeBound
  <2>3. QED
    BY <2>1, <2>2, VoutFacts, TotalInt
<1>2. Q = P + Pledge(d, row'[d].status, tx'[d]) - a
      /\ G = F + (IF row'[d].status \in {"CONFIRMED", "MINTING"} THEN MintWei(d) ELSE 0) - b
  BY ExposureChange DEF MovesBy
<1>3. Q = P + (a + p) - a /\ G = F + (b + q) - b
  BY <1>2 DEF MovesBy
<1>4. Exposure = supply + P /\ Exposure' = supply' + Q /\ supply' = supply + s
  BY DEF Exposure, MovesBy
<1> HIDE DEF P, Q, a, F, G, b
<1>5. Q = P + p /\ G = F + q
  BY <1>1, <1>3
<1>6. Exposure' = Exposure + p + s /\ Exposure' \in Int
  BY <1>1, <1>4, <1>5
<1>7. QED
  BY <1>1, <1>5, <1>6 DEF F, G, SumsBy

\* The mints in flight are a natural number after every step, too.
LEMMA FlightNext == Total(FlightWei, Vout)' \in Nat
<1>1. \A d \in Vout : FlightWei'[d] \in Nat
  BY AmountTypes DEF FlightWei, MintWei, VoutSats
<1>2. Total(FlightWei', Vout) \in Nat
  BY <1>1, VoutFacts, TotalNat
<1>3. QED
  BY <1>2 DEF Vout

\* A step of the signer raises none of the sums, but for the deposit that is
\* settled and leaves the sum of the deposits in flight.
LEMMA SignerSums ==
    ASSUME IInv, TypeOK', NEW d \in Vout, SignerNext(d)
    PROVE  SumsFall \/ FinalizeMint(d)
<1> DEFINE W == MintWei(d)
<1>1. /\ TypeOK /\ SignerStep(d) /\ W \in Nat /\ \A c \in Vout : RowInv(c)
      /\ MintInv(d) /\ tx[d] \in Seq(TxStatus) /\ tx'[d] \in Seq(TxStatus)
      /\ tx \in [Vout -> Seq(TxStatus)] /\ supply \in Int
  BY AmountTypes DEF IInv, DepositInv, SignerNext, TypeOK, SharedTypeOK
<1>2. \A c \in Vout : c # d => row'[c].status = row[c].status /\ tx'[c] = tx[c]
  BY <1>1, SignerTouches
<1>3. ASSUME row'[d].status = row[d].status, UNCHANGED <<tx, supply>>
      PROVE  SumsFall
  BY <1>1, <1>2, <1>3, SumsSame
<1>4. FlightWei[d] = IF row[d].status \in {"CONFIRMED", "MINTING"} THEN W ELSE 0
  BY DEF FlightWei, InFlight
<1>5. ASSUME NEW p \in Int, NEW q \in Int, NEW s \in Int,
             Pledge(d, row'[d].status, tx'[d]) = Pledge(d, row[d].status, tx[d]) + p,
             (IF row'[d].status \in {"CONFIRMED", "MINTING"} THEN W ELSE 0) = FlightWei[d] + q,
             supply' = supply + s,
             p + s <= 0, p <= 0, p + s <= q
      PROVE  SumsFall
  <2>0. MovesBy(d, p, q, s)
    BY <1>1, <1>2, <1>5 DEF MovesBy
  <2> DEFINE F == Total(FlightWei, Vout)
             G == Total(FlightWei, Vout)'
  <2>1. /\ Exposure \in Int /\ Exposure' \in Int /\ Exposure' = Exposure + p + s
        /\ F \in Nat /\ G = F + q
    BY <1>1, <2>0, SumsMove DEF SumsBy
  <2>2. G \in Nat
    BY FlightNext
  <2> HIDE DEF F, G
  <2>3. /\ Exposure' <= Exposure /\ Exposure' - supply' <= Exposure - supply
        /\ Exposure' - G <= Exposure - F
    BY <1>1, <1>5, <2>1, SMTT(30)
  <2>4. QED
    BY <2>1, <2>2, <2>3 DEF SumsFall, F, G
<1> HIDE DEF W
<1>6. CASE ClaimMint(d)
  <2>1. tx' = tx /\ supply' = supply
        /\ row'[d].status = IF Claimable(d) THEN "MINTING" ELSE row[d].status
    BY <1>1, <1>6, RowMoves DEF ClaimMint, OnBase, RowBecomes, IsRow
  <2>2. CASE Claimable(d)
    <3>1. row[d].status \in {"CONFIRMED", "MINTING"} /\ row'[d].status = "MINTING"
      BY <2>1, <2>2 DEF Claimable
    <3>2. Pledge(d, row'[d].status, tx'[d]) = Pledge(d, row[d].status, tx[d]) + 0
      BY <1>1, <2>1, <3>1, PledgeChange DEF Live
    <3>3. (IF row'[d].status \in {"CONFIRMED", "MINTING"} THEN W ELSE 0) = FlightWei[d] + 0
      BY <1>1, <1>4, <3>1
    <3>4. supply' = supply + 0
      BY <1>1, <2>1
    <3>5. QED
      BY <1>5, <3>2, <3>3, <3>4
  <2>3. CASE ~Claimable(d)
    BY <1>3, <2>1, <2>3
  <2>4. QED
    BY <2>2, <2>3
<1>7. CASE Broadcast(d) \/ BroadcastUnanswered(d)
  <2>1. row' = row /\ supply' = supply /\ tx'[d] = Append(tx[d], "pending")
    BY <1>1, <1>7 DEF Broadcast, BroadcastUnanswered
  <2>2. Pledge(d, row'[d].status, tx'[d]) = Pledge(d, row[d].status, tx[d]) + 0
    <3>1. Succeeded(tx'[d]) = Succeeded(tx[d])
      BY <1>1, <2>1, SucceededCount
    <3>2. Pledge(d, row[d].status, tx'[d]) = Pledge(d, row[d].status, tx[d])
          /\ Pledge(d, row[d].status, tx[d]) \in Int
      BY <1>1, <3>1, PledgeMints
    <3>3. QED
      BY <2>1, <3>2
  <2>3. (IF row'[d].status \in {"CONFIRMED", "MINTING"} THEN W ELSE 0) = FlightWei[d] + 0
    BY <1>1, <1>4, <2>1
  <2>4. supply' = supply + 0
    BY <1>1, <2>1
  <2>5. QED
    BY <1>5, <2>2, <2>3, <2>4
<1>8. CASE FinalizeReverted(d)
  <2>1. /\ row[d].status = "MINTING" /\ row'[d].status = "FAILED"
        /\ tx' = tx /\ supply' = supply
    BY <1>1, <1>8, RowMoves
       DEF FinalizeReverted, At, MintInv, OnBase, RowBecomes, IsRow
  <2>2. Pledge(d, row'[d].status, tx'[d]) = Pledge(d, row[d].status, tx[d]) + (0 - W)
    BY <1>1, <2>1, PledgeChange DEF Live, W
  <2>3. (IF row'[d].status \in {"CONFIRMED", "MINTING"} THEN W ELSE 0)
           = FlightWei[d] + (0 - W)
    BY <1>1, <1>4, <2>1
  <2>4. supply' = supply + 0 /\ 0 - W \in Int /\ 0 - W <= 0
    BY <1>1, <2>1
  <2>5. QED
    BY <1>5, <2>2, <2>3, <2>4
<1>9. CASE ExecuteSafe(d)
  <2>1. row' = row /\ supply' = supply + W /\ tx'[d] = Append(tx[d], "success")
    BY <1>1, <1>9 DEF ExecuteSafe, W
  <2>2. Pledge(d, row'[d].status, tx'[d]) = Pledge(d, row[d].status, tx[d]) + (0 - W)
    <3>1. Cardinality(Succeeded(tx'[d])) = Cardinality(Succeeded(tx[d])) + 1
      BY <1>1, <2>1, SucceededCount
    <3>2. Pledge(d, row[d].status, tx'[d]) = Pledge(d, row[d].status, tx[d]) - MintWei(d)
          /\ Pledge(d, row[d].status, tx[d]) \in Int
      BY <1>1, <3>1, PledgeMints
    <3>3. QED
      BY <1>1, <2>1, <3>2 DEF W
  <2>3. (IF row'[d].status \in {"CONFIRMED", "MINTING"} THEN W ELSE 0) = FlightWei[d] + 0
    BY <1>1, <1>4, <2>1
  <2>4. 0 - W \in Int /\ W \in Int /\ 0 - W <= 0 /\ (0 - W) + W <= 0
    BY <1>1
  <2>5. QED
    BY <1>5, <2>1, <2>2, <2>3, <2>4
<1>10. CASE RecordHash(d) \/ RecordSafeHash(d)
  BY <1>1, <1>3, <1>10, RowMoves
     DEF RecordHash, RecordSafeHash, OnBase, RowBecomes, IsRow
<1>11. CASE \/ TakeJob(d) \/ LoadRow(d) \/ BroadcastRefused(d) \/ Propose(d)
            \/ CheckProposal(d) \/ WriteAudit(d) \/ EndJob(d) \/ StepFails(d)
            \/ ProposeUnanswered(d) \/ JobStalls(d) \/ JobTrimmed(d)
  BY <1>3, <1>11 DEF TakeJob, LoadRow, BroadcastRefused, Propose, CheckProposal, WriteAudit,
     EndJob, StepFails, ProposeUnanswered, JobStalls, JobTrimmed, OnBase
<1>12. QED
  BY <1>1, <1>6, <1>7, <1>8, <1>9, <1>10, <1>11 DEF SignerStep, SignerProgress

\* A deposit is settled: either the TVL check read a supply with its mint, or
\* the mint is among what the check missed.
LEMMA SettledTvl ==
    ASSUME IInv, TypeOK', NEW d \in Vout, SignerNext(d), FinalizeMint(d)
    PROVE  TvlInv'
<1> DEFINE W == MintWei(d)
           F == Total(FlightWei, Vout)
           G == Total(FlightWei, Vout)'
<1>1. /\ TypeOK /\ TvlInv /\ W \in Nat /\ MintInv(d) /\ \A c \in Vout : RowInv(c)
      /\ \A c \in Vout : tx[c] \in Seq(TxStatus)
      /\ SignerStep(d) /\ supply \in Nat
  BY AmountTypes DEF IInv, DepositInv, SignerNext, TypeOK, SharedTypeOK
<1>2. /\ row[d].status = "MINTING" /\ row'[d].status = "MINTED" /\ tx' = tx
      /\ supply' = supply /\ slip' = slip /\ row[d].hash # 0 /\ Receipt(d) = "success"
      /\ \A c \in Vout : c # d => row'[c].status = row[c].status
  <2>1. \A c \in Vout : c # d => row'[c].status = row[c].status
    BY <1>1, SignerTouches
  <2>2. row'[d].status = "MINTED"
    BY <1>1, RowMoves DEF RowBecomes, IsRow
  <2>3. /\ row[d].status = "MINTING" /\ row[d].hash # 0 /\ Receipt(d) = "success"
        /\ tx' = tx /\ supply' = supply /\ slip' = slip
    BY <1>1 DEF FinalizeMint, At, MintInv, OnBase, SignerNext, AroundSigner
  <2>4. QED
    BY <2>1, <2>2, <2>3
<1>3. FlightWei[d] = W /\ (IF row'[d].status \in {"CONFIRMED", "MINTING"} THEN W ELSE 0) = 0
  BY <1>2 DEF FlightWei, InFlight
<1>4. /\ Exposure \in Int /\ Exposure' = Exposure /\ F \in Nat /\ G = F - W /\ G \in Nat
  <2>1. Pledge(d, row'[d].status, tx'[d]) = Pledge(d, row[d].status, tx[d]) + 0
    BY <1>1, <1>2, PledgeChange DEF Live
  <2>2. 0 = FlightWei[d] + (0 - W) /\ 0 - W \in Int /\ supply' = supply + 0
    BY <1>1, <1>2, <1>3
  <2>3. /\ Exposure \in Int /\ Exposure' \in Int /\ Exposure' = Exposure + 0 + 0
        /\ F \in Nat /\ G = F + (0 - W)
    <3>1. MovesBy(d, 0, 0 - W, 0)
      BY <1>1, <1>2, <1>3, <2>1, <2>2 DEF MovesBy
    <3>2. /\ TypeOK /\ \A c \in Vout : RowInv(c)
          /\ 0 \in Int /\ 0 - W \in Int
      BY <1>1, <2>2
    <3>3. SumsBy(0, 0 - W, 0)
      BY ONLY d \in Vout, <3>1, <3>2, SumsMove
    <3>4. QED
      BY <3>3 DEF SumsBy
  <2> HIDE DEF F, G, W
  <2>4. QED
    BY <1>1, <2>3, FlightNext DEF G
<1>5. Exposure <= supply + G
  <2> DEFINE x == [c \in Vout |-> IF InFlight(c)' THEN MintWei(c) ELSE 0]
  <2>1. FlightWei' = x
    BY DEF FlightWei, MintWei, VoutSats
  <2>2. \A c \in Vout : c # d => x[c] = FlightWei[c]
    BY <1>2 DEF FlightWei, InFlight
  <2>3. x[d] = 0
    BY <1>2 DEF InFlight
  <2>4. \A c \in Vout : Pledges[c] \in Int /\ x[c] \in Int /\ Pledges[c] <= x[c]
    <3>1. ASSUME NEW c \in Vout, c # d
          PROVE  Pledges[c] \in Int /\ x[c] \in Int /\ Pledges[c] <= x[c]
      <4>1. x[c] = FlightWei[c]
        BY <2>2, <3>1
      <4> HIDE DEF x
      <4>2. QED
        BY <1>1, <4>1, PledgeBound
    <3> HIDE DEF x
    <3>2. Pledges[d] \in Int /\ x[d] \in Int /\ Pledges[d] <= x[d]
      BY <1>1, <1>2, <2>3, PledgeBound
    <3>3. QED
      BY <3>1, <3>2
  <2> HIDE DEF x
  <2>5. Total(Pledges, Vout) <= Total(x, Vout) /\ Total(Pledges, Vout) \in Int
    BY <2>4, VoutFacts, TotalMonotonic, TotalInt
  <2>6. G = Total(x, Vout)
    BY <2>1 DEF Vout
  <2> HIDE DEF G
  <2>7. QED
    BY <1>1, <1>4, <2>5, <2>6 DEF Exposure
<1>6. PICK n \in Nat :
              /\ IsWatcher(f', f.pc, f.todo, f.h, f.safe, f.supply, f.inflight, n)
              /\ n = IF SlipsBy(d) THEN f.missed + W ELSE f.missed
  BY <1>1, AroundSignerIs
<1>7. /\ f'.pc = f.pc /\ f'.supply = f.supply /\ f'.inflight = f.inflight /\ f'.missed = n
      /\ f.supply \in Nat \cup {-1} /\ f.missed \in Nat
      /\ f.inflight \in Nat \cup {-1}
  BY <1>1, <1>6 DEF IsWatcher, TypeOK, WatcherTypeOK, Watcher
<1>8. SlipsBy(d) <=> f.supply \in 0..(supply - 1) /\ f.inflight = -1
  BY <1>2 DEF SlipsBy
<1> HIDE DEF W, F, G
<1>9. n >= f.missed
  BY <1>1, <1>6, <1>7
<1>10. Exposure' <= MaxTvl + slip'
  BY <1>1, <1>2, <1>4 DEF TvlInv
<1>11. f'.pc # "tvl" => f'.supply = -1 /\ f'.inflight = -1
  BY <1>1, <1>7 DEF TvlInv
<1>12. ASSUME f.pc = "tvl", f.supply # -1, f.inflight = -1
       PROVE  Exposure' <= f'.supply + G + f'.missed
  <2>1. Exposure <= f.supply + F + f.missed
    BY <1>1, <1>12 DEF TvlInv, F
  <2>2. CASE f.supply < supply
    <3>1. n = f.missed + W
      BY <1>1, <1>6, <1>7, <1>8, <1>12, <2>2
    <3>2. QED
      BY <1>1, <1>4, <1>7, <1>12, <2>1, <3>1
  <2>3. CASE ~(f.supply < supply)
    BY <1>1, <1>4, <1>5, <1>7, <1>9, <1>12, <2>3
  <2>4. QED
    BY <2>2, <2>3
<1>13. ASSUME f.pc = "tvl", f.supply = -1, f.inflight # -1
       PROVE  Exposure' <= supply' + f'.inflight
  BY <1>1, <1>2, <1>4, <1>7, <1>13 DEF TvlInv
<1>14. ASSUME f.pc = "tvl", f.supply # -1, f.inflight # -1
       PROVE  Exposure' <= f'.supply + f'.inflight + f'.missed
  <2>1. Exposure <= f.supply + f.inflight + f.missed
    BY <1>1, <1>14 DEF TvlInv
  <2>2. QED
    BY <1>4, <1>7, <1>9, <1>14, <2>1
<1>15. QED
  BY <1>7, <1>10, <1>11, <1>12, <1>13, <1>14 DEF TvlInv, G

\* The reads of the TVL check: each returns what bounds the exposure together
\* with the other half, read already or not.
LEMMA ReadTvl ==
    ASSUME IInv, ReadSupply \/ ReadInFlight
    PROVE  TvlInv'
<1> DEFINE F == Total(FlightWei, Vout)
           G == Total(FlightWei, Vout)'
<1>1. TypeOK /\ TvlInv /\ \A d \in Vout : RowInv(d)
  BY DEF IInv, DepositInv
<1>2. UNCHANGED <<row, tx, supply, slip>> /\ f.pc = "tvl"
  BY DEF ReadSupply, ReadInFlight
<1>3. Exposure' = Exposure /\ G = F
  BY <1>1, <1>2, ExposureSame DEF Exposure
<1>4. Exposure \in Int /\ F \in Nat /\ Exposure <= supply + F /\ supply \in Nat
  BY <1>1, ExposureBound DEF TypeOK, SharedTypeOK
<1>5. f.missed \in Nat /\ f.inflight \in Nat \cup {-1} /\ f.supply \in Nat \cup {-1}
  BY <1>1 DEF TypeOK, WatcherTypeOK, Watcher
<1>6. Exposure <= MaxTvl + slip
  BY <1>1 DEF TvlInv
<1>7. CASE ReadSupply
  <2>1. /\ f'.pc = "tvl" /\ f'.supply = supply /\ f'.inflight = f.inflight
        /\ f'.missed = f.missed /\ f.supply = -1
    BY <1>1, <1>7, ReadMoves DEF IsWatcher, ReadSupply
  <2>2. f.inflight # -1 => Exposure <= supply + f.inflight
    BY <1>1, <1>2, <2>1 DEF TvlInv
  <2> HIDE DEF F, G
  <2>3. f.inflight = -1 => Exposure' <= f'.supply + G + f'.missed
    BY <1>3, <1>4, <1>5, <2>1
  <2>4. f.inflight # -1 => Exposure' <= f'.supply + f'.inflight + f'.missed
    BY <1>3, <1>4, <1>5, <2>1, <2>2
  <2>5. f'.supply # -1
    BY <1>4, <2>1
  <2>6. QED
    BY <1>2, <1>3, <1>6, <2>1, <2>3, <2>4, <2>5 DEF TvlInv, G
<1>8. CASE ReadInFlight
  <2>1. /\ f'.pc = "tvl" /\ f'.supply = f.supply /\ f'.inflight = F
        /\ f'.missed = f.missed /\ f.inflight = -1
    BY <1>1, <1>8, ReadMoves DEF IsWatcher, ReadInFlight
  <2>2. f.supply # -1 => Exposure <= f.supply + F + f.missed
    BY <1>1, <1>2, <2>1 DEF TvlInv
  <2> HIDE DEF F, G
  <2>3. f.supply = -1 => Exposure' <= supply' + f'.inflight
    BY <1>2, <1>3, <1>4, <2>1
  <2>4. f.supply # -1 => Exposure' <= f'.supply + f'.inflight + f'.missed
    BY <1>3, <1>4, <1>5, <2>1, <2>2
  <2>5. f'.inflight # -1
    BY <1>4, <2>1
  <2>6. QED
    BY <1>2, <1>3, <1>6, <2>1, <2>3, <2>4, <2>5 DEF TvlInv
<1>9. QED
  BY <1>7, <1>8

\* An output is admitted: its mint fits beside what the reads returned.
LEMMA ConfirmTvl ==
    ASSUME IInv, TypeOK', NEW d \in Vout, ConfirmDeposit(d)
    PROVE  TvlInv'
<1> DEFINE W == MintWei(d)
<1>1. /\ TypeOK /\ TvlInv /\ W \in Nat /\ \A c \in Vout : RowInv(c)
      /\ \A c \in Vout : tx[c] \in Seq(TxStatus)
  BY AmountTypes DEF IInv, DepositInv, TypeOK, SharedTypeOK
<1>2. /\ f.pc = "tvl" /\ f.supply # -1 /\ f.inflight # -1 /\ IsNext(d) /\ d \in f.todo
      /\ ~OverTvl(d) /\ Recorded(d, "CONFIRMED")
      /\ slip' = slip + f.missed /\ UNCHANGED <<tx, supply>>
  BY DEF ConfirmDeposit, TvlRead, IsNext
<1>3. f'.pc = "enqueue" /\ f'.supply = -1 /\ f'.inflight = -1
  BY <1>1, VoutMoves DEF IsWatcher
<1>4. row[d].status = "none" /\ row'[d].status = "CONFIRMED"
      /\ \A c \in Vout : c # d => row'[c].status = row[c].status
  BY <1>1, <1>2, RecordedIs, Values DEF IInv, ScanInv, Exists
<1>5. Exposure \in Int /\ Exposure' = Exposure + W
  <2>1. Pledge(d, row'[d].status, tx'[d]) = Pledge(d, row[d].status, tx[d]) + W
    BY <1>1, <1>2, <1>4, PledgeChange DEF Live
  <2>2. (IF row'[d].status \in {"CONFIRMED", "MINTING"} THEN MintWei(d) ELSE 0)
           = FlightWei[d] + W
    BY <1>1, <1>4 DEF FlightWei, InFlight
  <2>3. supply' = supply + 0
    BY <1>1, <1>2 DEF TypeOK, SharedTypeOK
  <2>4. W \in Int /\ tx'[d] \in Seq(TxStatus)
        /\ \A c \in Vout : c # d => row'[c].status = row[c].status /\ tx'[c] = tx[c]
    BY <1>1, <1>2, <1>4
  <2>5. MovesBy(d, W, W, 0)
    BY <2>1, <2>2, <2>3, <2>4 DEF MovesBy
  <2>6. SumsBy(W, W, 0)
    BY <1>1, <2>4, <2>5, SumsMove
  <2> HIDE DEF W
  <2>7. QED
    BY <1>1, <2>6 DEF SumsBy
<1>6. Exposure <= f.supply + f.inflight + f.missed
  BY <1>1, <1>2 DEF TvlInv
<1>7. f.supply + f.inflight + W <= MaxTvl
  <2>1. f.supply \in Int /\ f.inflight \in Int /\ MaxTvl \in Nat
    BY <1>1, WatcherAssumption DEF TypeOK, WatcherTypeOK, Watcher
  <2>2. QED
    BY <1>1, <1>2, <2>1 DEF OverTvl
<1>8. /\ f.supply \in Int /\ f.inflight \in Int /\ f.missed \in Nat /\ slip \in Nat
      /\ MaxTvl \in Nat
  BY <1>1, WatcherAssumption DEF TypeOK, WatcherTypeOK, Watcher
<1> HIDE DEF W
<1>9. Exposure' <= MaxTvl + slip'
  BY <1>1, <1>2, <1>5, <1>6, <1>7, <1>8, SMTT(30)
<1>10. QED
  BY <1>3, <1>9 DEF TvlInv

\* The other steps of the watcher start the TVL check, leave it, or have
\* nothing to do with it.
LEMMA WatcherTvl ==
    ASSUME IInv, TypeOK', WatcherNext
    PROVE  TvlInv'
<1>1. /\ TypeOK /\ \A d \in Vout : RowInv(d)
      /\ f.pc # "tvl" => f.supply = -1 /\ f.inflight = -1
  BY DEF IInv, DepositInv, TvlInv
<1>2. ASSUME UNCHANGED <<row, tx, supply, slip>>, f'.supply = -1, f'.inflight = -1
      PROVE  TvlInv'
  <2>1. SumsFall
    BY <1>1, <1>2, SumsSame
  <2>2. QED
    BY <1>2, <2>1, TvlReset DEF SumsFall
<1>3. CASE LoadAddresses \/ EndTick \/ TickError \/ ReadOrphans
  BY <1>1, <1>2, <1>3, TickMoves DEF LoadAddresses, EndTick, TickError, ReadOrphans, IsWatcher
<1>4. ASSUME NEW d \in Vout, ReenqueueOrphan(d)
      PROVE  TvlInv'
  BY <1>1, <1>2, <1>4, TickMoves DEF ReenqueueOrphan, IsWatcher
<1>5. CASE ReadTip
  BY <1>1, <1>2, <1>5, ReadTipMoves DEF ReadTip, IsWatcher
<1>6. CASE NextBlock \/ SaveCursor
  BY <1>1, <1>2, <1>6, BlockMoves DEF NextBlock, SaveCursor, IsWatcher
<1>7. ASSUME NEW d \in Vout, InspectVout(d) \/ EnqueueMint(d)
      PROVE  TvlInv'
  BY <1>1, <1>2, <1>7, VoutMoves DEF InspectVout, EnqueueMint, IsWatcher
<1>8. ASSUME NEW d \in Vout, RefuseDeposit(d)
      PROVE  TvlInv'
  <2>1. f'.supply = -1 /\ f'.inflight = -1 /\ UNCHANGED <<tx, supply, slip>>
    BY <1>1, <1>8, VoutMoves DEF IsWatcher, RefuseDeposit
  <2>2. Recorded(d, "FAILED") /\ IsNext(d) /\ d \in f.todo /\ f.pc \in {"refuse", "tvl"}
    BY <1>8 DEF RefuseDeposit, TvlRead, IsNext
  <2>3. row[d].status = "none" /\ row'[d].status = "FAILED"
        /\ \A c \in Vout : c # d => row'[c].status = row[c].status
    BY <1>1, <2>2, RecordedIs, Values DEF IInv, ScanInv, Exists
  <2>4. tx[d] \in Seq(TxStatus) /\ supply \in Nat
    BY <1>1 DEF TypeOK, SharedTypeOK
  <2>5. Pledge(d, row'[d].status, tx'[d]) = Pledge(d, row[d].status, tx[d]) + 0
    BY <2>1, <2>3, <2>4, PledgeChange DEF Live
  <2>6. (IF row'[d].status \in {"CONFIRMED", "MINTING"} THEN MintWei(d) ELSE 0)
           = FlightWei[d] + 0
    BY <2>3 DEF FlightWei, InFlight
  <2>7. supply' = supply + 0 /\ tx'[d] \in Seq(TxStatus)
        /\ \A c \in Vout : c # d => row'[c].status = row[c].status /\ tx'[c] = tx[c]
    BY <2>1, <2>3, <2>4
  <2>8. Exposure \in Int /\ Exposure' \in Int /\ Exposure' = Exposure + 0 + 0
    <3>1. MovesBy(d, 0, 0, 0)
      BY <2>5, <2>6, <2>7 DEF MovesBy
    <3>2. SumsBy(0, 0, 0)
      BY <1>1, <3>1, SumsMove
    <3>3. QED
      BY <3>2 DEF SumsBy
  <2>9. QED
    BY <2>1, <2>8, TvlReset
<1>9. QED
  BY <1>3, <1>4, <1>5, <1>6, <1>7, <1>8, ReadTvl, ConfirmTvl DEF WatcherNext, WatcherStep

\* A mint is mined: what it adds to the supply its deposit is no longer owed.
LEMMA MineSums ==
    ASSUME IInv, NEW d \in Vout, Mine(d)
    PROVE  SumsFall
<1> DEFINE W == MintWei(d)
<1>1. /\ TypeOK /\ W \in Nat /\ \A c \in Vout : RowInv(c)
      /\ tx[d] \in Seq(TxStatus) /\ tx \in [Vout -> Seq(TxStatus)] /\ supply \in Nat
  BY AmountTypes DEF IInv, DepositInv, TypeOK, SharedTypeOK
<1>2. PICK i \in DOMAIN tx[d], status \in {"reverted", "success"} : Mined(d, i, status)
  BY DEF Mine
<1>3. /\ tx[d][i] = "pending" /\ tx'[d] = [tx[d] EXCEPT ![i] = status]
      /\ \A c \in Vout : c # d => tx'[c] = tx[c]
      /\ supply' = IF status = "success" THEN supply + W ELSE supply
      /\ row' = row /\ tx'[d] \in Seq(TxStatus)
  <2>1. /\ tx[d][i] = "pending" /\ tx' = [tx EXCEPT ![d] = [tx[d] EXCEPT ![i] = status]]
        /\ supply' = IF status = "success" THEN supply + W ELSE supply
        /\ row' = row
    BY <1>1, <1>2 DEF Mined, Mine
  <2>2. tx'[d] = [tx[d] EXCEPT ![i] = status] /\ \A c \in Vout : c # d => tx'[c] = tx[c]
    BY <1>1, <2>1
  <2>3. tx'[d] \in Seq(TxStatus)
    BY <1>1, <2>2 DEF TxStatus
  <2>4. QED
    BY <2>1, <2>2, <2>3
<1>4. /\ (IF row'[d].status \in {"CONFIRMED", "MINTING"} THEN W ELSE 0) = FlightWei[d] + 0
      /\ \A c \in Vout : c # d => row'[c].status = row[c].status /\ tx'[c] = tx[c]
  BY <1>1, <1>3 DEF FlightWei, InFlight
<1>5. ASSUME NEW p \in Int, NEW s \in Int, p <= 0, p + s = 0,
             Pledge(d, row[d].status, tx'[d]) = Pledge(d, row[d].status, tx[d]) + p,
             supply' = supply + s
      PROVE  SumsFall
  <2> DEFINE F == Total(FlightWei, Vout)
             G == Total(FlightWei, Vout)'
  <2>1. /\ Pledge(d, row'[d].status, tx'[d]) = Pledge(d, row[d].status, tx[d]) + p
        /\ tx'[d] \in Seq(TxStatus)
    BY <1>3, <1>5
  <2>2. /\ Exposure \in Int /\ Exposure' \in Int /\ Exposure' = Exposure + p + s
        /\ F \in Nat /\ G = F + 0
    <3>1. MovesBy(d, p, 0, s)
      BY <1>4, <1>5, <2>1 DEF MovesBy
    <3>2. SumsBy(p, 0, s)
      BY <1>1, <3>1, SumsMove
    <3>3. QED
      BY <3>2 DEF SumsBy
  <2> HIDE DEF F, G
  <2>3. G = F
    BY <2>2
  <2>4. /\ Exposure' <= Exposure /\ Exposure' - supply' <= Exposure - supply
        /\ Exposure' - G <= Exposure - F /\ G \in Nat
    <3>1. supply \in Int /\ F \in Int
      BY <1>1, <2>2
    <3>2. Exposure' = Exposure
      BY <1>5, <2>2
    <3>3. Exposure' - supply' <= Exposure - supply
      BY <1>5, <2>2, <3>1
    <3>4. QED
      BY <2>2, <2>3, <3>1, <3>2, <3>3
  <2>5. QED
    BY <2>2, <2>4 DEF SumsFall, F, G
<1> HIDE DEF W
<1>6. CASE status = "success"
  <2>1. Cardinality(Succeeded(tx'[d])) = Cardinality(Succeeded(tx[d])) + 1
    BY <1>1, <1>3, <1>6, SucceededCount
  <2>2. /\ Pledge(d, row[d].status, tx[d]) \in Int
        /\ Pledge(d, row[d].status, tx'[d]) = Pledge(d, row[d].status, tx[d]) - MintWei(d)
    BY <1>1, <1>3, <2>1, PledgeMints
  <2>3. /\ Pledge(d, row[d].status, tx'[d]) = Pledge(d, row[d].status, tx[d]) + (0 - W)
        /\ 0 - W \in Int /\ W \in Int /\ 0 - W <= 0 /\ (0 - W) + W = 0
        /\ supply' = supply + W
    BY <1>1, <1>3, <1>6, <2>2 DEF W
  <2>4. QED
    BY <1>5, <2>3
<1>7. CASE status = "reverted"
  <2>1. Succeeded(tx'[d]) = Succeeded(tx[d])
    BY <1>1, <1>3, <1>7, SucceededCount
  <2>2. /\ Pledge(d, row[d].status, tx[d]) \in Int
        /\ Pledge(d, row[d].status, tx'[d]) = Pledge(d, row[d].status, tx[d])
    <3>1. tx'[d] \in Seq(TxStatus)
      BY <1>3
    <3>2. QED
      BY <1>1, <2>1, <3>1, PledgeMints
  <2>3. /\ Pledge(d, row[d].status, tx'[d]) = Pledge(d, row[d].status, tx[d]) + 0
        /\ supply' = supply + 0
    BY <1>1, <1>3, <1>7, <2>2
  <2>4. QED
    BY <1>5, <2>3
<1>8. QED
  BY <1>2, <1>6, <1>7

\* The cap on the supply holds at every step.
LEMMA TvlStep ==
    ASSUME IInv, TypeOK', Next
    PROVE  TvlInv'
<1>1. TypeOK /\ \A d \in Vout : RowInv(d)
  BY DEF IInv, DepositInv
<1> USE DEF watcherVars, signerVars, deployment, chainVars
<1>2. ASSUME SumsFall, UNCHANGED <<f, slip>>
      PROVE  TvlInv'
  <2>1. f.missed \in Nat
    BY <1>1 DEF TypeOK, WatcherTypeOK, Watcher
  <2>2. f'.missed >= f.missed
    BY <1>2, <2>1
  <2>3. QED
    BY <1>2, <2>2, TvlFrame DEF SumsFall
<1>3. CASE \/ \E a \in Addr : ApiNext(a)
           \/ Stop \/ NewBlock
           \/ \E flag \in BOOLEAN : SetPaused(flag)
  <2>1. UNCHANGED <<row, tx, supply, f, slip>>
    BY <1>3 DEF ApiNext, AllocateAddress, AnswerIntent, CreateIntent, IntentFails, AroundApi,
       Stop, NewBlock, SetPaused
  <2>2. QED
    BY <1>1, <1>2, <2>1, SumsSame
<1>4. CASE Tick
  <2>1. UNCHANGED <<tx, supply, f, slip>>
        /\ \A d \in Vout : row'[d].status = row[d].status
    BY <1>1, <1>4 DEF Tick, TypeOK, SharedTypeOK, Deposit
  <2>2. QED
    BY <1>1, <1>2, <2>1, SumsSame
<1>5. ASSUME NEW d \in Vout, Mine(d)
      PROVE  TvlInv'
  BY <1>2, <1>5, MineSums DEF Mine
<1>6. CASE BurnAll
  <2>1. UNCHANGED <<row, tx, f, slip>> /\ supply' = 0 /\ supply \in Nat
    BY <1>1, <1>6 DEF BurnAll, TypeOK, SharedTypeOK
  <2>2. /\ Total(Pledges, Vout)' = Total(Pledges, Vout)
        /\ Total(FlightWei, Vout)' = Total(FlightWei, Vout)
    BY <1>1, <2>1, ExposureSame
  <2>3. /\ Exposure \in Int /\ Total(FlightWei, Vout) \in Nat
        /\ \A d \in Vout : Pledges[d] \in Int
    BY <1>1, ExposureBound, PledgeBound
  <2>4. Total(Pledges, Vout) \in Int
    BY <2>3, VoutFacts, TotalInt
  <2>5. Exposure = supply + Total(Pledges, Vout) /\ Exposure' = Total(Pledges, Vout)
    <3>1. Exposure' = supply' + Total(Pledges, Vout)'
      BY DEF Exposure
    <3>2. QED
      BY <2>1, <2>2, <2>4, <3>1 DEF Exposure
  <2>6. SumsFall
    <3> DEFINE F == Total(FlightWei, Vout)
               G == Total(FlightWei, Vout)'
               P == Total(Pledges, Vout)
    <3>1. G = F /\ F \in Nat /\ P \in Int /\ Exposure = supply + P /\ Exposure' = P
      BY <2>2, <2>3, <2>4, <2>5
    <3> HIDE DEF F, G, P
    <3>2. QED
      BY <2>1, <3>1 DEF SumsFall, F, G
  <2>7. QED
    BY <1>2, <2>1, <2>6
<1>7. CASE Crash \/ Exit \/ Start
  <2>1. UNCHANGED <<row, tx, supply, slip>> /\ f'.supply = -1 /\ f'.inflight = -1
    BY <1>7, BlankRecords DEF Crash, Exit, Start, IsWatcher
  <2>2. SumsFall
    BY <1>1, <2>1, SumsSame
  <2>3. QED
    BY <2>1, <2>2, TvlReset DEF SumsFall
<1>8. ASSUME NEW d \in Vout, SignerNext(d)
      PROVE  TvlInv'
  <2>1. CASE FinalizeMint(d)
    BY <1>8, <2>1, SettledTvl
  <2>2. CASE SumsFall
    <3>1. PICK n \in Nat :
              /\ IsWatcher(f', f.pc, f.todo, f.h, f.safe, f.supply, f.inflight, n)
              /\ n = IF SlipsBy(d) THEN f.missed + MintWei(d) ELSE f.missed
      BY <1>1, <1>8, AroundSignerIs
    <3>2. n >= f.missed
      <4>1. f.missed \in Nat /\ MintWei(d) \in Nat
        BY <1>1, AmountTypes DEF TypeOK, WatcherTypeOK, Watcher
      <4>2. QED
        BY <3>1, <4>1
    <3>3. /\ f'.pc = f.pc /\ f'.supply = f.supply /\ f'.inflight = f.inflight
          /\ f'.missed >= f.missed /\ slip' = slip
      BY <1>8, <3>1, <3>2 DEF IsWatcher, SignerNext, AroundSigner
    <3>4. QED
      BY <2>2, <3>3, TvlFrame DEF SumsFall
  <2>3. QED
    BY <1>8, <2>1, <2>2, SignerSums
<1>9. QED
  BY <1>3, <1>4, <1>5, <1>6, <1>7, <1>8, WatcherTvl DEF Next

-----------------------------------------------------------------------------
(***************************************************************************)
(* The theorems.                                                           *)
(***************************************************************************)

\* Nothing happens.
LEMMA StutterInv ==
    ASSUME IInv, UNCHANGED vars
    PROVE  IInv'
<1> USE DEF vars, watcherVars, signerVars, chainVars, deployment
<1>1. /\ TypeOK /\ KnownInv /\ \A d \in Vout : DepositInv(d) /\ RowInv(d)
      /\ tip \in Nat /\ height \in [Vout -> Nat] /\ f.missed \in Int
  BY WatcherAssumption DEF IInv, DepositInv, TypeOK, WatcherTypeOK, Watcher
<1>2. TypeOK'
  BY <1>1, TypeStep
<1>3. \A d \in Vout : DepositInv(d)'
  BY <1>1, DepositFrame
<1>4. ScanInv' /\ CoverInv'
  BY <1>1, ScanFrame DEF Exists
<1>5. KnownInv'
  BY <1>1 DEF KnownInv, Documented
<1>6. CapInv'
  BY CapFrame DEF Counted
<1>7. TvlInv'
  <2>1. SumsFall
    BY <1>1, SumsSame
  <2>2. f'.missed >= f.missed
    BY <1>1
  <2>3. QED
    BY <1>2, <2>1, <2>2, TvlFrame DEF SumsFall
<1>8. QED
  BY <1>2, <1>3, <1>4, <1>5, <1>6, <1>7 DEF IInv

\* Every step keeps what is known of every output.
LEMMA DepositsStep ==
    ASSUME IInv, Next
    PROVE  \A d \in Vout : DepositInv(d)'
BY WatcherDeposits, SignerDeposits, ProcessDeposits, WorldDeposits DEF Next

\* Every step keeps the invariant.
LEMMA StepInv == IInv /\ [Next]_vars => IInv'
<1>1. ASSUME IInv, Next
      PROVE  IInv'
  <2>1. TypeOK'
    BY <1>1, TypeStep DEF IInv
  <2>2. ScanInv' /\ CoverInv'
    BY <1>1, <2>1, WatcherScan, OtherScan
  <2>3. KnownInv' /\ CapInv' /\ TvlInv'
    BY <1>1, <2>1, KnownStep, CapStep, TvlStep
  <2>4. \A d \in Vout : DepositInv(d)'
    BY <1>1, DepositsStep
  <2>5. QED
    BY <2>1, <2>2, <2>3, <2>4 DEF IInv
<1>2. QED
  BY <1>1, StutterInv

\* The invariant of the deposit direction: what each output's row, job,
\* transactions and Safe proposal say of one another, where the watcher and
\* signMint are, and the sums the two caps are about.
THEOREM Invariance == Spec => []IInv
BY InitInv, StepInv, PTL DEF Spec

\* Type correctness of the deposit direction.
THEOREM TypeCorrect == Spec => []TypeOK
<1>1. IInv => TypeOK
  BY DEF IInv
<1>2. QED
  BY <1>1, Invariance, PTL

\* Every mint sent for a deposit is on file, in the hands of signDirectEoa,
\* executed by the Safe, or was forgotten through a kill or a failed call; and
\* of the first three there is one, and one more for each restart under
\* another MINT_AUTH_MODE.
THEOREM MintsAreAccountedFor == Spec => []MintsAccountedFor
<1>1. ASSUME IInv, NEW d \in Vout
      PROVE  /\ Len(tx[d]) = lost[d] + Filed(d) + InHand(d) + BySafe(d)
             /\ Filed(d) + InHand(d) + BySafe(d) <= 1 + switches
  <2>1. TypeOK /\ DepositInv(d)
    BY <1>1 DEF IInv
  <2>2. Filed(d) \in {0, 1} /\ InHand(d) \in {0, 1} /\ BySafe(d) \in {0, 1}
    BY DEF Filed, InHand, BySafe
  <2>3. Filed(d) = 0 \/ InHand(d) = 0
    BY <2>1 DEF DepositInv, MintInv, Filed, InHand, At
  <2>4. CASE switches = 0
    <3>1. \/ BySafe(d) = 0
          \/ Filed(d) = 0 /\ InHand(d) = 0
      <4>1. auth \in {"direct_eoa", "safe_proposal"}
        BY <2>1 DEF TypeOK, SignerTypeOK, AuthMode
      <4>2. CASE auth = "direct_eoa"
        BY <2>1, <2>4, <4>2 DEF DepositInv, ModeInv, BySafe
      <4>3. CASE auth = "safe_proposal"
        BY <2>1, <2>4, <4>3 DEF DepositInv, ModeInv, Filed, InHand, At
      <4>4. QED
        BY <4>1, <4>2, <4>3
    <3>2. QED
      BY <2>1, <2>2, <2>3, <2>4, <3>1 DEF DepositInv, AccountedFor
  <2>5. CASE switches # 0
    <3>1. switches \in Nat /\ switches >= 1
      BY <2>1, <2>5, ProcessAssumption DEF TypeOK
    <3>2. QED
      BY <2>1, <2>2, <2>3, <3>1 DEF DepositInv, AccountedFor
  <2>6. QED
    BY <2>4, <2>5
<1>2. IInv => MintsAccountedFor
  BY <1>1 DEF MintsAccountedFor
<1>3. QED
  BY <1>2, Invariance, PTL

\* WFAIR is minted only for an output that processBlock admitted, buried under
\* FAIR_CONFIRMATIONS blocks, and MINTED is written only over the hash of a
\* transaction that succeeded.
THEOREM MintsBackedByDeposits == Spec => []MintsAreBacked
<1>1. IInv => MintsAreBacked
  <2>1. ASSUME IInv, NEW d \in Vout
        PROVE  /\ tx[d] # <<>> =>
                     /\ height[d] > 0 /\ height[d] + FairConfirmations <= tip
                     /\ Exists(d) /\ VoutSats(d) >= MinSats
               /\ row[d].status = "MINTED" => row[d].hash # 0 /\ Receipt(d) = "success"
    <3>1. RowInv(d) /\ PaidInv(d)
      BY <2>1 DEF IInv, DepositInv
    <3>2. Admitted(d) => Exists(d)
      BY DEF Admitted, Exists, Live
    <3>3. QED
      BY <3>1, <3>2 DEF RowInv, PaidInv, Backed
  <2>2. QED
    BY <2>1 DEF MintsAreBacked
<1>2. QED
  BY <1>1, Invariance, PTL

\* The cursor passes no block whose outputs to known addresses have no row,
\* through any kills, stops, failed ticks and restarts.
THEOREM CursorNeverSkips == Spec => []DepositsCovered
<1>1. IInv => DepositsCovered
  <2>1. ASSUME IInv, NEW d \in Vout, height[d] \in (origin + 1)..cursor
        PROVE  Exists(d)
    <3>1. height[d] \in Int /\ origin \in Int /\ cursor \in Int
      BY <2>1, WatcherAssumption DEF IInv, TypeOK, WatcherTypeOK
    <3>2. origin < height[d] /\ height[d] <= cursor
      BY <2>1, <3>1
    <3>3. QED
      BY <2>1, <3>2 DEF IInv, CoverInv, Covered
  <2>2. QED
    BY <2>1 DEF DepositsCovered
<1>2. QED
  BY <1>1, Invariance, PTL

(***************************************************************************)
(* The daily cap over what a day really admits.  CapInv is about what the  *)
(* code counts; LateInv says which admitted outputs it does not count.     *)
(***************************************************************************)

\* The document of an output is as old as the output or older; older, it was
\* the intent's, and no other output of the address has such a document.
IsLate(d) == row[d].since < row[d].age

LateInv ==
    /\ \A d \in Vout : row[d].since <= row[d].age
    /\ \A d \in Vout : IsLate(d) => intent[VoutLog[d].addr].status = "used"
    /\ \A d, e \in Vout : IsLate(d) /\ IsLate(e) /\ VoutLog[d].addr = VoutLog[e].addr => d = e
    /\ \A d \in Vout : row[d].status \in Live => VoutSats(d) <= DailyCap

\* The two dates of a document.
LEMMA Dates ==
    ASSUME TypeOK
    PROVE  \A d \in Vout : /\ row[d].age \in 0..Day /\ row[d].since \in 0..Day
                           /\ row[d] \in Deposit /\ VoutLog[d].addr \in Addr
BY DepositAssumption DEF TypeOK, SharedTypeOK, Deposit

\* A step that admits nothing, keeps the order of the dates and never takes
\* back an intent keeps LateInv.
LEMMA LateFrame ==
    ASSUME TypeOK, LateInv,
           \A d \in Vout : /\ row'[d].since <= row'[d].age
                           /\ row'[d].since < row'[d].age => IsLate(d)
                           /\ row'[d].status \in Live => row[d].status \in Live,
           \A a \in Addr : intent[a].status = "used" => intent'[a].status = "used"
    PROVE  LateInv'
BY Dates DEF LateInv, IsLate, VoutSats

\* No step takes the document of an output back to the intent.
LEMMA UsedStaysUsed ==
    ASSUME IInv, Next
    PROVE  \A a \in Addr : intent[a].status = "used" => intent'[a].status = "used"
<1>1. TypeOK /\ \A a \in Addr : intent[a] \in Intent
  BY DEF IInv, TypeOK, SharedTypeOK
<1>2. CASE intent' = intent
  BY <1>2
<1>3. ASSUME NEW d \in Vout, NEW status \in Status, Recorded(d, status)
      PROVE  \A a \in Addr : intent[a].status = "used" => intent'[a].status = "used"
  BY <1>1, <1>3, RecordedIs
<1>4. CASE WatcherNext
  BY <1>2, <1>3, <1>4, Values
     DEF WatcherNext, WatcherStep, LoadAddresses, ReadOrphans, ReenqueueOrphan, ReadTip,
         NextBlock, EndTick, InspectVout, ReadSupply, ReadInFlight, ConfirmDeposit,
         RefuseDeposit, EnqueueMint, SaveCursor, TickError
<1>5. CASE \E a \in Addr : ApiNext(a)
  BY <1>1, <1>5 DEF ApiNext, AllocateAddress, AnswerIntent, CreateIntent, IntentFails,
     TypeOK, SharedTypeOK
<1>6. CASE Tick
  BY <1>1, <1>6 DEF Tick, Pending, Intent
<1>7. CASE Crash \/ Exit
  BY <1>1, <1>7 DEF Crash, Exit, Intent
<1>8. QED
  BY <1>2, <1>4, <1>5, <1>6, <1>7
     DEF Next, SignerNext, AroundSigner, Stop, Start, NewBlock, Mine, SetPaused, BurnAll

\* The signer moves a document on and leaves its dates alone.
LEMMA SignerDates ==
    ASSUME IInv, NEW d \in Vout, SignerNext(d)
    PROVE  \A c \in Vout : /\ row'[c].since = row[c].since /\ row'[c].age = row[c].age
                           /\ row'[c].status \in Live => row[c].status \in Live
<1>1. TypeOK /\ SignerStep(d) /\ DepositInv(d) /\ row \in [Vout -> Deposit]
  BY DEF IInv, SignerNext, TypeOK, SharedTypeOK
<1>2. CASE ClaimMint(d)
  <2>1. \/ row' = row
        \/ row' = [row EXCEPT ![d] = [row[d] EXCEPT !.status = "MINTING"]]
           /\ row[d].status \in Live
    BY <1>1, <1>2, ClaimMoves DEF Claimable, Live
  <2>2. QED
    BY <1>1, <2>1 DEF Deposit
<1>3. CASE RecordHash(d) \/ RecordSafeHash(d)
  BY <1>1, <1>3 DEF RecordHash, RecordSafeHash, Deposit
<1>4. CASE FinalizeReverted(d)
  BY <1>1, <1>4 DEF FinalizeReverted, Deposit, Live
<1>5. CASE FinalizeMint(d)
  <2>1. row[d].status = "MINTING"
    BY <1>1, <1>5 DEF DepositInv, MintInv, RowInv, FinalizeMint, At
  <2>2. QED
    BY <1>1, <1>5, <2>1 DEF FinalizeMint, Deposit, Live
<1>6. CASE row' = row
  BY <1>6
<1>7. QED
  BY <1>1, <1>2, <1>3, <1>4, <1>5, <1>6 DEF SignerStep, SignerProgress, TakeJob, LoadRow,
     Broadcast, BroadcastRefused, Propose, CheckProposal, WriteAudit, EndJob, StepFails,
     BroadcastUnanswered, ProposeUnanswered, ExecuteSafe, JobStalls, JobTrimmed

\* A new document is as old as its output, or was the intent's: then no other
\* output of the address had an intent's document.
LEMMA LateRecorded ==
    ASSUME IInv, LateInv, NEW d \in Vout, NEW status \in Status, Recorded(d, status),
           status \in Live => VoutSats(d) <= DailyCap
    PROVE  LateInv'
<1> DEFINE a == VoutLog[d].addr
           age == IF Pending(a) THEN intent[a].age ELSE 0
<1>1. TypeOK /\ a \in Addr /\ intent \in [Addr -> Intent] /\ row \in [Vout -> Deposit]
  BY DepositAssumption DEF IInv, TypeOK, SharedTypeOK
<1>2. age \in 0..Day
  BY <1>1, DepositAssumption DEF Intent
<1>3. row' = [row EXCEPT ![d] = [NoRow EXCEPT !.status = status, !.age = age]]
      /\ intent' = IF Pending(a) THEN [intent EXCEPT ![a].status = "used"] ELSE intent
  BY DEF Recorded
<1>4. Pending(a) => intent[a].status # "used" /\ intent'[a].status = "used"
  BY <1>1, <1>3 DEF Pending, Intent
<1>5. ~Pending(a) => age = 0
  OBVIOUS
<1>6. \A i \in Addr : intent[i].status = "used" => intent'[i].status = "used"
  BY <1>1, <1>3 DEF Intent
<1> HIDE DEF age
<1>7. row'[d].status = status /\ row'[d].age = age /\ row'[d].since = 0
      /\ \A c \in Vout : c # d => row'[c] = row[c]
  BY <1>1, <1>3 DEF NoRow
<1>8. IsLate(d)' => Pending(a)
  BY <1>5, <1>7 DEF IsLate
<1>9. \A c \in Vout : c # d /\ IsLate(c)' => IsLate(c)
  BY <1>7 DEF IsLate
<1>10. \A c \in Vout : IsLate(c) => intent[VoutLog[c].addr].status = "used"
  BY DEF LateInv
<1>11. \A c \in Vout : row'[c].since <= row'[c].age
  BY <1>2, <1>7 DEF LateInv
<1>12. \A c \in Vout : IsLate(c)' => intent'[VoutLog[c].addr].status = "used"
  BY <1>1, <1>4, <1>6, <1>8, <1>9, <1>10, Dates
<1>13. ASSUME NEW c \in Vout, NEW e \in Vout, IsLate(c)', IsLate(e)',
              VoutLog[c].addr = VoutLog[e].addr
       PROVE  c = e
  <2>1. CASE c # d /\ e # d
    BY <1>9, <1>13, <2>1 DEF LateInv
  <2>2. CASE c = d /\ e # d
    BY <1>4, <1>8, <1>9, <1>10, <1>13, <2>2
  <2>3. CASE c # d /\ e = d
    BY <1>4, <1>8, <1>9, <1>10, <1>13, <2>3
  <2>4. QED
    BY <2>1, <2>2, <2>3
<1>14. \A c \in Vout : row'[c].status \in Live => VoutSats(c) <= DailyCap
  BY <1>7 DEF LateInv
<1>15. QED
  BY <1>11, <1>12, <1>13, <1>14 DEF LateInv, VoutSats

\* Every step keeps LateInv.
LEMMA LateStep == IInv /\ IInv' /\ LateInv /\ [Next]_vars => LateInv'
<1> SUFFICES ASSUME IInv, LateInv, [Next]_vars
             PROVE  LateInv'
  OBVIOUS
<1>1. TypeOK /\ row \in [Vout -> Deposit]
  BY DEF IInv, TypeOK, SharedTypeOK
<1>2. ASSUME row' = row, \A a \in Addr : intent[a].status = "used" => intent'[a].status = "used"
      PROVE  LateInv'
  BY <1>1, <1>2, LateFrame DEF LateInv, IsLate
<1>3. CASE WatcherNext
  <2>1. ASSUME NEW d \in Vout, ConfirmDeposit(d)
        PROVE  LateInv'
    <3>1. f.pc = "tvl" /\ d \in f.todo /\ IsNext(d) /\ Recorded(d, "CONFIRMED")
      BY <2>1 DEF ConfirmDeposit, TvlRead, IsNext
    <3>2. SumDaily(OwnerOf(d)) + VoutSats(d) <= DailyCap
      BY <3>1 DEF IInv, CapInv
    <3>3. SumDaily(OwnerOf(d)) \in Nat /\ VoutSats(d) \in Nat /\ DailyCap \in Nat
      BY SumDailyType, AmountTypes, WatcherAssumption
    <3>4. VoutSats(d) <= DailyCap
      BY <3>2, <3>3
    <3>5. QED
      BY <3>1, <3>4, Values, LateRecorded
  <2>2. ASSUME NEW d \in Vout, RefuseDeposit(d)
        PROVE  LateInv'
    BY <2>2, Values, LateRecorded DEF RefuseDeposit, Live
  <2>3. CASE UNCHANGED <<row, intent>>
    BY <1>2, <2>3
  <2>4. QED
    BY <1>3, <2>1, <2>2, <2>3
       DEF WatcherNext, WatcherStep, LoadAddresses, ReadOrphans, ReenqueueOrphan, ReadTip,
           NextBlock, EndTick, InspectVout, ReadSupply, ReadInFlight, EnqueueMint,
           SaveCursor, TickError
<1>4. ASSUME NEW d \in Vout, SignerNext(d)
      PROVE  LateInv'
  BY <1>1, <1>4, SignerDates, LateFrame DEF SignerNext, AroundSigner, LateInv, IsLate
<1>5. CASE Tick
  <2>1. Next
    BY <1>5 DEF Next
  <2>2. ASSUME NEW d \in Vout
        PROVE  /\ row'[d].since <= row'[d].age
               /\ row'[d].since < row'[d].age => IsLate(d)
               /\ row'[d].status \in Live => row[d].status \in Live
    <3>1. row[d] \in Deposit /\ row[d].age \in 0..Day /\ row[d].since \in 0..Day
          /\ Day \in Nat /\ row[d].since <= row[d].age
      BY <1>1, Dates, DepositAssumption DEF LateInv
    <3>2. CASE Exists(d)
      <4>1. row'[d] = [row[d] EXCEPT !.age = Older(row[d].age), !.since = Older(row[d].since)]
        BY <1>5, <3>2 DEF Tick
      <4>2. row'[d].age = Older(row[d].age) /\ row'[d].since = Older(row[d].since)
            /\ row'[d].status = row[d].status
        BY <3>1, <4>1 DEF Deposit
      <4>3. QED
        BY <3>1, <4>2 DEF Older, IsLate
    <3>3. CASE ~Exists(d)
      BY <1>5, <3>1, <3>3 DEF Tick, IsLate
    <3>4. QED
      BY <3>2, <3>3
  <2>3. QED
    BY <1>1, <2>1, <2>2, UsedStaysUsed, LateFrame
<1>6. CASE UNCHANGED vars
  BY <1>2, <1>6 DEF vars
<1>7. CASE Next /\ row' = row
  BY <1>2, <1>7, UsedStaysUsed
<1>8. QED
  BY <1>3, <1>4, <1>5, <1>6, <1>7
     DEF Next, ApiNext, AllocateAddress, AnswerIntent, CreateIntent, IntentFails, Crash,
         Stop, Exit, Start, NewBlock, Mine, SetPaused, BurnAll

LEMMA LateInit == Init => LateInv
BY DEF Init, SharedInit, NoRow, LateInv, IsLate, Live

\* What fair-watcher.ts admits for a Base address within a day stays under
\* PER_ADDRESS_DAILY_CAP_FAIR, the outputs aside whose document is an intent's
\* and a day old: one per deposit address at most, each under the cap itself.
THEOREM DailyCapIsKept == Spec => []DailyCapHolds
<1>1. IInv /\ LateInv => DailyCapHolds
  <2> SUFFICES ASSUME IInv, LateInv, NEW d \in Vout, NEW owner, owner = OwnerOf(d)
               PROVE  /\ MapThenSumSet(VoutSats, AdmittedToday(owner) \ Backdated(owner))
                            <= DailyCap
                      /\ \A e \in Backdated(owner) : VoutSats(e) <= DailyCap
                      /\ \A e, g \in Backdated(owner) :
                            VoutLog[e].addr = VoutLog[g].addr => e = g
    BY DEF DailyCapHolds
  <2>1. TypeOK /\ Day \in Nat
    BY DepositAssumption DEF IInv
  <2>2. \A e \in Vout : /\ row[e].age \in 0..Day /\ row[e].since \in 0..Day
                        /\ row[e].since <= row[e].age
    BY <2>1, Dates DEF LateInv
  <2>3. AdmittedToday(owner) \ Backdated(owner)
           = {e \in Vout : Counted(e) /\ OwnerOf(e) = owner}
    BY <2>1, <2>2 DEF AdmittedToday, Backdated, Counted
  <2>4. SumDaily(owner) <= DailyCap
    BY DEF IInv, CapInv, SumsUnderCap
  <2>5. MapThenSumSet(VoutSats, AdmittedToday(owner) \ Backdated(owner)) <= DailyCap
    BY <2>3, <2>4 DEF SumDaily
  <2>6. \A e \in Backdated(owner) : e \in Vout /\ IsLate(e) /\ row[e].status \in Live
    BY <2>1, <2>2 DEF Backdated, AdmittedToday, IsLate, Live
  <2>7. QED
    BY <2>5, <2>6 DEF LateInv
<1>2. QED
  BY <1>1, Invariance, LateInit, LateStep, PTL DEF Spec

\* A deposit that waits for its mint and has none pledges its mint, every mint
\* beyond the one a deposit is owed takes one back.
LEMMA PledgeParts ==
    ASSUME IInv, NEW d \in Vout
    PROVE  /\ Duplicated(d) \in Int
           /\ Pledges[d] \in Int
           /\ (IF d \in Outstanding THEN MintWei(d) ELSE 0) = Pledges[d] + Duplicated(d)
<1> DEFINE w == MintWei(d)
           n == Minted(d)
<1>1. TypeOK /\ RowInv(d) /\ tx[d] \in Seq(TxStatus) /\ w \in Nat
  BY AmountTypes DEF IInv, DepositInv, TypeOK, SharedTypeOK
<1>2. /\ n \in Nat /\ (n = 0 <=> Successes(d) = {}) /\ Owed(d) \in {0, 1}
      /\ row[d].status = "MINTED" => n >= 1
  <2>1. Successes(d) = Succeeded(tx[d])
    BY DEF Successes, Succeeded
  <2>2. n \in Nat /\ IsFiniteSet(Successes(d))
    BY <1>1, <2>1, SucceededCount DEF Minted
  <2>3. n = 0 <=> Successes(d) = {}
    BY <2>2, FS_EmptySet DEF Minted
  <2>4. row[d].status = "MINTED" => n >= 1
    BY <1>1, <2>1, SucceededCount DEF RowInv, Receipt, Minted
  <2>5. QED
    BY <2>2, <2>3, <2>4 DEF Owed
<1>3. /\ Pledges[d] = w * (Owed(d) - n)
      /\ Duplicated(d) = w * (IF n > Owed(d) THEN n - Owed(d) ELSE 0)
      /\ d \in Outstanding <=> row[d].status \in {"CONFIRMED", "MINTING"} /\ n = 0
      /\ Owed(d) = 1 <=> row[d].status \in {"CONFIRMED", "MINTING", "MINTED"}
  BY <1>2 DEF Pledges, Duplicated, Minted, Outstanding, Owed
<1> HIDE DEF w, n
<1>4. \A i \in Int : w * i \in Int /\ w * i + w * (0 - i) = 0
  BY <1>1
<1>5. CASE Owed(d) = 1 /\ n = 0
  <2>1. d \in Outstanding
    BY <1>2, <1>3, <1>5
  <2>2. Pledges[d] = w /\ Duplicated(d) = 0
    BY <1>1, <1>3, <1>5
  <2>3. QED
    BY <1>1, <2>1, <2>2 DEF w
<1>6. CASE Owed(d) = 0 \/ n >= 1
  <2>1. d \notin Outstanding
    BY <1>2, <1>3, <1>6
  <2> DEFINE i == n - Owed(d)
  <2>2. i \in Nat
    BY <1>2, <1>6
  <2>3. Owed(d) - n = 0 - i /\ (IF n > Owed(d) THEN n - Owed(d) ELSE 0) = i
    BY <1>2, <2>2
  <2>4. Pledges[d] = w * (0 - i) /\ Duplicated(d) = w * i
    BY <1>3, <2>3
  <2> HIDE DEF i
  <2>5. w * i \in Int /\ w * (0 - i) \in Int /\ w * i + w * (0 - i) = 0
    BY <1>4, <2>2
  <2>6. QED
    BY <2>1, <2>4, <2>5
<1>7. QED
  BY <1>2, <1>5, <1>6

\* The supply and the mints still to come stay within MAX_TVL_FAIR, apart from
\* duplicate mints and from what was settled between the two reads of a check.
THEOREM SupplyIsBounded == Spec => []TvlBounded
<1>1. ASSUME IInv
      PROVE  TvlBounded
  <2> DEFINE wei == [d \in Vout |-> MintWei(d)]
             out == [d \in Vout |-> IF d \in Outstanding THEN wei[d] ELSE 0]
             dup == [d \in Vout |-> Duplicated(d)]
             S == MapThenSumSet(MintWei, Outstanding)
             D == MapThenSumSet(Duplicated, Vout)
  <2>1. S = Total(wei, Outstanding) /\ D = Total(dup, Vout)
    BY ZenonT(60) DEF Total, MapThenSumSet, MapThenFoldSet, Outstanding
  <2>2. Outstanding \in SUBSET Vout
    BY DEF Outstanding
  <2>3. /\ \A d \in Outstanding : wei[d] \in Int
        /\ \A d \in Vout : /\ dup[d] \in Int /\ Pledges[d] \in Int
                           /\ out[d] = Pledges[d] + dup[d]
    BY <1>1, <2>2, AmountTypes, PledgeParts
  <2> HIDE DEF wei, dup, S, D
  <2>4. Total(wei, Outstanding) = Total(out, Vout)
    BY <2>2, <2>3, VoutFacts, TotalPart
  <2> HIDE DEF out
  <2>5. Total(out, Vout) = Total(Pledges, Vout) + Total(dup, Vout)
    BY <2>3, VoutFacts, TotalPlus
  <2>6. Total(Pledges, Vout) \in Int /\ Total(dup, Vout) \in Int
    BY <2>3, VoutFacts, TotalInt
  <2>7. supply + Total(Pledges, Vout) <= MaxTvl + slip
    BY <1>1 DEF IInv, TvlInv, Exposure
  <2>8. supply \in Nat /\ slip \in Nat /\ MaxTvl \in Nat
    BY <1>1, WatcherAssumption DEF IInv, TypeOK, SharedTypeOK, WatcherTypeOK
  <2>9. supply + S <= MaxTvl + slip + D
    BY <2>1, <2>4, <2>5, <2>6, <2>7, <2>8
  <2>10. QED
    BY <2>9 DEF TvlBounded, S, D
<1>2. QED
  BY <1>1, Invariance, PTL

-----------------------------------------------------------------------------
(***************************************************************************)
(* The mint pipeline implements PayoutLedger along every behaviour in      *)
(* which it is never restarted under another MINT_AUTH_MODE, for any       *)
(* outputs, bounds and parameters.  Each step of DepositMint either        *)
(* changes neither the number of transactions, nor the hashes on file, nor *)
(* the class of a status, or is one step of the ledger; IInv says which.   *)
(***************************************************************************)

\* The refinement mapping of Ledger, by name.
PaidOf == [d \in Vout |-> Len(tx[d])]

FiledOf == [d \in Vout |-> row[d].hash]

ClassOf(status) == CASE status = "MINTED" -> "settled"
                     [] status = "FAILED" -> "void"
                     [] OTHER -> "open"

StateOf == [d \in Vout |-> ClassOf(row[d].status)]

ledgerOf == <<PaidOf, FiledOf, StateOf>>

\* The statuses in which a deposit is still open.
LEMMA OpenRow ==
    ASSUME NEW d \in Vout,
           row[d].status \in {"none", "CONFIRMED", "MINTING"}
    PROVE  StateOf[d] = "open"
BY DEF StateOf, ClassOf

\* A step that adds no transaction, files no hash and changes no class is a
\* stutter.
LEMMA StutterStep ==
    ASSUME \A d \in Vout : /\ Len(tx'[d]) = Len(tx[d])
                           /\ row'[d].hash = row[d].hash
                           /\ ClassOf(row'[d].status) = ClassOf(row[d].status)
    PROVE  UNCHANGED ledgerOf
<1>1. PaidOf' = PaidOf
  BY DEF PaidOf
<1>2. FiledOf' = FiledOf
  BY DEF FiledOf
<1>3. StateOf' = StateOf
  BY DEF StateOf, ClassOf
<1>4. QED
  BY <1>1, <1>2, <1>3 DEF ledgerOf

\* The ledger's actions in terms of the mapping.
LEMMA LedgerActions ==
    ASSUME NEW d \in Vout,
           \/ /\ StateOf[d] = "open" /\ FiledOf[d] = 0
              /\ PaidOf' = [PaidOf EXCEPT ![d] = @ + 1]
              /\ FiledOf' = FiledOf /\ StateOf' = StateOf
           \/ /\ StateOf[d] = "open" /\ FiledOf[d] = 0 /\ PaidOf[d] > 0
              /\ FiledOf' = [FiledOf EXCEPT ![d] = PaidOf[d]]
              /\ PaidOf' = PaidOf /\ StateOf' = StateOf
           \/ /\ StateOf[d] = "open" /\ FiledOf[d] # 0
              /\ StateOf' = [StateOf EXCEPT ![d] = "settled"]
              /\ PaidOf' = PaidOf /\ FiledOf' = FiledOf
           \/ /\ StateOf[d] = "open"
              /\ StateOf' = [StateOf EXCEPT ![d] = "void"]
              /\ PaidOf' = PaidOf /\ FiledOf' = FiledOf
    PROVE  Ledger!LedgerNext
<1>1. \/ Ledger!Pay(d) \/ Ledger!File(d) \/ Ledger!Settle(d) \/ Ledger!Void(d)
      \/ Ledger!Bounce(d)
  BY DEF Ledger!Pay, Ledger!File, Ledger!Settle, Ledger!Void, Ledger!Bounce,
         PaidOf, FiledOf, StateOf, ClassOf
<1>2. QED
  BY <1>1 DEF Ledger!LedgerNext

\* A transaction is sent, by the worker or by the Safe, while no hash is on
\* file.
LEMMA PayStep ==
    ASSUME TypeOK, NEW d \in Vout, row' = row,
           NEW status \in TxStatus, tx' = [tx EXCEPT ![d] = Append(@, status)],
           row[d].status \in {"none", "CONFIRMED", "MINTING"}, row[d].hash = 0
    PROVE  Ledger!LedgerNext
<1>1. FiledOf' = FiledOf /\ StateOf' = StateOf
  BY DEF FiledOf, StateOf
<1>2. StateOf[d] = "open" /\ FiledOf[d] = 0
  BY OpenRow DEF FiledOf
<1>3. tx \in [Vout -> Seq(TxStatus)] /\ tx[d] \in Seq(TxStatus)
  BY DEF TypeOK, SharedTypeOK
<1>4. tx'[d] = Append(tx[d], status) /\ \A c \in Vout : c # d => tx'[c] = tx[c]
  BY <1>3
<1>5. Len(tx'[d]) = Len(tx[d]) + 1
  BY <1>3, <1>4
<1>6. PaidOf' = [PaidOf EXCEPT ![d] = PaidOf[d] + 1]
  <2>1. PaidOf[d] = Len(tx[d])
    BY DEF PaidOf
  <2>2. \A c \in Vout : PaidOf'[c] = IF c = d THEN PaidOf[d] + 1 ELSE PaidOf[c]
    BY <1>4, <1>5, <2>1 DEF PaidOf
  <2>3. QED
    BY <2>2 DEF PaidOf
<1>7. QED
  BY <1>1, <1>2, <1>6, LedgerActions

\* The latest transaction's hash goes on file.
LEMMA FileStep ==
    ASSUME NEW d \in Vout, tx' = tx, RowBecomes(d, row[d].status, Len(tx[d]), row[d].safe),
           row[d].status = "MINTING", row[d].hash = 0, Len(tx[d]) > 0
    PROVE  Ledger!LedgerNext
<1>1. /\ row'[d].hash = Len(tx[d]) /\ row'[d].status = row[d].status
      /\ \A c \in Vout : c # d => row'[c] = row[c]
  BY DEF RowBecomes, IsRow
<1>2. FiledOf' = [FiledOf EXCEPT ![d] = PaidOf[d]]
  BY <1>1 DEF FiledOf, PaidOf
<1>3. PaidOf' = PaidOf /\ StateOf' = StateOf
  BY <1>1 DEF PaidOf, StateOf
<1>4. StateOf[d] = "open" /\ FiledOf[d] = 0 /\ PaidOf[d] > 0
  BY OpenRow DEF FiledOf, PaidOf
<1>5. QED
  BY <1>2, <1>3, <1>4, LedgerActions

\* A status that leaves the open class: MINTED with the hash on file, FAILED
\* with or without one.
LEMMA CloseStep ==
    ASSUME NEW d \in Vout, tx' = tx,
           \A c \in Vout : c # d => row'[c] = row[c],
           row'[d].hash = row[d].hash,
           row[d].status \in {"none", "CONFIRMED", "MINTING"},
           \/ row'[d].status = "MINTED" /\ row[d].hash # 0
           \/ row'[d].status = "FAILED"
    PROVE  Ledger!LedgerNext
<1>1. PaidOf' = PaidOf /\ FiledOf' = FiledOf
  BY DEF PaidOf, FiledOf
<1>2. StateOf[d] = "open" /\ FiledOf[d] = row[d].hash
  BY OpenRow DEF FiledOf
<1>3. CASE row'[d].status = "MINTED" /\ row[d].hash # 0
  <2>1. StateOf' = [StateOf EXCEPT ![d] = "settled"]
    BY <1>3 DEF StateOf, ClassOf
  <2>2. QED
    BY <1>1, <1>2, <1>3, <2>1, LedgerActions
<1>4. CASE row'[d].status = "FAILED"
  <2>1. StateOf' = [StateOf EXCEPT ![d] = "void"]
    BY <1>4 DEF StateOf, ClassOf
  <2>2. QED
    BY <1>1, <1>2, <2>1, LedgerActions
<1>5. QED
  BY <1>3, <1>4

-----------------------------------------------------------------------------
\* Only a deposit that waits for its mint has a proposal the Safe may still
\* execute, as long as signMint never ran in the other mode.
LEMMA ProposedRow ==
    ASSUME IInv, switches = 0, NEW d \in Vout, safeTx[d] = "proposed"
    PROVE  row[d].status \in {"CONFIRMED", "MINTING"} /\ row[d].hash = 0
<1>1. TypeOK /\ RowInv(d) /\ PaidInv(d) /\ ModeInv(d)
  BY DEF IInv, DepositInv
<1>2. auth \in {"direct_eoa", "safe_proposal"}
  BY <1>1 DEF TypeOK, SignerTypeOK, AuthMode
<1>3. row[d].hash = 0
  BY <1>1, <1>2 DEF ModeInv
<1>4. row[d].status \in Live
  BY <1>1, <1>3 DEF PaidInv, Admitted
<1>5. QED
  BY <1>1, <1>3, <1>4 DEF RowInv, Live

\* The signer's steps.
LEMMA SignerImplements ==
    ASSUME IInv, switches = 0, NEW d \in Vout, SignerStep(d)
    PROVE  Ledger!LedgerNext \/ UNCHANGED ledgerOf
<1>1. TypeOK /\ RowInv(d) /\ MintInv(d) /\ ModeInv(d)
  BY DEF IInv, DepositInv
<1>2. CASE UNCHANGED <<row, tx>>
  BY <1>2, StutterStep
<1>3. CASE ClaimMint(d)
  <2>1. tx' = tx
    BY <1>3 DEF ClaimMint, OnBase
  <2>2. RowBecomes(d, IF Claimable(d) THEN "MINTING" ELSE row[d].status,
                   row[d].hash, row[d].safe)
    BY <1>1, <1>3, RowMoves
  <2>3. \A c \in Vout : /\ row'[c].hash = row[c].hash
                        /\ ClassOf(row'[c].status) = ClassOf(row[c].status)
    <3>1. /\ row'[d].hash = row[d].hash
          /\ row'[d].status = IF Claimable(d) THEN "MINTING" ELSE row[d].status
          /\ \A c \in Vout : c # d => row'[c] = row[c]
      BY <2>2 DEF RowBecomes, IsRow
    <3>2. ClassOf(row'[d].status) = ClassOf(row[d].status)
      BY <3>1 DEF ClassOf, Claimable
    <3>3. QED
      BY <3>1, <3>2
  <2>4. QED
    BY <2>1, <2>3, StutterStep
<1>4. CASE Broadcast(d) \/ BroadcastUnanswered(d)
  <2>1. row' = row /\ tx' = [tx EXCEPT ![d] = Append(@, "pending")] /\ At(d, "broadcast")
    BY <1>4 DEF Broadcast, BroadcastUnanswered
  <2>2. row[d].status = "MINTING" /\ row[d].hash = 0
    BY <1>1, <2>1 DEF MintInv, At
  <2>3. "pending" \in TxStatus
    BY DEF TxStatus
  <2>4. QED
    BY <1>1, <2>1, <2>2, <2>3, PayStep
<1>5. CASE ExecuteSafe(d)
  <2>1. row' = row /\ tx' = [tx EXCEPT ![d] = Append(@, "success")] /\ safeTx[d] = "proposed"
    BY <1>5 DEF ExecuteSafe
  <2>2. row[d].status \in {"CONFIRMED", "MINTING"} /\ row[d].hash = 0
    BY <2>1, ProposedRow
  <2>3. "success" \in TxStatus
    BY DEF TxStatus
  <2>4. QED
    BY <1>1, <2>1, <2>2, <2>3, PayStep
<1>6. CASE RecordHash(d)
  <2>1. At(d, "record") /\ tx' = tx /\ RowBecomes(d, row[d].status, m.hash, row[d].safe)
    BY <1>1, <1>6, RowMoves DEF RecordHash, OnBase
  <2>2. row[d].status = "MINTING" /\ row[d].hash = 0 /\ m.hash \in DOMAIN tx[d]
    BY <1>1, <2>1 DEF MintInv, At
  <2>3. m.hash = Len(tx[d])
    BY <1>1, <2>1 DEF ModeInv
  <2>4. Len(tx[d]) > 0
    BY <1>1, <2>2, <2>3 DEF TypeOK, SharedTypeOK
  <2>5. QED
    BY <2>1, <2>2, <2>3, <2>4, FileStep
<1>7. CASE FinalizeMint(d) \/ FinalizeReverted(d)
  <2>1. tx' = tx /\ row[d].status = "MINTING" /\ row[d].hash # 0
    BY <1>1, <1>7 DEF FinalizeMint, FinalizeReverted, OnBase, MintInv, At
  <2>2. /\ \A c \in Vout : c # d => row'[c] = row[c]
        /\ row'[d].hash = row[d].hash
        /\ row'[d].status \in {"MINTED", "FAILED"}
    BY <1>1, <1>7, RowMoves DEF RowBecomes, IsRow
  <2>3. QED
    BY <2>1, <2>2, CloseStep
<1>8. CASE RecordSafeHash(d)
  <2>1. tx' = tx /\ RowBecomes(d, row[d].status, row[d].hash, TRUE)
    BY <1>1, <1>8, RowMoves DEF RecordSafeHash, OnBase
  <2>2. \A c \in Vout : row'[c].hash = row[c].hash /\ row'[c].status = row[c].status
    BY <2>1 DEF RowBecomes, IsRow
  <2>3. QED
    BY <2>1, <2>2, StutterStep
<1>9. CASE \/ TakeJob(d) \/ LoadRow(d) \/ BroadcastRefused(d) \/ Propose(d)
           \/ CheckProposal(d) \/ WriteAudit(d) \/ EndJob(d) \/ StepFails(d)
           \/ ProposeUnanswered(d) \/ JobStalls(d) \/ JobTrimmed(d)
  BY <1>2, <1>9
     DEF TakeJob, LoadRow, BroadcastRefused, Propose, CheckProposal, WriteAudit, EndJob,
         StepFails, ProposeUnanswered, JobStalls, JobTrimmed, OnBase
<1>10. QED
  BY <1>3, <1>4, <1>5, <1>6, <1>7, <1>8, <1>9 DEF SignerStep, SignerProgress

\* The watcher admits outputs, or refuses them for good before anything was
\* minted.
LEMMA WatcherImplements ==
    ASSUME IInv, WatcherStep
    PROVE  Ledger!LedgerNext \/ UNCHANGED ledgerOf
<1>1. tx' = tx
  BY DEF WatcherStep, LoadAddresses, ReadOrphans, ReenqueueOrphan, ReadTip, NextBlock,
         EndTick, InspectVout, ReadSupply, ReadInFlight, ConfirmDeposit, RefuseDeposit,
         EnqueueMint, SaveCursor, TickError
<1>2. CASE UNCHANGED row
  BY <1>1, <1>2, StutterStep
<1>3. ASSUME NEW d \in Vout, ConfirmDeposit(d) \/ RefuseDeposit(d)
      PROVE  Ledger!LedgerNext \/ UNCHANGED ledgerOf
  <2>1. TypeOK /\ RowInv(d) /\ ~Exists(d)
    BY <1>3 DEF IInv, DepositInv, ScanInv, ConfirmDeposit, RefuseDeposit, TvlRead, IsNext
  <2>2. row[d].status = "none" /\ row[d].hash = 0
    BY <2>1 DEF RowInv, Exists
  <2>3. PICK status \in {"CONFIRMED", "FAILED"} : Recorded(d, status)
    BY <1>3 DEF ConfirmDeposit, RefuseDeposit
  <2>4. /\ row'[d].status = status /\ row'[d].hash = 0
        /\ \A c \in Vout : c # d => row'[c] = row[c]
    BY <2>1, <2>3, RecordedIs, Values
  <2>5. CASE status = "FAILED"
    BY <1>1, <2>2, <2>4, <2>5, CloseStep
  <2>6. CASE status = "CONFIRMED"
    <3>1. ClassOf(row'[d].status) = ClassOf(row[d].status)
      BY <2>2, <2>4, <2>6 DEF ClassOf
    <3>2. QED
      BY <1>1, <2>2, <2>4, <3>1, StutterStep
  <2>7. QED
    BY <2>5, <2>6
<1>4. UNCHANGED row \/ \E d \in Vout : ConfirmDeposit(d) \/ RefuseDeposit(d)
  BY DEF WatcherStep, LoadAddresses, ReadOrphans, ReenqueueOrphan, ReadTip, NextBlock,
         EndTick, InspectVout, ReadSupply, ReadInFlight, EnqueueMint, SaveCursor, TickError
<1>5. QED
  BY <1>2, <1>3, <1>4

\* Time touches only the age of a row, a block only the outcome of a
\* transaction.
LEMMA WorldImplements ==
    ASSUME IInv, Tick \/ \E d \in Vout : Mine(d)
    PROVE  UNCHANGED ledgerOf
<1>1. row \in [Vout -> Deposit] /\ tx \in [Vout -> Seq(TxStatus)]
  BY DEF IInv, TypeOK, SharedTypeOK
<1>2. CASE Tick
  <2>1. tx' = tx
    BY <1>2 DEF Tick
  <2>2. ASSUME NEW d \in Vout
        PROVE  row'[d].hash = row[d].hash /\ row'[d].status = row[d].status
    <3>1. row[d] \in Deposit
      BY <1>1
    <3>2. row'[d] = IF Exists(d) THEN [row[d] EXCEPT !.age = Older(row[d].age),
                                                   !.since = Older(row[d].since)]
                              ELSE row[d]
      BY <1>2, <3>1 DEF Tick
    <3>3. QED
      BY <3>1, <3>2 DEF Deposit
  <2>3. QED
    BY <2>1, <2>2, StutterStep
<1>3. ASSUME NEW d \in Vout, Mine(d)
      PROVE  UNCHANGED ledgerOf
  <2>1. row' = row
    BY <1>3 DEF Mine
  <2>2. PICK i \in DOMAIN tx[d], status \in TxStatus : tx' = [tx EXCEPT ![d][i] = status]
    BY <1>3 DEF Mine, Mined, TxStatus
  <2>3. tx[d] \in Seq(TxStatus) /\ tx'[d] = [tx[d] EXCEPT ![i] = status]
        /\ \A c \in Vout : c # d => tx'[c] = tx[c]
    BY <1>1, <2>2
  <2>4. Len(tx'[d]) = Len(tx[d])
    BY <2>3
  <2>5. QED
    BY <2>1, <2>3, <2>4, StutterStep
<1>4. QED
  BY <1>2, <1>3

LEMMA StepImplements ==
    ASSUME IInv, switches = 0, [Next]_vars
    PROVE  [Ledger!LedgerNext]_ledgerOf
<1>1. CASE WatcherNext
  BY <1>1, WatcherImplements DEF WatcherNext
<1>2. CASE \E d \in Vout : SignerNext(d)
  BY <1>2, SignerImplements DEF SignerNext
<1>3. CASE \/ \E a \in Addr : ApiNext(a)
           \/ Crash \/ Stop \/ Exit \/ Start \/ NewBlock
           \/ \E flag \in BOOLEAN : SetPaused(flag)
           \/ BurnAll
           \/ UNCHANGED vars
  <2>1. row' = row /\ tx' = tx
    BY <1>3 DEF ApiNext, AllocateAddress, AnswerIntent, CreateIntent, IntentFails,
                Crash, Stop, Exit, Start, NewBlock, SetPaused, BurnAll, vars
  <2>2. QED
    BY <2>1, StutterStep
<1>4. CASE Tick \/ \E d \in Vout : Mine(d)
  BY <1>4, WorldImplements
<1>5. QED
  BY <1>1, <1>2, <1>3, <1>4 DEF Next

LEMMA InitImplements == Init => Ledger!LedgerInit
<1>1. ASSUME Init PROVE Ledger!LedgerInit
  <2>1. row = [d \in Vout |-> NoRow] /\ tx = [d \in Vout |-> <<>>]
    BY <1>1 DEF Init, SharedInit
  <2>2. \A d \in Vout : row[d].hash = 0 /\ row[d].status = "none" /\ Len(tx[d]) = 0
    BY <2>1 DEF NoRow
  <2>3. QED
    BY <2>1, <2>2 DEF Ledger!LedgerInit
<1>2. QED
  BY <1>1

\* As long as MINT_AUTH_MODE stays what it was, the mint pipeline keeps the
\* promise of PayoutLedger: a transaction is sent, by signDirectEoa or by the
\* Safe, only while no hash is on file, MINTED is written only with one, and
\* neither is ever taken back.
THEOREM MintImplementsLedger == Spec /\ [](switches = 0) => MintIsLedger
<1>1. IInv /\ switches = 0 /\ [Next]_vars => [Ledger!LedgerNext]_(Ledger!ledger)
  BY StepImplements DEF ledgerOf, PaidOf, FiledOf, StateOf, ClassOf, Ledger!ledger
<1>2. QED
  BY <1>1, InitImplements, Invariance, PTL DEF Spec, MintIsLedger, Ledger!LedgerSpec

\* ... and so it does where no such restart is allowed at all.
COROLLARY OneModeImplementsLedger ==
    ASSUME MaxSwitches = 0
    PROVE  Spec => MintIsLedger
<1>1. TypeOK => switches = 0
  BY DEF TypeOK
<1>2. QED
  BY <1>1, TypeCorrect, MintImplementsLedger, PTL
=============================================================================
