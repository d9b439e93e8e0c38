-------------------------- MODULE BurnReleaseProofs --------------------------
(***************************************************************************)
(* Proofs about BurnRelease, for any burns, bounds and parameters.         *)
(***************************************************************************)
EXTENDS BurnRelease, BridgeLemmas

(***************************************************************************)
(* The inductive invariant, in named parts.                                *)
(***************************************************************************)

\* What the stored row of a burn looks like, whoever is doing what.
RowInv(b) ==
    /\ row[b].fairTxid # 0 => row[b].status \in {"SIGNING", "BROADCAST"}
    /\ row[b].status = "BROADCAST" => row[b].fairTxid # 0
    /\ ~Exists(b) => sends[b] = 0 /\ job[b].state = "none"

\* How its job in Redis relates to its row in MongoDB.
JobInv(b) ==
    /\ row[b].status = "SIGNING" => job[b].state \in {"wait", "active", "failed"}
    /\ job[b].state = "completed" => row[b].status = "BROADCAST"
    /\ s.burn = b => job[b].state = "active" /\ mode # "down"

\* What signRelease may rely on at each of its calls.
SignerInv(b) == s.burn = b =>
    /\ s.pc \in {"validate", "claim"} =>
          row[b].status \in {"CONFIRMED", "SIGNING"} /\ row[b].fairTxid = 0
    /\ s.pc \in {"send", "record"} => row[b].status = "SIGNING" /\ row[b].fairTxid = 0
    /\ s.pc = "record" => s.txid = sends[b] /\ sends[b] > 0
    /\ s.pc \in {"mark", "reconcile"} => row[b].status = "SIGNING" /\ row[b].fairTxid # 0
    /\ s.pc \in {"audit", "link", "done"} => row[b].status = "BROADCAST"
    /\ s.pc = "giveup" => row[b].status = "FAILED"

\* Rows are made only for confirmed burns, and never for more than was burned.
AdmitInv(b) == Exists(b) =>
    /\ BurnLog[b].block + Confirmations <= tip
    /\ row[b].sats <= GrossSats(b)

BurnInv(b) ==
    /\ AccountedFor(b)
    /\ RowInv(b)
    /\ JobInv(b)
    /\ SignerInv(b)
    /\ AdmitInv(b)

InWindow == w.pc \in {"logs", "create", "enqueue"}

\* The watcher's locals: the orphans it read have rows, the logs it read are
\* confirmed, and it remembers whether the process was asked to stop.
WatcherInv ==
    /\ w.pc = "reconcile" => \A b \in w.todo : Exists(b)
    /\ InWindow \/ w.pc = "window" => w.safe + Confirmations <= tip
    /\ InWindow => /\ w.to <= w.safe
                   /\ \A b \in w.todo : BurnLog[b].block <= w.to
    /\ w.pc = "create" => \A b \in w.todo : IsNext(b) => ~Exists(b)
    /\ w.pc = "enqueue" => \A b \in w.todo : IsNext(b) => Exists(b)
    /\ stops = 0 => mode # "stopping"

\* Up to where the chain has been turned into rows.
Covered(to, except) ==
    \A b \in Burn : BurnLog[b].block \in (origin + 1)..to => Exists(b) \/ b \in except

CoverInv ==
    stops = 0 =>
        /\ Covered(cursor, {})
        /\ w.pc = "window" => Covered(w.to, {})
        /\ InWindow => Covered(w.to, w.todo)

IInv ==
    /\ TypeOK
    /\ \A b \in Burn : BurnInv(b)
    /\ WatcherInv
    /\ CoverInv

-----------------------------------------------------------------------------
(***************************************************************************)
(* Amounts.                                                                *)
(***************************************************************************)

\* The sats of a burn are a number.
LEMMA GrossSatsType ==
    ASSUME NEW b \in Burn
    PROVE  GrossSats(b) \in Nat
BY AmountsAssumption, BurnAssumption DEF GrossSats, WeiToSats

\* What a withdrawal is admitted for is bounded by what was burned.
LEMMA ReleaseSatsBound ==
    ASSUME NEW b \in Burn
    PROVE  ReleaseSats(b) \in Nat /\ ReleaseSats(b) <= GrossSats(b)
BY GrossSatsType, ApplyFeeBound DEF ReleaseSats

-----------------------------------------------------------------------------
(***************************************************************************)
(* Type correctness.                                                       *)
(***************************************************************************)

\* A failed call is counted within its bound.
LEMMA FaultType ==
    ASSUME Fault, errors \in 0..MaxErrors
    PROVE  errors' \in 0..MaxErrors
BY BurnAssumption DEF Fault

\* The blank records have their types and the fields they are written with.
LEMMA BlankRecords ==
    /\ NoRow \in Withdrawal
    /\ WIdle \in Watcher /\ WIdle.pc = "idle" /\ WIdle.todo = {}
    /\ SIdle \in Signer /\ SIdle.pc = "idle" /\ SIdle.burn = 0
BY BurnAssumption DEF NoRow, Withdrawal, Status, WIdle, Watcher, WatcherPc, Verdict,
                      SIdle, Signer, SignerPc

\* What a blank withdrawal becomes when a burn is admitted or refused.
LEMMA NewRowFields ==
    ASSUME NEW status \in Status, NEW sats \in Nat
    PROVE  /\ NewRow(status, sats) \in Withdrawal
           /\ NewRow(status, sats).status = status
           /\ NewRow(status, sats).sats = sats
           /\ NewRow(status, sats).fairTxid = 0
BY BlankRecords DEF NewRow, NoRow, Withdrawal

\* The values the code writes into status and the two program counters.
LEMMA Values ==
    /\ \A status \in {"none", "CONFIRMED", "SIGNING", "BROADCAST", "FAILED"} :
          status \in Status
    /\ \A pc \in {"off", "idle", "reconcile", "window", "logs", "create", "enqueue"} :
          pc \in WatcherPc
    /\ \A pc \in {"off", "idle", "load", "validate", "claim", "send", "record",
                  "mark", "reconcile", "audit", "link", "done", "giveup"} :
          pc \in SignerPc
BY DEF Status, WatcherPc, SignerPc

\* What one assignment to a stored row, the watcher's locals or the signer's
\* locals changes, and what it leaves alone.
LEMMA RowSetStatus ==
    ASSUME NEW r \in Withdrawal, NEW status \in Status
    PROVE  LET q == [r EXCEPT !.status = status]
           IN  /\ q \in Withdrawal
               /\ q.status = status /\ q.sats = r.sats /\ q.fairTxid = r.fairTxid
BY DEF Withdrawal

\* ... the txid.
LEMMA RowSetTxid ==
    ASSUME NEW r \in Withdrawal, NEW n \in Nat
    PROVE  LET q == [r EXCEPT !.fairTxid = n]
           IN  /\ q \in Withdrawal
               /\ q.status = r.status /\ q.sats = r.sats /\ q.fairTxid = n
BY DEF Withdrawal

\* ... the age.
LEMMA RowSetAge ==
    ASSUME NEW r \in Withdrawal, NEW age \in 0..2
    PROVE  LET q == [r EXCEPT !.age = age]
           IN  /\ q \in Withdrawal
               /\ q.status = r.status /\ q.sats = r.sats /\ q.fairTxid = r.fairTxid
BY DEF Withdrawal

\* ... the watcher's place.
LEMMA WatcherSetPc ==
    ASSUME NEW r \in Watcher, NEW pc \in WatcherPc
    PROVE  LET q == [r EXCEPT !.pc = pc]
           IN  /\ q \in Watcher
               /\ q.pc = pc /\ q.todo = r.todo /\ q.to = r.to /\ q.safe = r.safe
BY DEF Watcher

\* ... what it has still to handle.
LEMMA WatcherSetTodo ==
    ASSUME NEW r \in Watcher, NEW T \in SUBSET Burn
    PROVE  LET q == [r EXCEPT !.todo = T]
           IN  /\ q \in Watcher
               /\ q.pc = r.pc /\ q.todo = T /\ q.to = r.to /\ q.safe = r.safe
BY DEF Watcher

\* ... both.
LEMMA WatcherSetPcTodo ==
    ASSUME NEW r \in Watcher, NEW pc \in WatcherPc, NEW T \in SUBSET Burn
    PROVE  LET q == [r EXCEPT !.pc = pc, !.todo = T]
           IN  /\ q \in Watcher
               /\ q.pc = pc /\ q.todo = T /\ q.to = r.to /\ q.safe = r.safe
BY DEF Watcher

\* ... the range to scan.
LEMMA WatcherSetRange ==
    ASSUME NEW r \in Watcher, NEW pc \in WatcherPc, NEW n \in Nat, NEW m \in Nat
    PROVE  LET q == [r EXCEPT !.pc = pc, !.to = n, !.safe = m]
           IN  /\ q \in Watcher
               /\ q.pc = pc /\ q.todo = r.todo /\ q.to = n /\ q.safe = m
BY DEF Watcher

\* ... the window and its logs.
LEMMA WatcherSetLogs ==
    ASSUME NEW r \in Watcher, NEW pc \in WatcherPc, NEW n \in Nat, NEW T \in SUBSET Burn
    PROVE  LET q == [r EXCEPT !.pc = pc, !.to = n, !.todo = T]
           IN  /\ q \in Watcher
               /\ q.pc = pc /\ q.todo = T /\ q.to = n /\ q.safe = r.safe
BY DEF Watcher

\* ... the verdict.
LEMMA WatcherSetVerdict ==
    ASSUME NEW r \in Watcher, NEW pc \in WatcherPc, NEW v \in Verdict
    PROVE  LET q == [r EXCEPT !.pc = pc, !.verdict = v]
           IN  /\ q \in Watcher
               /\ q.pc = pc /\ q.todo = r.todo /\ q.to = r.to /\ q.safe = r.safe
BY DEF Watcher

\* ... the signer's place.
LEMMA SignerSetPc ==
    ASSUME NEW r \in Signer, NEW pc \in SignerPc
    PROVE  LET q == [r EXCEPT !.pc = pc]
           IN  /\ q \in Signer
               /\ q.pc = pc /\ q.burn = r.burn /\ q.txid = r.txid
BY DEF Signer

\* ... and the txid it holds.
LEMMA SignerSetTxid ==
    ASSUME NEW r \in Signer, NEW pc \in SignerPc, NEW n \in Nat
    PROVE  LET q == [r EXCEPT !.pc = pc, !.txid = n]
           IN  /\ q \in Signer
               /\ q.pc = pc /\ q.burn = r.burn /\ q.txid = n
BY DEF Signer

\* ... or the job it takes.
LEMMA SignerSetJob ==
    ASSUME NEW r \in Signer, NEW pc \in SignerPc, NEW b \in 0..NumBurns
    PROVE  LET q == [r EXCEPT !.pc = pc, !.burn = b]
           IN  /\ q \in Signer
               /\ q.pc = pc /\ q.burn = b /\ q.txid = r.txid
BY DEF Signer

\* The next iteration of the for loop.
LEMMA NextLogFields ==
    ASSUME NEW b \in Burn, w \in Watcher
    PROVE  /\ NextLog(b) \in Watcher
           /\ NextLog(b).pc = "logs" /\ NextLog(b).todo = w.todo \ {b}
           /\ NextLog(b).to = w.to /\ NextLog(b).safe = w.safe
BY DEF NextLog, Watcher, WatcherPc, Verdict

\* The initial state has the right types.
LEMMA InitType == Init => TypeOK
BY BurnAssumption, WatcherAssumption, ProcessAssumption
   DEF Init, SharedInit, WatcherInit, SignerInit, TypeOK, SharedTypeOK, WatcherTypeOK,
       SignerTypeOK, NoRow, Withdrawal, Status, NoJob, Job, JobState, WIdle, Watcher,
       WatcherPc, Verdict, SIdle, Signer, SignerPc, Burn

\* No step of the watcher leaves the types.
LEMMA WatcherType == TypeOK /\ WatcherNext => TypeOK'
<1> SUFFICES ASSUME TypeOK, WatcherNext
             PROVE  TypeOK'
  OBVIOUS
<1> USE Values DEF TypeOK, SharedTypeOK, WatcherTypeOK
<1>1. /\ SignerTypeOK' /\ crashes' \in 0..MaxCrashes /\ stops' \in 0..MaxStops
      /\ tip' \in 0..MaxTip /\ mode' \in {"up", "stopping", "down"}
  BY DEF WatcherNext, SignerTypeOK
<1>2. w.todo \in SUBSET Burn /\ w.to \in Nat /\ w.safe \in Nat
  BY DEF Watcher
<1>3. CASE ReadOrphans
  <2>1. PICK S \in SUBSET Burn : w' = [WIdle EXCEPT !.pc = "reconcile", !.todo = S]
    BY <1>3 DEF ReadOrphans
  <2>2. w' \in Watcher
    BY <2>1, BlankRecords, WatcherSetPcTodo
  <2>3. QED
    BY <1>1, <1>3, <2>2 DEF ReadOrphans
<1>4. ASSUME NEW b \in Burn, ReenqueueOrphan(b)
      PROVE  TypeOK'
  <2>1. w' \in Watcher
    BY <1>2, <1>4, WatcherSetTodo DEF ReenqueueOrphan
  <2>2. QED
    BY <1>1, <1>4, <2>1, JobType DEF ReenqueueOrphan
<1>5. CASE ReadTip
  <2>1. FirstCursor \in Nat /\ SafeTip \in Int
    BY WatcherAssumption DEF FirstCursor, SafeTip
  <2>2. PICK last \in Nat :
          /\ last = IF cursor = -1 THEN FirstCursor ELSE cursor
          /\ cursor' = last
          /\ origin' = IF cursor = -1 THEN last ELSE origin
          /\ w' = IF SafeTip > last
                  THEN [WIdle EXCEPT !.pc = "window", !.to = last, !.safe = SafeTip]
                  ELSE WIdle
    BY <1>5, <2>1 DEF ReadTip
  <2>3. w' \in Watcher
    <3>1. CASE SafeTip > last
      <4>1. SafeTip \in Nat
        BY <2>1, <3>1
      <4>2. QED
        BY <2>2, <3>1, <4>1, BlankRecords, WatcherSetRange
    <3>2. CASE ~(SafeTip > last)
      BY <2>2, <3>2, BlankRecords
    <3>3. QED
      BY <3>1, <3>2
  <2>4. QED
    BY <1>1, <1>5, <2>2, <2>3 DEF ReadTip
<1>6. CASE FetchWindow
  <2>1. WindowEnd(w.to + 1, w.safe) \in Nat
    BY <1>2, WatcherAssumption DEF WindowEnd
  <2>2. PICK n \in Nat, T \in SUBSET Burn :
          w' = [w EXCEPT !.pc = "logs", !.to = n, !.todo = T]
    BY <1>6, <2>1 DEF FetchWindow
  <2>3. w' \in Watcher
    BY <2>2, WatcherSetLogs
  <2>4. QED
    BY <1>1, <1>6, <2>3 DEF FetchWindow
<1>7. CASE EndTick
  BY <1>1, <1>7, BlankRecords DEF EndTick
<1>8. ASSUME NEW b \in Burn, InspectLog(b)
      PROVE  TypeOK'
  <2>1. ASSUME NEW v \in BOOLEAN
        PROVE  JudgedBy(b, v) \in Verdict
    BY DEF JudgedBy, Verdict
  <2>2. CASE Exists(b)
    BY <1>1, <1>8, <2>2, NextLogFields DEF InspectLog
  <2>3. CASE ~Exists(b)
    <3>1. PICK v \in Verdict : w' = [w EXCEPT !.pc = "create", !.verdict = v]
      BY <1>8, <2>1, <2>3, BurnAssumption DEF InspectLog, Verdict
    <3>2. w' \in Watcher
      BY <3>1, WatcherSetVerdict
    <3>3. errors' \in 0..MaxErrors
      BY <1>8, <2>3, FaultType DEF InspectLog
    <3>4. QED
      BY <1>1, <1>8, <3>2, <3>3 DEF InspectLog
  <2>4. QED
    BY <2>2, <2>3
<1>9. ASSUME NEW b \in Burn, CreateRow(b)
      PROVE  TypeOK'
  <2>1. row' \in [Burn -> Withdrawal]
    <3>1. /\ NewRow("CONFIRMED", ReleaseSats(b)) \in Withdrawal
          /\ NewRow("FAILED", GrossSats(b)) \in Withdrawal
      BY NewRowFields, ReleaseSatsBound, GrossSatsType
    <3>2. QED
      BY <1>9, <3>1 DEF CreateRow
  <2>2. w' \in Watcher
    BY <1>9, WatcherSetPc, NextLogFields DEF CreateRow
  <2>3. QED
    BY <1>1, <1>9, <2>1, <2>2 DEF CreateRow
<1>10. ASSUME NEW b \in Burn, EnqueueRelease(b)
      PROVE  TypeOK'
  BY <1>1, <1>10, JobType, NextLogFields DEF EnqueueRelease
<1>11. CASE SaveCursor
  <2>1. w' \in Watcher
    BY <1>11, WatcherSetPcTodo DEF SaveCursor
  <2>2. QED
    BY <1>1, <1>2, <1>11, <2>1 DEF SaveCursor
<1>12. CASE TickError
  BY <1>1, <1>12, FaultType, BlankRecords DEF TickError
<1>13. QED
  BY <1>3, <1>4, <1>5, <1>6, <1>7, <1>8, <1>9, <1>10, <1>11, <1>12
     DEF WatcherNext, WatcherStep

\* No step of the signer leaves the types.
LEMMA SignerType ==
    ASSUME NEW b \in Burn, TypeOK, SignerNext(b)
    PROVE  TypeOK'
<1> USE Values DEF TypeOK, SharedTypeOK, SignerTypeOK
<1>1. /\ WatcherTypeOK' /\ crashes' \in 0..MaxCrashes /\ stops' \in 0..MaxStops
      /\ mode' \in {"up", "stopping", "down"}
  BY DEF SignerNext, WatcherTypeOK, watcherVars
<1>2. b # 0 /\ b \in 0..NumBurns
  BY BurnAssumption DEF Burn
<1>3. s.txid \in Nat /\ s.pc \in SignerPc
  BY DEF Signer
<1>4. CASE TakeJob(b)
  <2>1. s' \in Signer /\ s'.burn = b /\ s'.pc = "load"
    <3>1. s' = [SIdle EXCEPT !.pc = "load", !.burn = b]
      BY <1>4 DEF TakeJob
    <3>2. QED
      BY <1>2, <3>1, BlankRecords DEF Signer
  <2>2. QED
    BY <1>1, <1>2, <1>4, <2>1, JobType DEF TakeJob
<1>5. ASSUME NEW pc \in SignerPc \ {"off", "idle"}, s.burn = b, s' = Goto(pc)
      PROVE  s' \in Signer /\ ((s'.burn = 0) <=> (s'.pc \in {"off", "idle"}))
  BY <1>2, <1>5, SignerSetPc DEF Goto
<1>6. CASE LoadRow(b)
  <2>1. PICK pc \in SignerPc \ {"off", "idle"} : s' = Goto(pc)
    BY <1>6 DEF LoadRow, SignerPc
  <2>2. QED
    BY <1>1, <1>5, <1>6, <2>1 DEF LoadRow, At
<1>7. CASE ValidateDestination(b)
  <2>1. row' \in [Burn -> Withdrawal]
    <3>1. [row[b] EXCEPT !.status = "FAILED"] \in Withdrawal
      BY RowSetStatus
    <3>2. QED
      BY <1>7, <3>1 DEF ValidateDestination
  <2>2. QED
    BY <1>1, <1>5, <1>7, <2>1 DEF ValidateDestination, At, SignerPc
<1>8. CASE ClaimRelease(b)
  <2>1. row' \in [Burn -> Withdrawal]
    BY <1>8, RowSetStatus DEF ClaimRelease
  <2>2. PICK pc \in SignerPc \ {"off", "idle"} : s' = Goto(pc)
    BY <1>8 DEF ClaimRelease, SignerPc
  <2>3. QED
    BY <1>1, <1>5, <1>8, <2>1, <2>2 DEF ClaimRelease, At
<1>9. CASE SendToAddress(b)
  <2>1. s' \in Signer /\ s'.burn = s.burn /\ s'.pc = "record"
    <3>1. sends[b] + 1 \in Nat
      OBVIOUS
    <3>2. s' = [s EXCEPT !.pc = "record", !.txid = sends[b] + 1]
      BY <1>9 DEF SendToAddress
    <3>3. QED
      BY <3>1, <3>2 DEF Signer
  <2>2. QED
    BY <1>1, <1>2, <1>9, <2>1 DEF SendToAddress, At
<1>10. CASE SendRefused(b)
  BY <1>1, <1>10, JobType, BlankRecords DEF SendRefused, Throw
<1>11. CASE RecordTxid(b)
  <2>1. row' \in [Burn -> Withdrawal]
    BY <1>3, <1>11, RowSetTxid DEF RecordTxid
  <2>2. s' \in Signer /\ s'.burn = s.burn /\ s'.pc = "mark"
    <3>1. s' = [s EXCEPT !.pc = "mark", !.txid = 0]
      BY <1>11 DEF RecordTxid
    <3>2. QED
      BY <3>1 DEF Signer
  <2>3. QED
    BY <1>1, <1>2, <1>11, <2>1, <2>2 DEF RecordTxid, At
<1>12. CASE MarkBroadcast(b) \/ ReconcileRelease(b)
  <2>1. row' \in [Burn -> Withdrawal]
    BY <1>12, RowSetStatus DEF MarkBroadcast, ReconcileRelease
  <2>2. QED
    BY <1>1, <1>5, <1>12, <2>1 DEF MarkBroadcast, ReconcileRelease, At, SignerPc
<1>13. CASE WriteAudit(b)
  BY <1>1, <1>5, <1>13 DEF WriteAudit, At, SignerPc
<1>14. CASE LinkRelease(b)
  BY <1>1, <1>5, <1>14, FaultType DEF LinkRelease, At, SignerPc
<1>15. CASE EndJob(b)
  BY <1>1, <1>15, JobType, BlankRecords DEF EndJob
<1>16. CASE StepFails(b)
  <2>1. Forgotten(b) \in Nat
    BY DEF Forgotten
  <2>2. QED
    BY <1>1, <1>16, <2>1, JobType, FaultType, BlankRecords DEF StepFails, Throw
<1>17. CASE SendUnanswered(b)
  BY <1>1, <1>17, JobType, FaultType, BlankRecords DEF SendUnanswered, Throw
<1>18. CASE JobStalls(b)
  BY <1>1, <1>18, JobType DEF JobStalls
<1>19. CASE JobTrimmed(b)
  BY <1>1, <1>19, JobType DEF JobTrimmed
<1>20. QED
  BY <1>4, <1>6, <1>7, <1>8, <1>9, <1>10, <1>11, <1>12, <1>13, <1>14, <1>15, <1>16,
     <1>17, <1>18, <1>19 DEF SignerNext, SignerStep, SignerProgress

\* No step of the process, the chain or the clock leaves the types.
LEMMA ProcessType ==
    ASSUME TypeOK,
           Crash \/ Stop \/ Exit \/ Start \/ NewBlock \/ (\E b \in Burn : Age(b))
    PROVE  TypeOK'
<1> USE Values DEF TypeOK, SharedTypeOK, WatcherTypeOK, SignerTypeOK
<1>1. /\ WOff \in Watcher
      /\ SOff \in Signer /\ SOff.burn = 0 /\ SOff.pc = "off"
  BY BlankRecords, WatcherSetPc, SignerSetPc DEF WOff, SOff
<1>2. CASE Crash
  <2>1. \A b \in Burn : Forgotten(b) \in Nat
    BY DEF Forgotten
  <2>2. QED
    BY <1>1, <1>2, <2>1, ProcessAssumption DEF Crash
<1>3. CASE Stop
  BY <1>3, ProcessAssumption DEF Stop
<1>4. CASE Exit
  BY <1>1, <1>4 DEF Exit
<1>5. CASE Start
  BY <1>5, BlankRecords DEF Start
<1>6. CASE NewBlock
  BY <1>6, WatcherAssumption DEF NewBlock
<1>7. ASSUME NEW b \in Burn, Age(b)
      PROVE  TypeOK'
  <2>1. row[b].age \in 0..1
    BY <1>7 DEF Age, Withdrawal
  <2>2. row' \in [Burn -> Withdrawal]
    <3>1. row[b].age + 1 \in 0..2
      BY <2>1
    <3>2. [row[b] EXCEPT !.age = row[b].age + 1] \in Withdrawal
      BY <3>1, RowSetAge
    <3>3. QED
      BY <1>7, <3>2 DEF Age
  <2>3. QED
    BY <1>7, <2>2 DEF Age
<1>8. QED
  BY <1>2, <1>3, <1>4, <1>5, <1>6, <1>7

\* Every step keeps the types.
LEMMA TypeStep == TypeOK /\ [Next]_vars => TypeOK'
<1> SUFFICES ASSUME TypeOK, [Next]_vars
             PROVE  TypeOK'
  OBVIOUS
<1>1. CASE UNCHANGED vars
  BY <1>1 DEF vars, TypeOK, SharedTypeOK, WatcherTypeOK, SignerTypeOK
<1>2. CASE Next
  BY <1>2, WatcherType, SignerType, ProcessType DEF Next
<1>3. QED
  BY <1>1, <1>2

-----------------------------------------------------------------------------
(***************************************************************************)
(* The invariant of one burn.                                              *)
(***************************************************************************)

\* A step that touches neither a burn's row, job and payments nor a signer
\* working on it keeps what is known of it.
LEMMA BurnFrame ==
    ASSUME NEW c \in Burn, BurnInv(c), TypeOK, tip' \in Nat, tip' >= tip,
           mode' = "down" => mode = "down",
           row'[c].status = row[c].status, row'[c].sats = row[c].sats,
           row'[c].fairTxid = row[c].fairTxid,
           job'[c] = job[c], sends'[c] = sends[c], lost'[c] = lost[c],
           s.burn = c \/ s'.burn = c => s' = s
    PROVE  BurnInv(c)'
<1> USE DEF BurnInv
<1>1. AccountedFor(c)'
  BY DEF AccountedFor, Filed, InHand, At
<1>2. RowInv(c)' /\ JobInv(c)' /\ SignerInv(c)'
  BY DEF RowInv, JobInv, SignerInv, Exists
<1>3. AdmitInv(c)'
  BY BurnAssumption, WatcherAssumption DEF AdmitInv, Exists, GrossSats, TypeOK, WatcherTypeOK
<1>4. QED
  BY <1>1, <1>2, <1>3

\* What queue.add may find: a row without a job, or a job it leaves alone.
LEMMA AddedState ==
    ASSUME NEW j
    PROVE  Added(j).state = IF j.state = "none" THEN "wait" ELSE j.state
BY DEF Added, NoJob

\* Queueing the job of a stored row keeps what is known of the burn.
LEMMA BurnQueued ==
    ASSUME NEW b \in Burn, BurnInv(b), TypeOK, Exists(b), job'[b] = Added(job[b]),
           UNCHANGED <<row, sends, lost, s, tip, mode>>
    PROVE  BurnInv(b)'
<1> USE DEF BurnInv
<1>1. AccountedFor(b)'
  BY DEF AccountedFor, Filed, InHand, At
<1>2. RowInv(b)' /\ SignerInv(b)' /\ AdmitInv(b)'
  BY DEF RowInv, SignerInv, AdmitInv, Exists, GrossSats
<1>3. JobInv(b)'
  BY AddedState DEF JobInv
<1>4. QED
  BY <1>1, <1>2, <1>3

\* The watcher keeps what is known of every burn.
LEMMA WatcherBurns ==
    ASSUME IInv, WatcherNext
    PROVE  \A c \in Burn : BurnInv(c)'
<1> USE DEF IInv
<1>1. UNCHANGED <<mode, tip, s, sends, lost>> /\ tip \in Nat
  BY WatcherAssumption DEF WatcherNext, TypeOK, WatcherTypeOK
<1>2. CASE UNCHANGED <<row, job>>
  BY <1>1, <1>2, BurnFrame
<1>3. ASSUME NEW b \in Burn, ReenqueueOrphan(b) \/ EnqueueRelease(b)
      PROVE  \A c \in Burn : BurnInv(c)'
  <2>1. Exists(b) /\ row' = row /\ job' = [job EXCEPT ![b] = Added(job[b])]
    BY <1>3 DEF ReenqueueOrphan, EnqueueRelease, WatcherInv, IsNext
  <2>2. job'[b] = Added(job[b]) /\ \A c \in Burn : c # b => job'[c] = job[c]
    BY <2>1 DEF TypeOK, SharedTypeOK
  <2>3. QED
    BY <1>1, <2>1, <2>2, BurnFrame, BurnQueued
<1>4. ASSUME NEW b \in Burn, CreateRow(b)
      PROVE  \A c \in Burn : BurnInv(c)'
  <2>1. /\ ~Exists(b) /\ BurnLog[b].block <= w.to /\ w.to <= w.safe
        /\ w.safe + Confirmations <= tip
    BY <1>4 DEF CreateRow, WatcherInv, InWindow, IsNext
  <2>2. /\ row'[b].status \in {"CONFIRMED", "FAILED"} /\ row'[b].fairTxid = 0
        /\ row'[b].sats <= GrossSats(b)
        /\ \A c \in Burn : c # b => row'[c] = row[c]
        /\ job' = job
    <3>1. ReleaseSats(b) \in Nat /\ ReleaseSats(b) <= GrossSats(b) /\ GrossSats(b) \in Nat
      BY ReleaseSatsBound, GrossSatsType
    <3>2. row' = [row EXCEPT ![b] = NewRow("CONFIRMED", ReleaseSats(b))]
          \/ row' = [row EXCEPT ![b] = NewRow("FAILED", GrossSats(b))]
      BY <1>4 DEF CreateRow
    <3>3. row'[b] = NewRow("CONFIRMED", ReleaseSats(b)) \/ row'[b] = NewRow("FAILED", GrossSats(b))
      BY <3>2 DEF TypeOK, SharedTypeOK
    <3>4. row'[b].status \in {"CONFIRMED", "FAILED"} /\ row'[b].fairTxid = 0
          /\ row'[b].sats <= GrossSats(b)
      BY <3>1, <3>3, NewRowFields, Values
    <3>5. QED
      BY <1>4, <3>2, <3>4 DEF CreateRow, TypeOK, SharedTypeOK
  <2>3. BurnInv(b)
    OBVIOUS
  <2>4. /\ sends[b] = 0 /\ job[b].state = "none" /\ s.burn # b /\ lost[b] = 0
    <3>1. sends[b] = 0 /\ job[b].state = "none" /\ row[b].fairTxid = 0
      BY <2>1, <2>3 DEF BurnInv, RowInv, Exists
    <3>2. s.burn # b
      BY <2>3, <3>1 DEF BurnInv, JobInv
    <3>3. lost[b] = 0
      BY <2>3, <3>1, <3>2 DEF BurnInv, AccountedFor, Filed, InHand, At, TypeOK, SignerTypeOK
    <3>4. QED
      BY <3>1, <3>2, <3>3
  <2>5. AccountedFor(b)'
    BY <1>1, <2>2, <2>4 DEF AccountedFor, Filed, InHand, At
  <2>6. RowInv(b)' /\ JobInv(b)' /\ SignerInv(b)'
    BY <1>1, <2>2, <2>4 DEF RowInv, JobInv, SignerInv, Exists
  <2>7. AdmitInv(b)'
    BY <1>1, <2>1, <2>2, BurnAssumption, WatcherAssumption
       DEF AdmitInv, GrossSats, TypeOK, WatcherTypeOK, Watcher
  <2>8. ASSUME NEW c \in Burn, c # b
        PROVE  BurnInv(c)'
    BY <1>1, <2>2, <2>4, <2>8, BurnFrame
  <2>9. QED
    BY <2>5, <2>6, <2>7, <2>8 DEF BurnInv
<1>5. QED
  BY <1>2, <1>3, <1>4 DEF WatcherNext, WatcherStep, ReadOrphans, ReadTip, FetchWindow,
     EndTick, InspectLog, SaveCursor, TickError

-----------------------------------------------------------------------------
(***************************************************************************)
(* The watcher's own invariants.                                           *)
(***************************************************************************)

\* The for loop has one next log.
LEMMA NextIsUnique ==
    ASSUME NEW b \in Burn, NEW c \in Burn, IsNext(b), IsNext(c)
    PROVE  b = c
BY BurnAssumption DEF IsNext, Burn

\* A step that leaves the watcher alone and deletes no row keeps both.
LEMMA ScanFrame ==
    ASSUME IInv, UNCHANGED watcherVars, tip' \in Nat, tip' >= tip,
           \A c \in Burn : Exists(c)' = Exists(c),
           stops' \in Nat, stops' >= stops, stops' = 0 => mode' # "stopping"
    PROVE  WatcherInv' /\ CoverInv'
<1> USE DEF IInv, TypeOK, WatcherTypeOK, watcherVars
<1>1. w.todo \in SUBSET Burn /\ w.safe \in Nat
  BY DEF Watcher
<1>2. WatcherInv'
  BY <1>1, WatcherAssumption DEF WatcherInv, InWindow, IsNext
<1>3. CoverInv'
  <2>1. stops \in Nat
    BY ProcessAssumption
  <2>2. SUFFICES ASSUME stops = 0
                 PROVE  CoverInv'
    BY <2>1 DEF CoverInv
  <2>3. QED
    BY <2>2 DEF CoverInv, Covered, InWindow
<1>4. QED
  BY <1>2, <1>3

\* Every step of the watcher keeps its invariants.
LEMMA WatcherScan ==
    ASSUME IInv, WatcherNext
    PROVE  WatcherInv' /\ CoverInv'
<1> USE DEF IInv, TypeOK, WatcherTypeOK, SharedTypeOK
<1>1. UNCHANGED <<mode, tip, stops>> /\ tip \in Nat /\ stops \in Nat
  BY WatcherAssumption, ProcessAssumption DEF WatcherNext
<1>2. w.todo \in SUBSET Burn /\ w.to \in Nat /\ w.safe \in Nat
  BY DEF Watcher
<1>3. CASE ReadOrphans
  <2>1. PICK S \in SUBSET Burn :
          /\ \A b \in S : Exists(b)
          /\ w' = [WIdle EXCEPT !.pc = "reconcile", !.todo = S]
    BY <1>3 DEF ReadOrphans, IsOrphan, Exists
  <2>2. w'.pc = "reconcile" /\ w'.todo = S
    BY <2>1, BlankRecords DEF Watcher
  <2>3. row' = row /\ cursor' = cursor /\ origin' = origin
    BY <1>3 DEF ReadOrphans
  <2>4. QED
    BY <1>1, <2>1, <2>2, <2>3 DEF WatcherInv, CoverInv, Covered, InWindow, Exists
<1>4. ASSUME NEW b \in Burn, ReenqueueOrphan(b)
      PROVE  WatcherInv' /\ CoverInv'
  <2>1. w'.pc = "reconcile" /\ w'.todo = w.todo \ {b} /\ w.pc = "reconcile"
    BY <1>2, <1>4, WatcherSetTodo DEF ReenqueueOrphan
  <2>2. row' = row /\ cursor' = cursor /\ origin' = origin
    BY <1>4 DEF ReenqueueOrphan
  <2>3. QED
    BY <1>1, <2>1, <2>2 DEF WatcherInv, CoverInv, Covered, InWindow, Exists
<1>5. CASE ReadTip
  <2>1. FirstCursor \in Nat /\ SafeTip \in Int /\ SafeTip + Confirmations = tip
    BY WatcherAssumption DEF FirstCursor, SafeTip
  <2>2. PICK last \in Nat :
          /\ last = IF cursor = -1 THEN FirstCursor ELSE cursor
          /\ cursor' = last
          /\ origin' = IF cursor = -1 THEN last ELSE origin
          /\ w' = IF SafeTip > last
                  THEN [WIdle EXCEPT !.pc = "window", !.to = last, !.safe = SafeTip]
                  ELSE WIdle
          /\ row' = row
    BY <1>5, <2>1 DEF ReadTip
  <2>3. stops' = 0 => Covered(cursor, {})'
    <3>1. CASE cursor = -1
      BY <2>2, <3>1, BurnAssumption DEF Covered
    <3>2. CASE cursor # -1
      BY <1>1, <2>2, <3>2 DEF Covered, CoverInv, Exists
    <3>3. QED
      BY <3>1, <3>2
  <2>4. CASE SafeTip > last
    <3>1. SafeTip \in Nat
      BY <2>1, <2>4
    <3>2. w'.pc = "window" /\ w'.to = last /\ w'.safe = SafeTip
      BY <2>2, <2>4, <3>1, BlankRecords DEF Watcher
    <3>3. QED
      BY <1>1, <2>1, <2>2, <2>3, <3>2 DEF WatcherInv, CoverInv, InWindow, Covered
  <2>5. CASE ~(SafeTip > last)
    BY <1>1, <2>2, <2>3, <2>5, BlankRecords DEF WatcherInv, CoverInv, InWindow
  <2>6. QED
    BY <2>4, <2>5
<1>6. CASE FetchWindow
  <2> DEFINE end == WindowEnd(w.to + 1, w.safe)
             logs == {b \in Burn : BurnLog[b].block \in (w.to + 1)..end}
  <2>1. end \in Nat /\ end <= w.safe
    BY <1>2, <1>6, WatcherAssumption DEF WindowEnd, FetchWindow
  <2>2. w' = [w EXCEPT !.pc = "logs", !.to = end, !.todo = logs]
    BY <1>6 DEF FetchWindow
  <2>3. /\ w.pc = "window" /\ row' = row /\ cursor' = cursor /\ origin' = origin
    BY <1>6 DEF FetchWindow
  <2>4. \A b \in logs : BurnLog[b].block <= end
    BY <2>1, BurnAssumption
  <2>5. stops = 0 => \A b \in Burn :
          BurnLog[b].block \in (origin + 1)..end => Exists(b) \/ b \in logs
    BY <1>2, <2>1, <2>3, BurnAssumption DEF CoverInv, Covered
  <2> HIDE DEF end
  <2>6. logs \in SUBSET Burn
    OBVIOUS
  <2> HIDE DEF logs
  <2>7. w'.pc = "logs" /\ w'.to = end /\ w'.todo = logs /\ w'.safe = w.safe
    BY <2>1, <2>2, <2>6 DEF Watcher
  <2>8. QED
    BY <1>1, <2>1, <2>3, <2>4, <2>5, <2>7
       DEF WatcherInv, CoverInv, InWindow, Covered, Exists
<1>7. CASE EndTick \/ TickError
  <2>1. w' = WIdle /\ row' = row /\ cursor' = cursor /\ origin' = origin
    BY <1>7 DEF EndTick, TickError
  <2>2. QED
    BY <1>1, <2>1, BlankRecords DEF WatcherInv, CoverInv, InWindow, Covered, Exists
<1>8. ASSUME NEW b \in Burn, InspectLog(b)
      PROVE  WatcherInv' /\ CoverInv'
  <2>1. w.pc = "logs" /\ IsNext(b) /\ row' = row /\ cursor' = cursor /\ origin' = origin
    BY <1>8 DEF InspectLog
  <2>2. CASE Exists(b)
    <3>1. w'.pc = "logs" /\ w'.todo = w.todo \ {b} /\ w'.to = w.to /\ w'.safe = w.safe
      BY <1>8, <2>2, NextLogFields DEF InspectLog
    <3>2. QED
      BY <1>1, <2>1, <2>2, <3>1 DEF WatcherInv, CoverInv, InWindow, Covered, Exists
  <2>3. CASE ~Exists(b)
    <3>1. PICK v \in Verdict : w' = [w EXCEPT !.pc = "create", !.verdict = v]
      BY <1>8, <2>3, BurnAssumption DEF InspectLog, JudgedBy, Verdict
    <3>2. w'.pc = "create" /\ w'.todo = w.todo /\ w'.to = w.to /\ w'.safe = w.safe
      BY <3>1 DEF Watcher
    <3>3. \A c \in w'.todo : IsNext(c)' => c = b
      BY <1>2, <2>1, <3>2, NextIsUnique DEF IsNext
    <3>4. QED
      BY <1>1, <2>1, <2>3, <3>2, <3>3 DEF WatcherInv, CoverInv, InWindow, Covered, Exists
  <2>4. QED
    BY <2>2, <2>3
<1>9. ASSUME NEW b \in Burn, CreateRow(b)
      PROVE  WatcherInv' /\ CoverInv'
  <2>1. w.pc = "create" /\ IsNext(b) /\ cursor' = cursor /\ origin' = origin
    BY <1>9 DEF CreateRow
  <2>2. Exists(b)' /\ \A c \in Burn : c # b => Exists(c)' = Exists(c)
    <3>1. NewRow("CONFIRMED", ReleaseSats(b)).status = "CONFIRMED"
          /\ NewRow("FAILED", GrossSats(b)).status = "FAILED"
      BY NewRowFields, Values, ReleaseSatsBound, GrossSatsType
    <3>2. QED
      BY <1>9, <3>1 DEF CreateRow, Exists
  <2>3. CASE w.verdict = "admit"
    <3>1. w' = [w EXCEPT !.pc = "enqueue"]
      BY <1>9, <2>3 DEF CreateRow
    <3>2. w'.pc = "enqueue" /\ w'.todo = w.todo /\ w'.to = w.to /\ w'.safe = w.safe
      BY <3>1, Values, WatcherSetPc
    <3>3. \A c \in w'.todo : IsNext(c)' => c = b
      BY <1>2, <2>1, <3>2, NextIsUnique DEF IsNext
    <3>4. QED
      BY <1>1, <1>2, <2>1, <2>2, <3>2, <3>3 DEF WatcherInv, CoverInv, InWindow, Covered
  <2>4. CASE w.verdict # "admit"
    <3>1. w'.pc = "logs" /\ w'.todo = w.todo \ {b} /\ w'.to = w.to /\ w'.safe = w.safe
      BY <1>9, <2>4, NextLogFields DEF CreateRow
    <3>2. QED
      BY <1>1, <1>2, <2>1, <2>2, <3>1 DEF WatcherInv, CoverInv, InWindow, Covered
  <2>5. QED
    BY <2>3, <2>4
<1>10. ASSUME NEW b \in Burn, EnqueueRelease(b)
       PROVE  WatcherInv' /\ CoverInv'
  <2>1. /\ w.pc = "enqueue" /\ IsNext(b) /\ Exists(b)
        /\ row' = row /\ cursor' = cursor /\ origin' = origin
    BY <1>10 DEF EnqueueRelease, WatcherInv, IsNext
  <2>2. w'.pc = "logs" /\ w'.todo = w.todo \ {b} /\ w'.to = w.to /\ w'.safe = w.safe
    BY <1>10, NextLogFields DEF EnqueueRelease
  <2>3. QED
    BY <1>1, <2>1, <2>2 DEF WatcherInv, CoverInv, InWindow, Covered, Exists
<1>11. CASE SaveCursor
  <2>1. w.pc = "logs" /\ cursor' = w.to /\ origin' = origin /\ row' = row
    BY <1>11 DEF SaveCursor
  <2>2. w.todo = {} \/ mode = "stopping"
    BY <1>11 DEF SaveCursor
  <2>3. w'.pc = "window" /\ w'.todo = {} /\ w'.to = w.to /\ w'.safe = w.safe
    BY <1>11 DEF SaveCursor, Watcher
  <2>4. WatcherInv'
    BY <1>1, <2>1, <2>3 DEF WatcherInv, InWindow
  <2>5. CASE stops = 0
    <3>1. w.todo = {}
      BY <2>2, <2>5 DEF WatcherInv
    <3>2. QED
      BY <1>1, <2>1, <2>3, <2>4, <2>5, <3>1 DEF CoverInv, InWindow, Covered, Exists
  <2>6. CASE stops # 0
    BY <1>1, <2>4, <2>6 DEF CoverInv
  <2>7. QED
    BY <2>5, <2>6
<1>12. QED
  BY <1>3, <1>4, <1>5, <1>6, <1>7, <1>8, <1>9, <1>10, <1>11 DEF WatcherNext, WatcherStep

-----------------------------------------------------------------------------
(***************************************************************************)
(* The signer's steps and the burn they are about.                         *)
(***************************************************************************)

\* An attempt that ends without an answer: the job goes back to the queue and
\* a payment in hand is forgotten.
LEMMA AttemptEnds ==
    ASSUME NEW b \in Burn, BurnInv(b), TypeOK, s.burn = b, s' = SIdle,
           job'[b].state \in {"wait", "failed"}, row' = row, tip' = tip,
           sends'[b] - sends[b] = lost'[b] - lost[b] - InHand(b),
           sends'[b] \in Nat, lost'[b] \in Nat
    PROVE  BurnInv(b)'
<1> USE BurnAssumption DEF BurnInv
<1>1. s'.burn = 0 /\ s'.pc = "idle" /\ b # 0
  BY BlankRecords DEF Burn
<1>2. AccountedFor(b)'
  BY <1>1 DEF AccountedFor, Filed, InHand, At, TypeOK, SignerTypeOK
<1>3. RowInv(b)'
  <2>1. Exists(b)
    BY DEF RowInv, JobInv
  <2>2. QED
    BY <2>1 DEF RowInv, Exists
<1>4. JobInv(b)'
  BY <1>1 DEF JobInv
<1>5. SignerInv(b)' /\ AdmitInv(b)'
  BY <1>1 DEF SignerInv, AdmitInv, Exists, GrossSats
<1>6. QED
  BY <1>2, <1>3, <1>4, <1>5

\* Every step of the signer keeps what is known of the burn it is about.
LEMMA SignerBurn ==
    ASSUME NEW b \in Burn, IInv, SignerNext(b)
    PROVE  BurnInv(b)'
<1> USE DEF BurnInv
<1>1. BurnInv(b) /\ TypeOK /\ b # 0
  BY BurnAssumption DEF IInv, Burn
<1>2. /\ tip' = tip /\ mode' = mode /\ row[b] \in Withdrawal /\ job[b] \in Job /\ s \in Signer
      /\ row \in [Burn -> Withdrawal] /\ job \in [Burn -> Job]
      /\ sends \in [Burn -> Nat] /\ lost \in [Burn -> Nat]
  BY <1>1 DEF SignerNext, TypeOK, SharedTypeOK, SignerTypeOK
<1>3. GrossSats(b)' = GrossSats(b)
  BY DEF GrossSats
<1>4. CASE TakeJob(b)
  <2>1. s'.burn = b /\ s'.pc = "load" /\ job'[b].state = "active"
    <3>1. s' = [SIdle EXCEPT !.pc = "load", !.burn = b]
      BY <1>4 DEF TakeJob
    <3>2. s'.burn = b /\ s'.pc = "load"
      BY <3>1, BlankRecords DEF Signer
    <3>3. QED
      BY <1>2, <1>4, <3>2, JobMoves DEF TakeJob
  <2>2. /\ job[b].state = "wait" /\ s.pc = "idle" /\ mode = "up"
        /\ UNCHANGED <<row, sends, lost>>
    BY <1>4 DEF TakeJob
  <2>3. QED
    BY <1>1, <1>2, <1>3, <2>1, <2>2
       DEF AccountedFor, Filed, InHand, At, RowInv, JobInv, SignerInv, AdmitInv, Exists
<1>5. ASSUME NEW pc \in SignerPc, s' = Goto(pc)
      PROVE  s'.pc = pc /\ s'.burn = s.burn /\ s'.txid = s.txid
  BY <1>2, <1>5, SignerSetPc DEF Goto
<1>6. CASE LoadRow(b)
  <2>1. PICK pc \in SignerPc :
          /\ s' = Goto(pc)
          /\ pc \in {"done", "giveup", "reconcile", "validate"}
          /\ pc = "done" => row[b].status = "BROADCAST"
          /\ pc = "giveup" => row[b].status = "FAILED"
          /\ pc = "reconcile" => row[b].status = "SIGNING" /\ row[b].fairTxid # 0
          /\ pc = "validate" => /\ row[b].status \in {"none", "CONFIRMED", "SIGNING"}
                                /\ row[b].fairTxid = 0
    BY <1>1, <1>2, <1>6, Values DEF LoadRow, RowInv, Withdrawal, Status
  <2>2. s.burn = b /\ s.pc = "load" /\ UNCHANGED <<row, job, sends, lost>>
    BY <1>6 DEF LoadRow, At
  <2>3. s'.pc = pc /\ s'.burn = b
    BY <1>5, <2>1, <2>2
  <2>4. QED
    BY <1>1, <1>2, <1>3, <2>1, <2>2, <2>3
       DEF AccountedFor, Filed, InHand, At, RowInv, JobInv, SignerInv, AdmitInv, Exists
<1>7. CASE ValidateDestination(b)
  <2>1. /\ s.burn = b /\ s.pc = "validate" /\ s'.burn = b
        /\ UNCHANGED <<job, sends, lost>>
        /\ row'[b].fairTxid = row[b].fairTxid /\ row'[b].sats = row[b].sats
        /\ \/ s'.pc = "claim" /\ row'[b].status = row[b].status
           \/ s'.pc = "giveup" /\ row'[b].status = "FAILED"
    <3>1. LET q == [row[b] EXCEPT !.status = "FAILED"]
          IN  q.status = "FAILED" /\ q.sats = row[b].sats /\ q.fairTxid = row[b].fairTxid
      BY <1>2, Values, RowSetStatus
    <3>2. QED
      BY <1>2, <1>5, <1>7, <3>1, Values DEF ValidateDestination, At
  <2>2. QED
    BY <1>1, <1>2, <1>3, <2>1
       DEF AccountedFor, Filed, InHand, At, RowInv, JobInv, SignerInv, AdmitInv, Exists
<1>8. CASE ClaimRelease(b)
  <2>1. /\ s.burn = b /\ s.pc = "claim" /\ s'.burn = b
        /\ UNCHANGED <<job, sends, lost>>
        /\ row'[b].fairTxid = row[b].fairTxid /\ row'[b].sats = row[b].sats
        /\ s'.pc = "send" /\ row'[b].status = "SIGNING"
    <3>1. LET q == [row[b] EXCEPT !.status = "SIGNING"]
          IN  q.status = "SIGNING" /\ q.sats = row[b].sats /\ q.fairTxid = row[b].fairTxid
      BY <1>2, Values, RowSetStatus
    <3>2. Claimable(b) /\ s.burn = b /\ s.pc = "claim"
      BY <1>1, <1>8 DEF ClaimRelease, At, SignerInv, Claimable
    <3>3. QED
      BY <1>2, <1>5, <1>8, <3>1, <3>2, Values DEF ClaimRelease
  <2>2. QED
    BY <1>1, <1>2, <1>3, <2>1
       DEF AccountedFor, Filed, InHand, At, RowInv, JobInv, SignerInv, AdmitInv, Exists
<1>9. CASE SendToAddress(b)
  <2>1. /\ s.burn = b /\ s.pc = "send" /\ sends'[b] = sends[b] + 1
        /\ s'.burn = b /\ s'.pc = "record" /\ s'.txid = sends[b] + 1
        /\ UNCHANGED <<row, job, lost>>
    <3>1. s' = [s EXCEPT !.pc = "record", !.txid = sends[b] + 1]
      BY <1>9 DEF SendToAddress
    <3>2. s'.burn = s.burn /\ s'.pc = "record" /\ s'.txid = sends[b] + 1
      BY <1>2, <3>1 DEF Signer
    <3>3. QED
      BY <1>2, <1>9, <3>2 DEF SendToAddress, At
  <2>2. QED
    BY <1>1, <1>2, <1>3, <2>1
       DEF AccountedFor, Filed, InHand, At, RowInv, JobInv, SignerInv, AdmitInv, Exists
<1>10. CASE RecordTxid(b)
  <2>1. /\ s.burn = b /\ s.pc = "record" /\ s'.burn = b /\ s'.pc = "mark"
        /\ UNCHANGED <<job, sends, lost>>
        /\ row'[b].status = row[b].status /\ row'[b].sats = row[b].sats
        /\ row'[b].fairTxid = s.txid
    <3>1. s' = [s EXCEPT !.pc = "mark", !.txid = 0]
      BY <1>10 DEF RecordTxid
    <3>2. s'.burn = s.burn /\ s'.pc = "mark"
      BY <1>2, <3>1 DEF Signer
    <3>3. row'[b] = [row[b] EXCEPT !.fairTxid = s.txid] /\ s.txid \in Nat
      BY <1>2, <1>10 DEF RecordTxid, Signer
    <3>4. row'[b].status = row[b].status /\ row'[b].sats = row[b].sats
          /\ row'[b].fairTxid = s.txid
      BY <1>2, <3>3, RowSetTxid
    <3>5. QED
      BY <1>10, <3>2, <3>4 DEF RecordTxid, At
  <2>2. QED
    BY <1>1, <1>2, <1>3, <2>1
       DEF AccountedFor, Filed, InHand, At, RowInv, JobInv, SignerInv, AdmitInv, Exists
<1>11. CASE MarkBroadcast(b) \/ ReconcileRelease(b)
  <2>1. /\ s.burn = b /\ s.pc \in {"mark", "reconcile"}
        /\ s'.burn = b /\ s'.pc = "audit"
        /\ UNCHANGED <<job, sends, lost>>
        /\ row'[b].status = "BROADCAST" /\ row'[b].sats = row[b].sats
        /\ row'[b].fairTxid = row[b].fairTxid
    <3>1. LET q == [row[b] EXCEPT !.status = "BROADCAST"]
          IN  q.status = "BROADCAST" /\ q.sats = row[b].sats /\ q.fairTxid = row[b].fairTxid
      BY <1>2, Values, RowSetStatus
    <3>2. QED
      BY <1>2, <1>5, <1>11, <3>1, Values DEF MarkBroadcast, ReconcileRelease, At
  <2>2. QED
    BY <1>1, <1>2, <1>3, <2>1
       DEF AccountedFor, Filed, InHand, At, RowInv, JobInv, SignerInv, AdmitInv, Exists
<1>12. CASE WriteAudit(b) \/ LinkRelease(b)
  <2>1. /\ s.burn = b /\ s.pc \in {"audit", "link"}
        /\ s'.burn = b /\ s'.pc \in {"link", "done"}
        /\ UNCHANGED <<row, job, sends, lost>>
    BY <1>5, <1>12, Values DEF WriteAudit, LinkRelease, At
  <2>2. QED
    BY <1>1, <1>2, <1>3, <2>1
       DEF AccountedFor, Filed, InHand, At, RowInv, JobInv, SignerInv, AdmitInv, Exists
<1>13. CASE EndJob(b)
  <2>1. /\ s.burn = b /\ s'.burn = 0 /\ s'.pc = "idle"
        /\ UNCHANGED <<row, sends, lost>>
        /\ \/ s.pc = "done" /\ job'[b].state = "completed"
           \/ s.pc = "giveup" /\ job'[b].state = "failed"
    BY <1>2, <1>13, JobMoves, BlankRecords DEF EndJob, At
  <2>2. QED
    BY <1>1, <1>2, <1>3, <2>1
       DEF AccountedFor, Filed, InHand, At, RowInv, JobInv, SignerInv, AdmitInv, Exists
<1>14. CASE StepFails(b) \/ SendRefused(b) \/ SendUnanswered(b)
  <2>1. job' = [job EXCEPT ![b] = Thrown(job[b])] /\ s' = SIdle /\ s.burn = b /\ row' = row
    BY <1>14 DEF StepFails, SendRefused, SendUnanswered, Throw, At
  <2>2. job'[b].state \in {"wait", "failed"}
    BY <1>2, <2>1, JobMoves
  <2>3. /\ sends'[b] - sends[b] = lost'[b] - lost[b] - InHand(b)
        /\ sends'[b] \in Nat /\ lost'[b] \in Nat
    BY <1>2, <1>14 DEF StepFails, SendRefused, SendUnanswered, Forgotten, InHand, At
  <2>4. QED
    BY <1>1, <1>2, <2>1, <2>2, <2>3, AttemptEnds
<1>15. CASE JobStalls(b)
  <2>1. job'[b].state \in {"wait", "failed"} /\ job[b].state = "active" /\ s.burn # b
    BY <1>2, <1>15, JobMoves DEF JobStalls
  <2>2. UNCHANGED <<row, s, sends, lost>>
    BY <1>15 DEF JobStalls
  <2>3. QED
    BY <1>1, <1>2, <1>3, <2>1, <2>2
       DEF AccountedFor, Filed, InHand, At, RowInv, JobInv, SignerInv, AdmitInv, Exists
<1>16. CASE JobTrimmed(b)
  <2>1. job'[b].state = "none" /\ job[b].state = "completed"
    BY <1>2, <1>16, JobMoves DEF JobTrimmed
  <2>2. UNCHANGED <<row, s, sends, lost>>
    BY <1>16 DEF JobTrimmed
  <2>3. QED
    BY <1>1, <1>2, <1>3, <2>1, <2>2
       DEF AccountedFor, Filed, InHand, At, RowInv, JobInv, SignerInv, AdmitInv, Exists
<1>17. QED
  BY <1>4, <1>6, <1>7, <1>8, <1>9, <1>10, <1>11, <1>12, <1>13, <1>14, <1>15, <1>16
     DEF SignerNext, SignerStep, SignerProgress

\* Every step of the signer keeps what is known of every burn.
LEMMA SignerBurns ==
    ASSUME NEW b \in Burn, IInv, SignerNext(b)
    PROVE  \A c \in Burn : BurnInv(c)'
<1> SUFFICES ASSUME NEW c \in Burn, c # b
             PROVE  BurnInv(c)'
  BY SignerBurn
<1>1. BurnInv(c) /\ TypeOK /\ b # 0 /\ c # 0
  BY BurnAssumption DEF IInv, Burn
<1>2. tip \in Nat /\ tip' = tip /\ mode' = mode
  BY <1>1, WatcherAssumption DEF SignerNext, TypeOK, WatcherTypeOK
<1>3. row'[c] = row[c] /\ job'[c] = job[c] /\ sends'[c] = sends[c] /\ lost'[c] = lost[c]
  BY <1>1 DEF SignerNext, SignerStep, SignerProgress, TakeJob, LoadRow, ValidateDestination,
              ClaimRelease, SendToAddress, SendRefused, RecordTxid, MarkBroadcast,
              ReconcileRelease, WriteAudit, LinkRelease, EndJob, StepFails, SendUnanswered,
              Throw, JobStalls, JobTrimmed, TypeOK, SharedTypeOK, SignerTypeOK
<1>4. s' = s \/ (s.burn \in {0, b} /\ s'.burn \in {0, b})
  <2>1. s \in Signer /\ (s.pc = "idle" => s.burn = 0)
    BY <1>1 DEF TypeOK, SignerTypeOK
  <2>2. ASSUME NEW pc \in SignerPc, s' = Goto(pc)
        PROVE  s'.burn = s.burn
    BY <2>1, <2>2, SignerSetPc DEF Goto
  <2>3. ASSUME NEW pc \in SignerPc, NEW n \in Nat, s' = [s EXCEPT !.pc = pc, !.txid = n]
        PROVE  s'.burn = s.burn
    BY <2>1, <2>3 DEF Signer
  <2>4. CASE TakeJob(b)
    <3>1. s' = [SIdle EXCEPT !.pc = "load", !.burn = b] /\ s.pc = "idle"
      BY <2>4 DEF TakeJob
    <3>2. s'.burn = b
      BY <3>1, BlankRecords DEF Signer
    <3>3. QED
      BY <2>1, <3>1, <3>2
  <2>5. CASE LoadRow(b) \/ ValidateDestination(b) \/ ClaimRelease(b) \/ MarkBroadcast(b)
             \/ ReconcileRelease(b) \/ WriteAudit(b) \/ LinkRelease(b)
    <3>1. PICK pc \in SignerPc : s' = Goto(pc) /\ s.burn = b
      BY <2>5, Values DEF LoadRow, ValidateDestination, ClaimRelease, MarkBroadcast,
                          ReconcileRelease, WriteAudit, LinkRelease, At
    <3>2. QED
      BY <2>2, <3>1
  <2>6. CASE SendToAddress(b)
    <3>1. sends[b] + 1 \in Nat
      BY <1>1 DEF TypeOK, SignerTypeOK
    <3>2. QED
      BY <2>3, <2>6, <3>1, Values DEF SendToAddress, At
  <2>7. CASE RecordTxid(b)
    BY <2>3, <2>7, Values DEF RecordTxid, At
  <2>8. CASE EndJob(b) \/ StepFails(b) \/ SendRefused(b) \/ SendUnanswered(b)
    BY <2>8, BlankRecords DEF EndJob, StepFails, SendRefused, SendUnanswered, Throw, At
  <2>9. CASE JobStalls(b) \/ JobTrimmed(b)
    BY <2>9 DEF JobStalls, JobTrimmed
  <2>10. QED
    BY <2>4, <2>5, <2>6, <2>7, <2>8, <2>9 DEF SignerNext, SignerStep, SignerProgress
<1>5. QED
  BY <1>1, <1>2, <1>3, <1>4, BurnFrame

\* No step of the signer makes or deletes a row.
LEMMA SignerScan ==
    ASSUME NEW b \in Burn, IInv, SignerNext(b)
    PROVE  WatcherInv' /\ CoverInv'
<1>1. \A c \in Burn : Exists(c)' = Exists(c)
  <2>1. ASSUME NEW status \in {"FAILED", "SIGNING", "BROADCAST"}, Exists(b),
               row' = [row EXCEPT ![b].status = status]
        PROVE  \A c \in Burn : Exists(c)' = Exists(c)
    <3>1. row'[b] = [row[b] EXCEPT !.status = status] /\ row[b] \in Withdrawal
      BY <2>1 DEF IInv, TypeOK, SharedTypeOK
    <3>2. row'[b].status = status
      BY <3>1, Values, RowSetStatus
    <3>3. QED
      BY <2>1, <3>2 DEF Exists, IInv, TypeOK, SharedTypeOK
  <2>2. BurnInv(b) /\ (s.burn = b => Exists(b))
    BY DEF IInv, BurnInv, RowInv, JobInv
  <2>3. CASE UNCHANGED row
    BY <2>3 DEF Exists
  <2>4. CASE RecordTxid(b)
    <3>1. row'[b] = [row[b] EXCEPT !.fairTxid = s.txid] /\ row[b] \in Withdrawal
          /\ s.txid \in Nat
      BY <2>4 DEF RecordTxid, IInv, TypeOK, SharedTypeOK, SignerTypeOK, Signer
    <3>2. row'[b].status = row[b].status
      BY <3>1, RowSetTxid
    <3>3. QED
      BY <2>4, <3>2 DEF RecordTxid, Exists, IInv, TypeOK, SharedTypeOK
  <2>5. CASE ValidateDestination(b) \/ ClaimRelease(b) \/ MarkBroadcast(b)
             \/ ReconcileRelease(b)
    BY <2>1, <2>2, <2>3, <2>5
       DEF ValidateDestination, ClaimRelease, MarkBroadcast, ReconcileRelease, At
  <2>6. QED
    BY <2>3, <2>4, <2>5
       DEF SignerNext, SignerStep, SignerProgress, TakeJob, LoadRow, SendToAddress,
           SendRefused, WriteAudit, LinkRelease, EndJob, StepFails, SendUnanswered, Throw,
           JobStalls, JobTrimmed
<1>2. UNCHANGED <<mode, tip, watcherVars, stops>> /\ tip \in Nat /\ stops \in Nat
  BY WatcherAssumption, ProcessAssumption
     DEF SignerNext, IInv, TypeOK, WatcherTypeOK
<1>3. stops = 0 => mode # "stopping"
  BY DEF IInv, WatcherInv
<1>4. QED
  BY <1>1, <1>2, <1>3, ScanFrame

-----------------------------------------------------------------------------
(***************************************************************************)
(* The process, the chain and the clock.                                   *)
(***************************************************************************)

\* A new program counter with nothing in hand keeps what is known of a burn,
\* if the payment in hand is counted as forgotten.
LEMMA BurnRestart ==
    ASSUME NEW b \in Burn, BurnInv(b), TypeOK, s'.burn = 0,
           UNCHANGED <<row, job, sends, tip>>, lost'[b] = lost[b] + InHand(b)
    PROVE  BurnInv(b)'
<1> USE BurnAssumption DEF BurnInv
<1>1. b # 0
  BY DEF Burn
<1>2. AccountedFor(b)'
  BY <1>1 DEF AccountedFor, Filed, InHand, At, TypeOK, SignerTypeOK
<1>3. RowInv(b)' /\ JobInv(b)' /\ SignerInv(b)' /\ AdmitInv(b)'
  BY <1>1 DEF RowInv, JobInv, SignerInv, AdmitInv, Exists, GrossSats
<1>4. QED
  BY <1>2, <1>3

\* A watcher that is off or idle, with the rows and the cursor as they were.
LEMMA ScanRestart ==
    ASSUME IInv, w'.pc \in {"off", "idle"}, UNCHANGED <<row, cursor, origin, stops>>,
           mode' # "stopping"
    PROVE  WatcherInv' /\ CoverInv'
BY DEF IInv, WatcherInv, CoverInv, Covered, InWindow, Exists

\* Every step of the process, the chain and the clock keeps the invariant.
LEMMA ProcessStep ==
    ASSUME IInv,
           Crash \/ Stop \/ Exit \/ Start \/ NewBlock \/ (\E b \in Burn : Age(b))
    PROVE  IInv'
<1>1. TypeOK' /\ TypeOK
  BY ProcessType DEF IInv
<1>2. WOff.pc = "off" /\ SOff.pc = "off" /\ SOff.burn = 0
  BY BlankRecords, Values, WatcherSetPc, SignerSetPc DEF WOff, SOff
<1>3. tip \in Nat /\ stops \in Nat /\ (stops = 0 => mode # "stopping")
      /\ lost \in [Burn -> Nat]
  BY <1>1, WatcherAssumption, ProcessAssumption
     DEF IInv, TypeOK, WatcherTypeOK, WatcherInv, SignerTypeOK
<1>4. CASE Crash
  <2>1. ASSUME NEW b \in Burn
        PROVE  lost'[b] = lost[b] + InHand(b)
    BY <1>3, <1>4 DEF Crash, Forgotten, InHand
  <2>2. \A b \in Burn : BurnInv(b)'
    BY <1>1, <1>2, <1>4, <2>1, BurnRestart DEF Crash, IInv
  <2>3. QED
    BY <1>1, <1>2, <1>4, <2>2, ScanRestart DEF Crash, IInv
<1>5. CASE Exit \/ Start
  <2>1. ASSUME NEW b \in Burn
        PROVE  InHand(b) = 0
    <3>1. s.burn = 0 \/ s.pc = "off"
      <4>1. CASE Exit
        BY <1>1, <4>1 DEF Exit, TypeOK, SignerTypeOK
      <4>2. CASE Start
        BY <1>1, <4>2 DEF Start, IInv, BurnInv, JobInv, TypeOK, SignerTypeOK, Signer, Burn
      <4>3. QED
        BY <1>5, <4>1, <4>2
    <3>2. QED
      BY <3>1, BurnAssumption DEF InHand, At, Burn
  <2>2. \A b \in Burn : BurnInv(b)'
    BY <1>1, <1>2, <1>3, <1>5, <2>1, BurnRestart, BlankRecords DEF Exit, Start, IInv
  <2>3. QED
    BY <1>1, <1>2, <1>5, <2>2, ScanRestart, BlankRecords DEF Exit, Start, IInv
<1>6. CASE Stop \/ NewBlock
  <2>1. \A b \in Burn : BurnInv(b)'
    BY <1>1, <1>3, <1>6, BurnFrame DEF Stop, NewBlock, IInv
  <2>2. \A c \in Burn : Exists(c)' = Exists(c)
    BY <1>6 DEF Stop, NewBlock, Exists
  <2>3. WatcherInv' /\ CoverInv'
    BY <1>3, <1>6, <2>2, ScanFrame DEF Stop, NewBlock, watcherVars
  <2>4. QED
    BY <1>1, <2>1, <2>3 DEF IInv
<1>7. ASSUME NEW b \in Burn, Age(b)
      PROVE  IInv'
  <2>1. row'[b] = [row[b] EXCEPT !.age = row[b].age + 1] /\ row[b] \in Withdrawal
        /\ \A c \in Burn : c # b => row'[c] = row[c]
    BY <1>1, <1>7 DEF Age, TypeOK, SharedTypeOK
  <2>2. row[b].age + 1 \in 0..2
    BY <1>7, <2>1 DEF Age, Withdrawal
  <2>3. row'[b].status = row[b].status /\ row'[b].sats = row[b].sats
        /\ row'[b].fairTxid = row[b].fairTxid
    BY <2>1, <2>2, RowSetAge
  <2>4. \A c \in Burn : BurnInv(c)'
    BY <1>1, <1>3, <1>7, <2>1, <2>3, BurnFrame DEF Age, IInv
  <2>5. \A c \in Burn : Exists(c)' = Exists(c)
    BY <2>1, <2>3 DEF Exists
  <2>6. WatcherInv' /\ CoverInv'
    BY <1>3, <1>7, <2>5, ScanFrame DEF Age, watcherVars
  <2>7. QED
    BY <1>1, <2>4, <2>6 DEF IInv
<1>8. QED
  BY <1>4, <1>5, <1>6, <1>7

-----------------------------------------------------------------------------
(***************************************************************************)
(* The theorems.                                                           *)
(***************************************************************************)

\* The invariant holds initially: nothing was burned, recorded or paid.
LEMMA InitIInv == Init => IInv
<1> SUFFICES ASSUME Init
             PROVE  IInv
  OBVIOUS
<1>1. TypeOK
  BY InitType
<1>2. ASSUME NEW b \in Burn
      PROVE  BurnInv(b)
  <2>1. row[b].status = "none" /\ row[b].fairTxid = 0 /\ job[b].state = "none"
    BY DEF Init, SharedInit, NoRow, NoJob
  <2>2. sends[b] = 0 /\ lost[b] = 0 /\ s.burn # b
    BY BlankRecords, BurnAssumption DEF Init, SignerInit, Burn
  <2>3. QED
    BY <2>1, <2>2 DEF BurnInv, AccountedFor, Filed, InHand, At, RowInv, JobInv, SignerInv,
                      AdmitInv, Exists
<1>3. WatcherInv
  BY BlankRecords DEF Init, SharedInit, WatcherInit, WatcherInv, InWindow
<1>4. CoverInv
  BY BlankRecords, BurnAssumption DEF Init, WatcherInit, CoverInv, Covered, InWindow
<1>5. QED
  BY <1>1, <1>2, <1>3, <1>4 DEF IInv

\* Every step keeps the invariant.
LEMMA StepIInv == IInv /\ [Next]_vars => IInv'
<1> SUFFICES ASSUME IInv, [Next]_vars
             PROVE  IInv'
  OBVIOUS
<1>1. TypeOK'
  BY TypeStep DEF IInv
<1>2. CASE WatcherNext
  BY <1>1, <1>2, WatcherBurns, WatcherScan DEF IInv
<1>3. ASSUME NEW b \in Burn, SignerNext(b)
      PROVE  IInv'
  BY <1>1, <1>3, SignerBurns, SignerScan DEF IInv
<1>4. CASE Crash \/ Stop \/ Exit \/ Start \/ NewBlock \/ (\E b \in Burn : Age(b))
  BY <1>4, ProcessStep
<1>5. CASE UNCHANGED vars
  <2>1. \A b \in Burn : BurnInv(b)'
    BY <1>5 DEF vars, IInv, BurnInv, AccountedFor, Filed, InHand, At, RowInv, JobInv,
                SignerInv, AdmitInv, Exists, GrossSats
  <2>2. WatcherInv' /\ CoverInv'
    BY <1>5 DEF vars, IInv, WatcherInv, CoverInv, Covered, InWindow, Exists, IsNext
  <2>3. QED
    BY <1>1, <2>1, <2>2 DEF IInv
<1>6. QED
  BY <1>2, <1>3, <1>4, <1>5 DEF Next

\* IInv is an invariant of the withdrawal pipeline.
THEOREM Invariance == Spec => []IInv
BY InitIInv, StepIInv, PTL DEF Spec

\* Type correctness of the withdrawal pipeline.
THEOREM TypeCorrect == Spec => []TypeOK
<1>1. IInv => TypeOK
  BY DEF IInv
<1>2. QED
  BY <1>1, Invariance, PTL

\* signRelease never adds a payment of its own: every payment for a burn is on
\* file, in the hands of signNodeWallet, or was forgotten through a kill or a
\* failed call, for any number of burns, attempts, kills and failures.
THEOREM PaymentsAreAccountedFor == Spec => []PaymentsAccountedFor
<1>1. IInv => PaymentsAccountedFor
  BY DEF IInv, BurnInv, PaymentsAccountedFor
<1>2. QED
  BY <1>1, Invariance, PTL

\* FAIR is paid only for a burn under BASE_CONFIRMATIONS blocks that has a
\* row, and never more sats than processLog read from the event.
THEOREM PaymentsAreBacked == Spec => []PaidOnlyForConfirmedBurns
<1>1. IInv => PaidOnlyForConfirmedBurns
  <2> SUFFICES ASSUME IInv, NEW b \in Burn, sends[b] > 0
               PROVE  /\ BurnLog[b].block + Confirmations <= tip
                      /\ Exists(b)
                      /\ row[b].sats <= GrossSats(b)
    BY DEF PaidOnlyForConfirmedBurns
  <2>1. RowInv(b) /\ AdmitInv(b)
    BY DEF IInv, BurnInv
  <2>2. QED
    BY <2>1 DEF RowInv, AdmitInv
<1>2. QED
  BY <1>1, Invariance, PTL

\* Without a SIGTERM, the base-watcher's cursor never passes a burn that has no
\* row, whatever kills and failures interrupt startBaseWatcher's loop.
THEOREM CursorNeverSkips == Spec => []CursorCovers
<1>1. IInv => CursorCovers
  BY DEF IInv, CoverInv, Covered, CursorCovers
<1>2. QED
  BY <1>1, Invariance, PTL

\* A row claimed by claimRelease keeps its job, and a completed job has paid.
THEOREM ClaimsKeepTheirJob == Spec => []ClaimedHasJob
<1>1. IInv => ClaimedHasJob
  BY DEF IInv, BurnInv, JobInv, ClaimedHasJob
<1>2. QED
  BY <1>1, Invariance, PTL

-----------------------------------------------------------------------------
(***************************************************************************)
(* The daily cap.  The sum processLog compares is over amounts stored in   *)
(* the rows, so it moves with what the rows say and not only with which    *)
(* burns are counted.  That the burns counted before another are those     *)
(* before it in the log rests on the order the windows are worked through. *)
(***************************************************************************)

\* Rows come in log order: a burn overtaken by a later one lies behind the
\* cursor, where no window reaches any more, and a window holds exactly the
\* logs ahead of the cursor that still have no row, or had none when it came
\* to them.
OrderInv ==
    /\ \A b, c \in Burn : c < b /\ Exists(b) /\ ~Exists(c) => BurnLog[c].block <= cursor
    /\ w.pc = "window" => w.to = cursor
    /\ InWindow =>
          /\ cursor <= w.to
          /\ \A b \in w.todo : cursor < BurnLog[b].block
          /\ \A b \in Burn : cursor < BurnLog[b].block /\ BurnLog[b].block <= w.to
                                => Exists(b) \/ b \in w.todo

\* What the watcher and the burns have in all the steps below.
LEMMA OrderTypes ==
    ASSUME IInv
    PROVE  /\ cursor \in Int /\ w \in Watcher /\ w.to \in Nat /\ w.safe \in Nat
           /\ w.todo \in SUBSET Burn
           /\ row \in [Burn -> Withdrawal]
           /\ \A b \in Burn : b \in Nat /\ BurnLog[b].block \in Nat
           /\ \A b, c \in Burn : b < c => BurnLog[b].block <= BurnLog[c].block
<1>1. w \in Watcher /\ row \in [Burn -> Withdrawal] /\ cursor \in Int
  BY DEF IInv, TypeOK, WatcherTypeOK, SharedTypeOK
<1>2. w.to \in Nat /\ w.safe \in Nat /\ w.todo \in SUBSET Burn
  BY <1>1 DEF Watcher
<1>3. \A b \in Burn : b \in Nat /\ BurnLog[b].block \in Nat
  BY BurnAssumption DEF Burn
<1>4. \A b, c \in Burn : b < c => BurnLog[b].block <= BurnLog[c].block
  BY BurnAssumption
<1>5. QED
  BY <1>1, <1>2, <1>3, <1>4

\* A step that makes no row and leaves the watcher and its cursor alone, or
\* sends the watcher out of its window, keeps the order.
LEMMA OrderFrame ==
    ASSUME IInv, OrderInv, cursor' = cursor,
           \A c \in Burn : Exists(c)' = Exists(c),
           w' = w \/ w'.pc \in {"off", "idle", "reconcile"}
    PROVE  OrderInv'
BY OrderTypes DEF OrderInv, InWindow

\* The loop over one window keeps it while it only drops handled logs.
LEMMA OrderWindow ==
    ASSUME IInv, OrderInv, cursor' = cursor, InWindow, InWindow',
           \A c \in Burn : Exists(c)' = Exists(c),
           w'.to = w.to, w'.todo \subseteq w.todo,
           \A c \in w.todo : c \in w'.todo \/ Exists(c)
    PROVE  OrderInv'
BY OrderTypes DEF OrderInv, InWindow

LEMMA OrderCreate ==
    ASSUME IInv, OrderInv, NEW b \in Burn, CreateRow(b)
    PROVE  OrderInv'
<1>1. /\ w.pc = "create" /\ IsNext(b) /\ cursor' = cursor /\ ~Exists(b)
      /\ InWindow /\ BurnLog[b].block <= w.to
  BY DEF CreateRow, IInv, WatcherInv, IsNext, InWindow
<1>2. Exists(b)' /\ \A c \in Burn : c # b => Exists(c)' = Exists(c)
  <2>1. NewRow("CONFIRMED", ReleaseSats(b)).status = "CONFIRMED"
        /\ NewRow("FAILED", GrossSats(b)).status = "FAILED"
    BY NewRowFields, Values, ReleaseSatsBound, GrossSatsType
  <2>2. QED
    BY <2>1, OrderTypes DEF CreateRow, Exists
<1>3. w'.to = w.to /\ w'.pc \in {"enqueue", "logs"} /\ w'.todo \in {w.todo, w.todo \ {b}}
  <2>1. CASE w.verdict = "admit"
    <3>1. w' = [w EXCEPT !.pc = "enqueue"] /\ w \in Watcher
      BY <2>1, OrderTypes DEF CreateRow
    <3>2. QED
      BY <3>1, Values, WatcherSetPc
  <2>2. CASE w.verdict # "admit"
    BY <2>2, OrderTypes, NextLogFields DEF CreateRow
  <2>3. QED
    BY <2>1, <2>2
<1>4. ASSUME NEW d \in Burn, NEW c \in Burn, c < d, Exists(d)', ~Exists(c)'
      PROVE  BurnLog[c].block <= cursor
  <2>1. c # b /\ ~Exists(c)
    BY <1>2, <1>4
  <2>2. CASE d # b
    BY <1>2, <1>4, <2>1, <2>2 DEF OrderInv
  <2>3. CASE d = b
    <3>1. c \notin w.todo
      BY <1>1, <1>4, <2>3, OrderTypes DEF IsNext
    <3>2. BurnLog[c].block <= w.to
      BY <1>1, <1>4, <2>3, OrderTypes
    <3>3. ~(cursor < BurnLog[c].block)
      BY <1>1, <2>1, <3>1, <3>2 DEF OrderInv
    <3>4. QED
      BY <3>3, OrderTypes
  <2>4. QED
    BY <2>2, <2>3
<1>5. QED
  BY <1>1, <1>2, <1>3, <1>4, OrderTypes DEF OrderInv, InWindow

\* Every step of the watcher keeps the order.
LEMMA OrderWatcher ==
    ASSUME IInv, OrderInv, WatcherNext
    PROVE  OrderInv'
<1> USE OrderTypes
<1>1. CASE ReadOrphans \/ EndTick \/ TickError
  <2>1. row' = row /\ cursor' = cursor
    BY <1>1 DEF ReadOrphans, EndTick, TickError
  <2>2. w'.pc \in {"idle", "reconcile"}
    BY <1>1, BlankRecords DEF ReadOrphans, EndTick, TickError, Watcher
  <2>3. QED
    BY <2>1, <2>2, OrderFrame DEF Exists
<1>2. ASSUME NEW b \in Burn, ReenqueueOrphan(b)
      PROVE  OrderInv'
  <2>1. row' = row /\ cursor' = cursor
    BY <1>2 DEF ReenqueueOrphan
  <2>2. w'.pc = "reconcile"
    BY <1>2, WatcherSetTodo DEF ReenqueueOrphan
  <2>3. QED
    BY <2>1, <2>2, OrderFrame DEF Exists
<1>3. CASE ReadTip
  <2>1. FirstCursor \in Nat /\ SafeTip \in Int
    BY WatcherAssumption DEF FirstCursor, SafeTip, IInv, TypeOK, WatcherTypeOK
  <2>2. PICK last \in Nat :
          /\ last = IF cursor = -1 THEN FirstCursor ELSE cursor
          /\ cursor' = last
          /\ w' = IF SafeTip > last
                  THEN [WIdle EXCEPT !.pc = "window", !.to = last, !.safe = SafeTip]
                  ELSE WIdle
          /\ row' = row
    BY <1>3, <2>1 DEF ReadTip, IInv, TypeOK, WatcherTypeOK
  <2>3. cursor <= last
    BY <2>1, <2>2
  <2>4. \/ w'.pc = "window" /\ w'.to = last
        \/ w'.pc = "idle"
    BY <2>1, <2>2, BlankRecords DEF Watcher
  <2>5. \A b, c \in Burn : c < b /\ Exists(b)' /\ ~Exists(c)' => BurnLog[c].block <= last
    BY <2>2, <2>3 DEF OrderInv, Exists
  <2>6. QED
    BY <2>2, <2>4, <2>5 DEF OrderInv, InWindow
<1>4. CASE FetchWindow
  <2> DEFINE end == WindowEnd(w.to + 1, w.safe)
             logs == {b \in Burn : BurnLog[b].block \in (w.to + 1)..end}
  <2>1. end \in Nat /\ w.to <= end /\ w.to = cursor /\ row' = row /\ cursor' = cursor
    BY <1>4, WatcherAssumption DEF WindowEnd, FetchWindow, OrderInv
  <2>2. w' = [w EXCEPT !.pc = "logs", !.to = end, !.todo = logs]
    BY <1>4 DEF FetchWindow
  <2>3. /\ logs \in SUBSET Burn
        /\ \A b \in logs : cursor < BurnLog[b].block
        /\ \A b \in Burn : cursor < BurnLog[b].block /\ BurnLog[b].block <= end => b \in logs
    BY <2>1
  <2> HIDE DEF end, logs
  <2>4. w'.pc = "logs" /\ w'.to = end /\ w'.todo = logs
    BY <2>1, <2>2, <2>3 DEF Watcher
  <2>5. QED
    BY <2>1, <2>3, <2>4 DEF OrderInv, InWindow, Exists
<1>5. ASSUME NEW b \in Burn, InspectLog(b) \/ EnqueueRelease(b)
      PROVE  OrderInv'
  <2>1. row' = row /\ cursor' = cursor /\ InWindow
    BY <1>5 DEF InspectLog, EnqueueRelease, InWindow
  <2>2. \/ /\ Exists(b) /\ b \in w.todo
           /\ w' = NextLog(b)
        \/ \E v \in Verdict : w' = [w EXCEPT !.pc = "create", !.verdict = v]
    BY <1>5, BurnAssumption
       DEF InspectLog, EnqueueRelease, JudgedBy, Verdict, IInv, WatcherInv, IsNext
  <2>3. CASE Exists(b) /\ b \in w.todo /\ w' = NextLog(b)
    <3>1. w'.pc = "logs" /\ w'.todo = w.todo \ {b} /\ w'.to = w.to
      BY <2>3, NextLogFields
    <3>2. QED
      BY <2>1, <2>3, <3>1, OrderWindow DEF InWindow, Exists
  <2>4. CASE \E v \in Verdict : w' = [w EXCEPT !.pc = "create", !.verdict = v]
    <3>1. w'.pc = "create" /\ w'.todo = w.todo /\ w'.to = w.to
      BY <2>4 DEF Watcher
    <3>2. QED
      BY <2>1, <3>1, OrderWindow DEF InWindow, Exists
  <2>5. QED
    BY <2>2, <2>3, <2>4
<1>6. CASE SaveCursor
  <2>1. w.pc = "logs" /\ cursor' = w.to /\ row' = row
    BY <1>6 DEF SaveCursor
  <2>2. w'.pc = "window" /\ w'.to = w.to
    BY <1>6 DEF SaveCursor, Watcher
  <2>3. cursor <= w.to
    BY <2>1 DEF OrderInv, InWindow
  <2>4. \A b, c \in Burn : c < b /\ Exists(b)' /\ ~Exists(c)' => BurnLog[c].block <= w.to
    BY <2>1, <2>3 DEF OrderInv, Exists
  <2>5. QED
    BY <2>1, <2>2, <2>4 DEF OrderInv, InWindow
<1>7. QED
  BY <1>1, <1>2, <1>3, <1>4, <1>5, <1>6, OrderCreate DEF WatcherNext, WatcherStep

\* The signer never makes or deletes a row, and never looks at the cursor.
LEMMA SignerKeepsRows ==
    ASSUME IInv, NEW b \in Burn, SignerNext(b) \/ Age(b)
    PROVE  \A c \in Burn : Exists(c)' = Exists(c)
<1>1. row \in [Burn -> Withdrawal] /\ row[b] \in Withdrawal /\ SignerInv(b)
  BY DEF IInv, TypeOK, SharedTypeOK, BurnInv
<1>2. ASSUME NEW status \in Status \ {"none"}, row' = [row EXCEPT ![b].status = status],
             Exists(b)
      PROVE  \A c \in Burn : Exists(c)' = Exists(c)
  BY <1>1, <1>2 DEF Exists, Withdrawal
<1>3. CASE RecordTxid(b) \/ Age(b)
  BY <1>1, <1>3 DEF RecordTxid, Age, Exists, Withdrawal
<1>4. CASE ValidateDestination(b) \/ ClaimRelease(b) \/ MarkBroadcast(b)
           \/ ReconcileRelease(b)
  BY <1>1, <1>2, <1>4, Values
     DEF ValidateDestination, ClaimRelease, Claimable, MarkBroadcast, ReconcileRelease,
         At, SignerInv, Exists
<1>5. CASE UNCHANGED row
  BY <1>5 DEF Exists
<1>6. QED
  BY <1>3, <1>4, <1>5
     DEF SignerNext, SignerStep, SignerProgress, TakeJob, LoadRow, SendToAddress,
         SendRefused, WriteAudit, LinkRelease, EndJob, StepFails, SendUnanswered, Throw,
         JobStalls, JobTrimmed

\* Every step keeps the order.
LEMMA OrderStep == IInv /\ OrderInv /\ [Next]_vars => OrderInv'
<1> SUFFICES ASSUME IInv, OrderInv, [Next]_vars
             PROVE  OrderInv'
  OBVIOUS
<1>1. CASE WatcherNext
  BY <1>1, OrderWatcher
<1>2. ASSUME NEW b \in Burn, SignerNext(b) \/ Age(b)
      PROVE  OrderInv'
  BY <1>2, SignerKeepsRows, OrderFrame DEF SignerNext, Age, watcherVars
<1>3. CASE Crash \/ Stop \/ Exit \/ Start \/ NewBlock \/ UNCHANGED vars
  <2>1. row' = row /\ cursor' = cursor
    BY <1>3 DEF Crash, Stop, Exit, Start, NewBlock, vars
  <2>2. w' \in {w, WOff, WIdle}
    BY <1>3 DEF Crash, Stop, Exit, Start, NewBlock, vars
  <2>3. WOff.pc = "off" /\ WIdle.pc = "idle"
    BY BlankRecords, Values, WatcherSetPc DEF WOff
  <2>4. QED
    BY <2>1, <2>2, <2>3, OrderFrame DEF Exists
<1>4. QED
  BY <1>1, <1>2, <1>3 DEF Next

LEMMA OrderInit == Init => OrderInv
BY BlankRecords DEF Init, SharedInit, WatcherInit, OrderInv, InWindow, Exists, NoRow

\* The sum before and after the burn at hand.
CapInv ==
    /\ DailyCapHolds
    /\ w.pc = "create" /\ w.verdict = "admit" => \A b \in w.todo :
          IsNext(b) => SumDaily(BurnLog[b].from) + GrossSats(b) <= DailyCap

\* What a burn adds to a sum over some of the burns in a given collection of
\* rows.
CountedIn(r, b) == r[b].status \in {"CONFIRMED", "SIGNING", "BROADCAST"} /\ r[b].age < 2

Share(r, S) == [b \in Burn |-> IF b \in S /\ CountedIn(r, b) THEN r[b].sats ELSE 0]

SumIn(r, S) == MapThenSumSet(LAMBDA b : r[b].sats, {b \in Burn : b \in S /\ CountedIn(r, b)})

\* The two sums there are: over the burns of a sender, and over those of them
\* before a burn.
BurnsOf(from) == {b \in Burn : BurnLog[b].from = from}

BurnsBefore(b) == {c \in Burn : c < b /\ BurnLog[c].from = BurnLog[b].from}

\* The burns are finitely many, and the amounts are naturals.
LEMMA SharesAreNat ==
    ASSUME NEW r \in [Burn -> Withdrawal], NEW S
    PROVE  IsFiniteSet(Burn) /\ \A b \in Burn : Share(r, S)[b] \in Nat
<1>1. IsFiniteSet(Burn)
  BY BurnAssumption, FS_Interval DEF Burn
<1>2. \A b \in Burn : r[b].sats \in Nat
  BY DEF Withdrawal
<1>3. QED
  BY <1>1, <1>2 DEF Share

\* The sum, as one over all burns.
LEMMA SumInIs ==
    ASSUME NEW r \in [Burn -> Withdrawal], NEW S
    PROVE  SumIn(r, S) = Total(Share(r, S), Burn) /\ SumIn(r, S) \in Nat
<1> DEFINE sats == [b \in Burn |-> r[b].sats]
           T == {b \in Burn : b \in S /\ CountedIn(r, b)}
           part == [b \in Burn |-> IF b \in T THEN sats[b] ELSE 0]
<1>1. SumIn(r, S) = Total(sats, T)
  BY ZenonT(60) DEF SumIn, Total, MapThenSumSet, MapThenFoldSet
<1>2. T \in SUBSET Burn /\ \A b \in T : sats[b] \in Int
  BY DEF Withdrawal
<1>3. Share(r, S) = part
  BY DEF Share
<1> HIDE DEF sats, T
<1>4. Total(sats, T) = Total(part, Burn)
  BY <1>2, SharesAreNat, TotalPart
<1>5. Total(Share(r, S), Burn) \in Nat
  BY SharesAreNat, TotalNat
<1>6. QED
  BY <1>1, <1>3, <1>4, <1>5

\* sumDailyWithdrawalSatsForAddress computes it, before and after a step.
LEMMA SumDailyIs ==
    ASSUME NEW from
    PROVE  /\ SumDaily(from) = SumIn(row, BurnsOf(from))
           /\ SumDaily(from)' = SumIn(row', BurnsOf(from))
<1>1. {b \in Burn : Counted(b) /\ BurnLog[b].from = from}
        = {b \in Burn : b \in BurnsOf(from) /\ CountedIn(row, b)}
  BY DEF BurnsOf, Counted, CountedIn
<1>2. {b \in Burn : Counted(b)' /\ BurnLog[b].from = from}
        = {b \in Burn : b \in BurnsOf(from) /\ CountedIn(row', b)}
  BY DEF BurnsOf, Counted, CountedIn
<1>3. SumDaily(from) = SumIn(row, BurnsOf(from))
  BY <1>1 DEF SumDaily, SumIn
<1>4. SumDaily(from)' = SumIn(row', BurnsOf(from))
  BY <1>2 DEF SumDaily, SumIn, MapThenSumSet, MapThenFoldSet
<1>5. QED
  BY <1>3, <1>4

\* So is what was admitted before a burn.
LEMMA SpentBeforeIs ==
    ASSUME NEW b \in Burn
    PROVE  /\ SpentBefore(b) = SumIn(row, BurnsBefore(b))
           /\ SpentBefore(b)' = SumIn(row', BurnsBefore(b))
<1>1. {c \in Burn : c < b /\ Counted(c) /\ BurnLog[c].from = BurnLog[b].from}
        = {c \in Burn : c \in BurnsBefore(b) /\ CountedIn(row, c)}
  BY DEF BurnsBefore, Counted, CountedIn
<1>2. {c \in Burn : c < b /\ Counted(c)' /\ BurnLog[c].from = BurnLog[b].from}
        = {c \in Burn : c \in BurnsBefore(b) /\ CountedIn(row', c)}
  BY DEF BurnsBefore, Counted, CountedIn
<1>3. SpentBefore(b) = SumIn(row, BurnsBefore(b))
  BY <1>1 DEF SpentBefore, SumIn
<1>4. SpentBefore(b)' = SumIn(row', BurnsBefore(b))
  BY <1>2 DEF SpentBefore, SumIn, MapThenSumSet, MapThenFoldSet
<1>5. QED
  BY <1>3, <1>4

\* Fewer burns, counted for no more than before, add up to no more.
LEMMA SumFalls ==
    ASSUME NEW r \in [Burn -> Withdrawal], NEW q \in [Burn -> Withdrawal], NEW S, NEW T,
           \A b \in Burn : b \in T /\ CountedIn(q, b)
                              => b \in S /\ CountedIn(r, b) /\ q[b].sats <= r[b].sats
    PROVE  SumIn(q, T) <= SumIn(r, S)
<1>1. \A b \in Burn : Share(q, T)[b] <= Share(r, S)[b]
  <2>1. \A b \in Burn : r[b].sats \in Nat
    BY DEF Withdrawal
  <2>2. QED
    BY <2>1 DEF Share
<1>2. Total(Share(q, T), Burn) <= Total(Share(r, S), Burn)
  BY <1>1, SharesAreNat, TotalMonotonic
<1>3. QED
  BY <1>2, SumInIs

\* A step that admits nothing and leaves the watcher where it is keeps the cap.
LEMMA CapFrame ==
    ASSUME TypeOK, TypeOK', CapInv,
           \A b \in Burn : CountedIn(row', b) => CountedIn(row, b) /\ row'[b].sats = row[b].sats,
           w'.pc = "create" => w' = w
    PROVE  CapInv'
<1>1. row \in [Burn -> Withdrawal] /\ row' \in [Burn -> Withdrawal] /\ DailyCap \in Nat
      /\ \A b \in Burn : row[b].sats \in Nat /\ GrossSats(b) \in Nat
  BY BurnAssumption, GrossSatsType DEF TypeOK, SharedTypeOK, Withdrawal
<1>2. ASSUME NEW S
      PROVE  SumIn(row', S) <= SumIn(row, S) /\ SumIn(row', S) \in Nat /\ SumIn(row, S) \in Nat
  BY <1>1, SumFalls, SumInIs
<1>3. ASSUME NEW b \in Burn, Counted(b)'
      PROVE  SpentBefore(b)' + GrossSats(b) <= DailyCap
  <2>1. Counted(b)
    BY <1>3 DEF Counted, CountedIn
  <2>2. SpentBefore(b) + GrossSats(b) <= DailyCap
    BY <2>1 DEF CapInv, DailyCapHolds
  <2>3. QED
    BY <1>1, <1>2, <2>2, SpentBeforeIs
<1>4. ASSUME w'.pc = "create", w'.verdict = "admit", NEW b \in w'.todo, IsNext(b)'
      PROVE  SumDaily(BurnLog[b].from)' + GrossSats(b) <= DailyCap
  <2> DEFINE from == BurnLog[b].from
  <2>1. w' = w /\ b \in w.todo /\ b \in Burn
    BY <1>4 DEF TypeOK, WatcherTypeOK, Watcher
  <2>2. SumDaily(from) + GrossSats(b) <= DailyCap
    BY <1>4, <2>1 DEF CapInv, IsNext
  <2> HIDE DEF from
  <2>3. SumDaily(from)' + GrossSats(b) <= DailyCap
    BY <1>1, <1>2, <2>1, <2>2, SumDailyIs
  <2>4. QED
    BY <2>3 DEF from
<1>5. QED
  BY <1>3, <1>4 DEF CapInv, DailyCapHolds, GrossSats

\* processLog compares before it writes, and what it writes is at most what it
\* compared.
LEMMA CapInspect ==
    ASSUME IInv, IInv', CapInv, NEW b \in Burn, InspectLog(b)
    PROVE  CapInv'
<1> USE DEF IInv
<1>1. row' = row /\ IsNext(b) /\ w \in Watcher /\ w.todo \in SUBSET Burn
  BY DEF InspectLog, TypeOK, WatcherTypeOK, Watcher
<1>2. CASE Exists(b)
  <2>1. w'.pc = "logs"
    BY <1>1, <1>2, NextLogFields DEF InspectLog
  <2>2. QED
    BY <1>1, <2>1, CapFrame
<1>3. CASE ~Exists(b)
  <2>1. PICK v \in Verdict : /\ w' = [w EXCEPT !.pc = "create", !.verdict = v]
                             /\ v = "admit" => ~OverCap(b)
    BY <1>3, BurnAssumption DEF InspectLog, JudgedBy, Verdict
  <2>2. w'.todo = w.todo /\ w'.verdict = v
    BY <1>1, <2>1 DEF Watcher
  <2>3. ASSUME NEW from PROVE SumDaily(from)' = SumDaily(from)
    BY <1>1, SumDailyIs
  <2>4. DailyCapHolds'
    BY <1>1, SpentBeforeIs DEF CapInv, DailyCapHolds, Counted, GrossSats
  <2>5. ASSUME v = "admit", NEW c \in w.todo, IsNext(c)'
        PROVE  SumDaily(BurnLog[c].from)' + GrossSats(c) <= DailyCap
    <3>1. c = b
      BY <1>1, <2>2, <2>5, NextIsUnique DEF IsNext
    <3> DEFINE from == BurnLog[b].from
    <3>2. SumDaily(from) \in Nat /\ GrossSats(b) \in Nat /\ DailyCap \in Nat
      BY SumInIs, SumDailyIs, GrossSatsType, BurnAssumption DEF TypeOK, SharedTypeOK
    <3>3. SumDaily(from) + GrossSats(b) <= DailyCap
      BY <2>1, <2>5, <3>2 DEF OverCap
    <3>4. SumDaily(from)' = SumDaily(from)
      <4> HIDE DEF from
      <4>1. QED
        BY <2>3
    <3>5. QED
      BY <3>1, <3>3, <3>4
  <2>6. QED
    BY <2>2, <2>4, <2>5 DEF CapInv, GrossSats
<1>4. QED
  BY <1>2, <1>3

LEMMA CapCreate ==
    ASSUME IInv, IInv', OrderInv, CapInv, NEW b \in Burn, CreateRow(b)
    PROVE  CapInv'
<1> USE DEF IInv
<1>1. w.pc = "create" /\ IsNext(b) /\ ~Exists(b) /\ w \in Watcher /\ b \in w.todo
      /\ row \in [Burn -> Withdrawal]
  BY DEF CreateRow, WatcherInv, IsNext, TypeOK, WatcherTypeOK, SharedTypeOK
<1>2. CASE w.verdict = "admit"
  <2>1. row' = [row EXCEPT ![b] = NewRow("CONFIRMED", ReleaseSats(b))]
        /\ w' = [w EXCEPT !.pc = "enqueue"]
    BY <1>2 DEF CreateRow
  <2>2. w'.pc = "enqueue"
    BY <1>1, <2>1, Values, WatcherSetPc
  <2>3. row'[b].sats = ReleaseSats(b) /\ \A c \in Burn : c # b => row'[c] = row[c]
    BY <1>1, <2>1, NewRowFields, Values, ReleaseSatsBound
  <2>4. row' \in [Burn -> Withdrawal] /\ \A c \in Burn : row[c].sats \in Nat
    BY <1>1 DEF TypeOK, SharedTypeOK, Withdrawal
  <2>5. /\ DailyCap \in Nat /\ \A c \in Burn : GrossSats(c) \in Nat
        /\ \A S : SumIn(row', S) \in Nat /\ SumIn(row, S) \in Nat
    BY <1>1, <2>4, BurnAssumption, GrossSatsType, SumInIs
  <2>6. ASSUME NEW e \in Burn, Counted(e)'
        PROVE  SpentBefore(e)' + GrossSats(e) <= DailyCap
    <3>1. CASE e # b
      <4>1. row'[e] = row[e] /\ Counted(e)
        BY <2>3, <2>6, <3>1 DEF Counted
      <4>2. b \notin BurnsBefore(e)
        <5>1. Exists(e)
          BY <4>1 DEF Counted, Exists
        <5>2. cursor < BurnLog[b].block
          BY <1>1 DEF OrderInv, InWindow
        <5>3. QED
          BY <1>1, <5>1, <5>2, OrderTypes DEF OrderInv, BurnsBefore
      <4>3. \A c \in Burn : c \in BurnsBefore(e) /\ CountedIn(row', c)
              => c \in BurnsBefore(e) /\ CountedIn(row, c) /\ row'[c].sats <= row[c].sats
        BY <2>3, <4>2, <2>4 DEF CountedIn
      <4>4. SumIn(row', BurnsBefore(e)) <= SumIn(row, BurnsBefore(e))
        BY <1>1, <2>4, <4>3, SumFalls
      <4>5. SpentBefore(e) + GrossSats(e) <= DailyCap
        BY <4>1 DEF CapInv, DailyCapHolds
      <4>6. QED
        BY <2>4, <2>5, <4>4, <4>5, SpentBeforeIs
    <3>2. CASE e = b
      <4> DEFINE from == BurnLog[b].from
      <4>1. SumDaily(from) + GrossSats(b) <= DailyCap
        BY <1>1, <1>2 DEF CapInv
      <4>2. \A c \in Burn : c \in BurnsBefore(b) /\ CountedIn(row', c)
              => c \in BurnsOf(from) /\ CountedIn(row, c) /\ row'[c].sats <= row[c].sats
        BY <2>3, <2>4, OrderTypes DEF CountedIn, BurnsBefore, BurnsOf
      <4> HIDE DEF from
      <4>3. SumIn(row', BurnsBefore(b)) <= SumIn(row, BurnsOf(from))
        BY <1>1, <2>4, <4>2, SumFalls
      <4>4. QED
        BY <2>4, <2>5, <3>2, <4>1, <4>3, SpentBeforeIs, SumDailyIs
    <3>3. QED
      BY <3>1, <3>2
  <2>7. QED
    BY <2>2, <2>6 DEF CapInv, DailyCapHolds, GrossSats
<1>3. CASE w.verdict # "admit"
  <2>1. row' = [row EXCEPT ![b] = NewRow("FAILED", GrossSats(b))] /\ w' = NextLog(b)
    BY <1>3 DEF CreateRow
  <2>2. row'[b].status = "FAILED" /\ \A c \in Burn : c # b => row'[c] = row[c]
    BY <1>1, <2>1, NewRowFields, Values, GrossSatsType
  <2>3. w'.pc = "logs"
    BY <1>1, <2>1, NextLogFields
  <2>4. \A c \in Burn : CountedIn(row', c) =>
                           CountedIn(row, c) /\ row'[c].sats = row[c].sats
    BY <2>2 DEF CountedIn
  <2>5. QED
    BY <2>3, <2>4, CapFrame
<1>4. QED
  BY <1>2, <1>3

\* The other steps of the watcher write no row.
LEMMA CapWatcher ==
    ASSUME IInv, IInv', OrderInv, CapInv, WatcherNext
    PROVE  CapInv'
<1>1. CASE \E b \in Burn : InspectLog(b)
  BY <1>1, CapInspect
<1>2. CASE \E b \in Burn : CreateRow(b)
  BY <1>2, CapCreate
<1>3. ASSUME row' = row, w'.pc # "create" PROVE CapInv'
  BY <1>3, CapFrame DEF IInv
<1>4. w \in Watcher
  BY DEF IInv, TypeOK, WatcherTypeOK
<1>5. CASE ReadOrphans \/ FetchWindow \/ EndTick \/ TickError \/ SaveCursor \/ ReadTip
  <2>1. row' = row
    BY <1>5 DEF ReadOrphans, FetchWindow, EndTick, TickError, SaveCursor, ReadTip
  <2>2. w'.pc # "create"
    BY <1>4, <1>5, BlankRecords
       DEF ReadOrphans, FetchWindow, EndTick, TickError, SaveCursor, ReadTip, Watcher
  <2>3. QED
    BY <1>3, <2>1, <2>2
<1>6. ASSUME NEW b \in Burn, ReenqueueOrphan(b) \/ EnqueueRelease(b)
      PROVE  CapInv'
  <2>1. row' = row
    BY <1>6 DEF ReenqueueOrphan, EnqueueRelease
  <2>2. w'.pc # "create"
    BY <1>4, <1>6, NextLogFields DEF ReenqueueOrphan, EnqueueRelease, Watcher
  <2>3. QED
    BY <1>3, <2>1, <2>2
<1>7. QED
  BY <1>1, <1>2, <1>5, <1>6 DEF WatcherNext, WatcherStep

\* The signer moves a row on, or fails it; time makes it older.
LEMMA CapSigner ==
    ASSUME IInv, IInv', CapInv, NEW b \in Burn, SignerNext(b) \/ Age(b)
    PROVE  CapInv'
<1> USE DEF IInv
<1>1. row \in [Burn -> Withdrawal] /\ row[b] \in Withdrawal /\ SignerInv(b) /\ w' = w
  BY DEF TypeOK, SharedTypeOK, BurnInv, SignerNext, Age, watcherVars
<1>2. \/ row' = row
      \/ /\ \A c \in Burn : c # b => row'[c] = row[c]
         /\ CountedIn(row', b) => CountedIn(row, b) /\ row'[b].sats = row[b].sats
  <2>1. ASSUME NEW status \in Status, row' = [row EXCEPT ![b].status = status],
               \/ row[b].status \in {"CONFIRMED", "SIGNING", "BROADCAST"}
               \/ status = "FAILED"
        PROVE  /\ \A c \in Burn : c # b => row'[c] = row[c]
               /\ CountedIn(row', b) => CountedIn(row, b) /\ row'[b].sats = row[b].sats
    <3>1. row'[b] = [row[b] EXCEPT !.status = status]
      BY <1>1, <2>1
    <3>2. row'[b].status = status /\ row'[b].age = row[b].age /\ row'[b].sats = row[b].sats
      BY <1>1, <3>1 DEF Withdrawal
    <3>3. QED
      BY <1>1, <2>1, <3>2 DEF CountedIn
  <2>2. CASE RecordTxid(b)
    <3>1. row'[b] = [row[b] EXCEPT !.fairTxid = s.txid]
          /\ \A c \in Burn : c # b => row'[c] = row[c]
      BY <1>1, <2>2 DEF RecordTxid
    <3>2. row'[b].status = row[b].status /\ row'[b].age = row[b].age
          /\ row'[b].sats = row[b].sats
      BY <1>1, <3>1 DEF Withdrawal
    <3>3. QED
      BY <3>1, <3>2 DEF CountedIn
  <2>3. CASE Age(b)
    <3>1. row'[b] = [row[b] EXCEPT !.age = row[b].age + 1] /\ row[b].age \in 0..2
          /\ \A c \in Burn : c # b => row'[c] = row[c]
      BY <1>1, <2>3 DEF Age, Withdrawal
    <3>2. row'[b].status = row[b].status /\ row'[b].age = row[b].age + 1
          /\ row'[b].sats = row[b].sats
      BY <1>1, <3>1 DEF Withdrawal
    <3>3. QED
      BY <3>1, <3>2 DEF CountedIn
  <2>4. CASE ValidateDestination(b) \/ ClaimRelease(b) \/ MarkBroadcast(b)
             \/ ReconcileRelease(b)
    BY <1>1, <2>1, <2>4, Values
       DEF ValidateDestination, ClaimRelease, Claimable, MarkBroadcast, ReconcileRelease,
           At, SignerInv
  <2>5. CASE UNCHANGED row
    BY <2>5
  <2>6. QED
    BY <2>2, <2>3, <2>4, <2>5
       DEF SignerNext, SignerStep, SignerProgress, TakeJob, LoadRow, SendToAddress,
           SendRefused, WriteAudit, LinkRelease, EndJob, StepFails, SendUnanswered, Throw,
           JobStalls, JobTrimmed
<1>3. \A c \in Burn : CountedIn(row', c) =>
                         CountedIn(row, c) /\ row'[c].sats = row[c].sats
  BY <1>2 DEF CountedIn
<1>4. QED
  BY <1>1, <1>3, CapFrame

\* Every step keeps the cap.
LEMMA CapStep == IInv /\ IInv' /\ OrderInv /\ CapInv /\ [Next]_vars => CapInv'
<1> SUFFICES ASSUME IInv, IInv', OrderInv, CapInv, [Next]_vars
             PROVE  CapInv'
  OBVIOUS
<1>1. CASE WatcherNext
  BY <1>1, CapWatcher
<1>2. ASSUME NEW b \in Burn, SignerNext(b) \/ Age(b)
      PROVE  CapInv'
  BY <1>2, CapSigner
<1>3. CASE Crash \/ Stop \/ Exit \/ Start \/ NewBlock \/ UNCHANGED vars
  <2>1. row' = row
    BY <1>3 DEF Crash, Stop, Exit, Start, NewBlock, vars
  <2>2. w' \in {w, WOff, WIdle}
    BY <1>3 DEF Crash, Stop, Exit, Start, NewBlock, vars
  <2>3. WOff.pc = "off" /\ WIdle.pc = "idle"
    BY BlankRecords, Values, WatcherSetPc DEF WOff
  <2>4. QED
    BY <2>1, <2>2, <2>3, CapFrame DEF IInv
<1>4. QED
  BY <1>1, <1>2, <1>3 DEF Next

\* Initially nothing is admitted.
LEMMA CapInit == Init => CapInv
BY BlankRecords DEF Init, SharedInit, WatcherInit, CapInv, DailyCapHolds, Counted, NoRow

\* Each burn processLog admitted within a day fits, before the fee, under
\* PER_ADDRESS_DAILY_CAP_FAIR on top of the sender's burns admitted before it,
\* after the fee, for any number of burns, kills and failures: the sum it read
\* stays a bound until it writes, and no earlier burn is admitted later.
THEOREM DailyCapIsKept == Spec => []DailyCapHolds
<1>1. CapInv => DailyCapHolds
  BY DEF CapInv
<1>2. Spec => []OrderInv
  BY Invariance, OrderInit, OrderStep, PTL DEF Spec
<1>3. QED
  BY <1>1, <1>2, Invariance, CapInit, CapStep, PTL DEF Spec

-----------------------------------------------------------------------------
(***************************************************************************)
(* The withdrawal pipeline implements PayoutLedger, for any burns, bounds  *)
(* and parameters.  Each step of BurnRelease either changes neither the    *)
(* payments, nor the txids on file, nor the class of a status, or is one   *)
(* step of the ledger; IInv says which.                                    *)
(***************************************************************************)

\* The refinement mapping of Ledger, by name.
FiledOf == [b \in Burn |-> row[b].fairTxid]

ClassOf(status) == CASE status = "BROADCAST" -> "settled"
                     [] status = "FAILED" -> "void"
                     [] OTHER -> "open"

StateOf == [b \in Burn |-> ClassOf(row[b].status)]

ledgerOf == <<sends, FiledOf, StateOf>>

\* What the signer and the ledger read of a row.
LEMMA OpenRow ==
    ASSUME NEW b \in Burn,
           row[b].status \in {"none", "CONFIRMED", "SIGNING"}
    PROVE  StateOf[b] = "open"
BY DEF StateOf, ClassOf

\* A step that touches no payment, no txid and no class is a stutter.
LEMMA StutterStep ==
    ASSUME sends' = sends,
           \A b \in Burn : /\ row'[b].fairTxid = row[b].fairTxid
                           /\ ClassOf(row'[b].status) = ClassOf(row[b].status)
    PROVE  UNCHANGED ledgerOf
<1>1. FiledOf' = FiledOf
  BY DEF FiledOf
<1>2. StateOf' = StateOf
  BY DEF StateOf, ClassOf
<1>3. QED
  BY <1>1, <1>2 DEF ledgerOf


\* The ledger's actions in terms of the mapping.
LEMMA LedgerActions ==
    ASSUME NEW b \in Burn,
           \/ /\ StateOf[b] = "open" /\ FiledOf[b] = 0
              /\ sends' = [sends EXCEPT ![b] = @ + 1]
              /\ FiledOf' = FiledOf /\ StateOf' = StateOf
           \/ /\ StateOf[b] = "open" /\ FiledOf[b] = 0 /\ sends[b] > 0
              /\ FiledOf' = [FiledOf EXCEPT ![b] = sends[b]]
              /\ sends' = sends /\ StateOf' = StateOf
           \/ /\ StateOf[b] = "open" /\ FiledOf[b] # 0
              /\ StateOf' = [StateOf EXCEPT ![b] = "settled"]
              /\ sends' = sends /\ FiledOf' = FiledOf
           \/ /\ StateOf[b] = "open" /\ FiledOf[b] = 0
              /\ StateOf' = [StateOf EXCEPT ![b] = "void"]
              /\ sends' = sends /\ FiledOf' = FiledOf
    PROVE  Ledger!LedgerNext
<1>1. Ledger!Pay(b) \/ Ledger!File(b) \/ Ledger!Settle(b) \/ Ledger!Void(b)
  BY DEF Ledger!Pay, Ledger!File, Ledger!Settle, Ledger!Void, FiledOf, StateOf, ClassOf
<1>2. QED
  BY <1>1 DEF Ledger!LedgerNext

\* sendToAddress while no txid is on file.
LEMMA PayStep ==
    ASSUME NEW b \in Burn, row' = row,
           sends' = [sends EXCEPT ![b] = @ + 1],
           row[b].status = "SIGNING", row[b].fairTxid = 0
    PROVE  Ledger!LedgerNext
<1>1. FiledOf' = FiledOf /\ StateOf' = StateOf
  BY DEF FiledOf, StateOf
<1>2. StateOf[b] = "open" /\ FiledOf[b] = 0
  BY OpenRow DEF FiledOf
<1>3. QED
  BY <1>1, <1>2, LedgerActions

\* One txid goes on file.
LEMMA FiledUpdate ==
    ASSUME NEW b \in Burn, NEW n,
           \A c \in Burn : c # b => row'[c] = row[c],
           row'[b].fairTxid = n
    PROVE  FiledOf' = [FiledOf EXCEPT ![b] = n]
BY DEF FiledOf

\* The write of the txid.
LEMMA FileStep ==
    ASSUME TypeOK, NEW b \in Burn, sends' = sends,
           row' = [row EXCEPT ![b].fairTxid = sends[b]],
           row[b].status = "SIGNING", row[b].fairTxid = 0, sends[b] > 0
    PROVE  Ledger!LedgerNext
<1>1. row \in [Burn -> Withdrawal] /\ sends[b] \in Nat
  BY DEF TypeOK, SharedTypeOK, SignerTypeOK
<1>2. \A c \in Burn : row[c] \in Withdrawal
  BY <1>1
<1>3. row'[b] = [row[b] EXCEPT !.fairTxid = sends[b]]
  BY <1>1
<1>4. row'[b].fairTxid = sends[b] /\ row'[b].status = row[b].status
  BY <1>1, <1>2, <1>3, RowSetTxid
<1>5. \A c \in Burn : c # b => row'[c] = row[c]
  BY <1>1
<1>6. FiledOf' = [FiledOf EXCEPT ![b] = sends[b]]
  BY <1>4, <1>5, FiledUpdate
<1>7. StateOf' = StateOf
  BY <1>4, <1>5 DEF StateOf
<1>8. StateOf[b] = "open" /\ FiledOf[b] = 0
  BY OpenRow DEF FiledOf
<1>9. QED
  BY <1>6, <1>7, <1>8, LedgerActions

\* A status that leaves the open class: BROADCAST with the txid on file,
\* FAILED without one.
LEMMA CloseStep ==
    ASSUME NEW b \in Burn, sends' = sends,
           \A c \in Burn : c # b => row'[c] = row[c],
           row'[b].fairTxid = row[b].fairTxid,
           row[b].status \in {"none", "CONFIRMED", "SIGNING"},
           \/ row'[b].status = "BROADCAST" /\ row[b].fairTxid # 0
           \/ row'[b].status = "FAILED" /\ row[b].fairTxid = 0
    PROVE  Ledger!LedgerNext
<1>1. FiledOf' = FiledOf
  BY DEF FiledOf
<1>2. StateOf[b] = "open" /\ FiledOf[b] = row[b].fairTxid
  BY OpenRow DEF FiledOf
<1>3. CASE row'[b].status = "BROADCAST" /\ row[b].fairTxid # 0
  <2>1. StateOf' = [StateOf EXCEPT ![b] = "settled"]
    BY <1>3 DEF StateOf, ClassOf
  <2>2. QED
    BY <1>1, <1>2, <1>3, <2>1, LedgerActions
<1>4. CASE row'[b].status = "FAILED" /\ row[b].fairTxid = 0
  <2>1. StateOf' = [StateOf EXCEPT ![b] = "void"]
    BY <1>4 DEF StateOf, ClassOf
  <2>2. QED
    BY <1>1, <1>2, <1>4, <2>1, LedgerActions
<1>5. QED
  BY <1>3, <1>4


\* Facts of the types and the invariant, for one row.
LEMMA RowFacts ==
    ASSUME IInv, NEW b \in Burn
    PROVE  /\ row[b] \in Withdrawal
           /\ row \in [Burn -> Withdrawal]
           /\ RowInv(b) /\ SignerInv(b)
BY DEF IInv, BurnInv, TypeOK, SharedTypeOK

\* One assignment to the status of one row.
LEMMA StatusUpdate ==
    ASSUME IInv, NEW b \in Burn, NEW status \in Status,
           row' = [row EXCEPT ![b].status = status]
    PROVE  /\ \A c \in Burn : c # b => row'[c] = row[c]
           /\ row'[b].fairTxid = row[b].fairTxid
           /\ row'[b].status = status
<1>1. row[b] \in Withdrawal /\ row \in [Burn -> Withdrawal]
  BY RowFacts
<1>2. row'[b] = [row[b] EXCEPT !.status = status]
  BY <1>1
<1>3. QED
  BY <1>1, <1>2, RowSetStatus

\* The signer's steps.
LEMMA SignerImplements ==
    ASSUME IInv, NEW b \in Burn, SignerStep(b)
    PROVE  Ledger!LedgerNext \/ UNCHANGED ledgerOf
<1>1. RowInv(b) /\ SignerInv(b) /\ row[b] \in Withdrawal /\ TypeOK
  BY RowFacts DEF IInv
<1>2. CASE UNCHANGED <<row, sends>>
  BY <1>2, StutterStep
<1>3. CASE ValidateDestination(b)
  <2>1. CASE UNCHANGED row
    BY <1>2, <1>3, <2>1 DEF ValidateDestination
  <2>2. CASE row' = [row EXCEPT ![b].status = "FAILED"]
    <3>1. /\ sends' = sends
          /\ row[b].status \in {"CONFIRMED", "SIGNING"} /\ row[b].fairTxid = 0
      BY <1>1, <1>3 DEF ValidateDestination, SignerInv, At
    <3>2. /\ \A c \in Burn : c # b => row'[c] = row[c]
          /\ row'[b].fairTxid = row[b].fairTxid
          /\ row'[b].status = "FAILED"
      BY <2>2, StatusUpdate, Values
    <3>3. QED
      BY <3>1, <3>2, CloseStep
  <2>3. QED
    BY <1>3, <2>1, <2>2 DEF ValidateDestination
<1>4. CASE ClaimRelease(b)
  <2>1. CASE UNCHANGED row
    BY <1>2, <1>4, <2>1 DEF ClaimRelease
  <2>2. CASE Claimable(b) /\ row' = [row EXCEPT ![b].status = "SIGNING"]
    <3>1. sends' = sends /\ row[b].status \in {"CONFIRMED", "SIGNING"}
      BY <1>4, <2>2 DEF ClaimRelease, Claimable
    <3>2. /\ \A c \in Burn : c # b => row'[c] = row[c]
          /\ row'[b].fairTxid = row[b].fairTxid
          /\ row'[b].status = "SIGNING"
      BY <2>2, StatusUpdate, Values
    <3>3. ClassOf(row'[b].status) = ClassOf(row[b].status)
      BY <3>1, <3>2 DEF ClassOf
    <3>4. QED
      BY <3>1, <3>2, <3>3, StutterStep
  <2>3. QED
    BY <1>4, <2>1, <2>2 DEF ClaimRelease
<1>5. CASE SendToAddress(b) \/ SendUnanswered(b)
  <2>1. row' = row /\ sends' = [sends EXCEPT ![b] = @ + 1] /\ At(b, "send")
    BY <1>5 DEF SendToAddress, SendUnanswered
  <2>2. row[b].status = "SIGNING" /\ row[b].fairTxid = 0
    BY <1>1, <2>1 DEF SignerInv, At
  <2>3. QED
    BY <2>1, <2>2, PayStep
<1>6. CASE RecordTxid(b)
  <2>1. /\ row[b].status = "SIGNING" /\ row[b].fairTxid = 0
        /\ s.txid = sends[b] /\ sends[b] > 0
    BY <1>1, <1>6 DEF RecordTxid, SignerInv, At
  <2>2. row' = [row EXCEPT ![b].fairTxid = sends[b]] /\ sends' = sends
    BY <1>6, <2>1 DEF RecordTxid
  <2>3. QED
    BY <1>1, <2>1, <2>2, FileStep
<1>7. CASE MarkBroadcast(b) \/ ReconcileRelease(b)
  <2>1. row' = [row EXCEPT ![b].status = "BROADCAST"] /\ sends' = sends
    BY <1>7 DEF MarkBroadcast, ReconcileRelease
  <2>2. row[b].status = "SIGNING" /\ row[b].fairTxid # 0
    BY <1>1, <1>7 DEF MarkBroadcast, ReconcileRelease, SignerInv, At
  <2>3. /\ \A c \in Burn : c # b => row'[c] = row[c]
        /\ row'[b].fairTxid = row[b].fairTxid
        /\ row'[b].status = "BROADCAST"
    BY <2>1, StatusUpdate, Values
  <2>4. QED
    BY <2>1, <2>2, <2>3, CloseStep
<1>8. CASE TakeJob(b) \/ LoadRow(b) \/ SendRefused(b) \/ WriteAudit(b) \/ LinkRelease(b)
           \/ EndJob(b) \/ StepFails(b) \/ JobStalls(b) \/ JobTrimmed(b)
  BY <1>2, <1>8 DEF TakeJob, LoadRow, SendRefused, WriteAudit, LinkRelease, EndJob,
                    StepFails, JobStalls, JobTrimmed
<1>9. QED
  BY <1>3, <1>4, <1>5, <1>6, <1>7, <1>8 DEF SignerStep, SignerProgress

\* The watcher creates rows, and does nothing else to them.
LEMMA WatcherImplements ==
    ASSUME IInv, WatcherNext
    PROVE  Ledger!LedgerNext \/ UNCHANGED ledgerOf
<1>1. sends' = sends
  BY DEF WatcherNext
<1>2. CASE UNCHANGED row
  BY <1>1, <1>2, StutterStep
<1>3. ASSUME NEW b \in Burn, CreateRow(b)
      PROVE  Ledger!LedgerNext \/ UNCHANGED ledgerOf
  <2>1. row \in [Burn -> Withdrawal] /\ RowInv(b)
    BY RowFacts
  <2>2. row[b].status = "none" /\ row[b].fairTxid = 0
    BY <1>3, <2>1 DEF IInv, WatcherInv, CreateRow, IsNext, Exists, RowInv
  <2>3. PICK status \in {"CONFIRMED", "FAILED"}, sats \in Nat :
           row' = [row EXCEPT ![b] = NewRow(status, sats)]
    BY <1>3, GrossSatsType, ReleaseSatsBound DEF CreateRow
  <2>4. /\ row'[b].status = status /\ row'[b].fairTxid = 0
        /\ \A c \in Burn : c # b => row'[c] = row[c]
    BY <2>1, <2>3, NewRowFields, Values
  <2>5. CASE status = "FAILED"
    BY <1>1, <2>2, <2>4, <2>5, CloseStep
  <2>6. CASE status = "CONFIRMED"
    <3>1. ClassOf(row'[b].status) = ClassOf(row[b].status)
      BY <2>2, <2>4, <2>6 DEF ClassOf
    <3>2. QED
      BY <1>1, <2>2, <2>4, <3>1, StutterStep
  <2>7. QED
    BY <2>5, <2>6
<1>4. UNCHANGED row \/ \E b \in Burn : CreateRow(b)
  BY DEF WatcherNext, WatcherStep, ReadOrphans, ReenqueueOrphan, ReadTip, FetchWindow,
         EndTick, InspectLog, EnqueueRelease, SaveCursor, TickError
<1>5. QED
  BY <1>2, <1>3, <1>4

\* Time touches only the age of a row.
LEMMA AgeImplements ==
    ASSUME IInv, NEW b \in Burn, Age(b)
    PROVE  UNCHANGED ledgerOf
<1>1. row \in [Burn -> Withdrawal] /\ row[b] \in Withdrawal
  BY RowFacts
<1>2. row[b].age \in 0..2 /\ row[b].age < 2
  BY <1>1 DEF Age, Withdrawal
<1>3. row'[b] = [row[b] EXCEPT !.age = row[b].age + 1]
  BY <1>1 DEF Age
<1>4. row'[b].status = row[b].status /\ row'[b].fairTxid = row[b].fairTxid
  BY <1>1, <1>2, <1>3, RowSetAge
<1>5. \A c \in Burn : c # b => row'[c] = row[c]
  BY <1>1 DEF Age
<1>6. sends' = sends
  BY DEF Age
<1>7. QED
  BY <1>4, <1>5, <1>6, StutterStep

LEMMA StepImplements ==
    ASSUME IInv, [Next]_vars
    PROVE  [Ledger!LedgerNext]_ledgerOf
<1>1. CASE WatcherNext
  BY <1>1, WatcherImplements
<1>2. CASE \E b \in Burn : SignerNext(b)
  BY <1>2, SignerImplements DEF SignerNext
<1>3. CASE Crash \/ Stop \/ Exit \/ Start \/ NewBlock \/ UNCHANGED vars
  <2>1. row' = row /\ sends' = sends
    BY <1>3 DEF Crash, Stop, Exit, Start, NewBlock, vars
  <2>2. QED
    BY <2>1, StutterStep
<1>4. CASE \E b \in Burn : Age(b)
  BY <1>4, AgeImplements
<1>5. QED
  BY <1>1, <1>2, <1>3, <1>4 DEF Next

LEMMA InitImplements == Init => Ledger!LedgerInit
<1>1. ASSUME Init PROVE Ledger!LedgerInit
  <2>1. row = [b \in Burn |-> NoRow] /\ sends = [b \in Burn |-> 0]
    BY <1>1 DEF Init, SharedInit, SignerInit
  <2>2. \A b \in Burn : row[b].fairTxid = 0 /\ row[b].status = "none"
    BY <2>1 DEF NoRow
  <2>3. QED
    BY <2>1, <2>2 DEF Ledger!LedgerInit
<1>2. QED
  BY <1>1

\* The release pipeline keeps the promise of PayoutLedger: sendToAddress runs
\* only while no txid is on file, BROADCAST is written only with one, both for
\* good, and FAILED only without one.
THEOREM ReleaseImplementsLedger == Spec => ReleaseIsLedger
<1>1. IInv /\ [Next]_vars => [Ledger!LedgerNext]_(Ledger!ledger)
  BY StepImplements DEF ledgerOf, FiledOf, StateOf, ClassOf, Ledger!ledger
<1>2. QED
  BY <1>1, InitImplements, Invariance, PTL DEF Spec, ReleaseIsLedger, Ledger!LedgerSpec
=============================================================================
