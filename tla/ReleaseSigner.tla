---------------------------- MODULE ReleaseSigner ----------------------------
(***************************************************************************)
(* signer/fair.ts run by the release worker of workers/orchestrator.ts:    *)
(* pays the FAIR of a withdrawal from the node's hot wallet.  One worker,  *)
(* concurrency 1, so at most one job is in hand; one step per awaited      *)
(* call.  A call that rejects ends the attempt (StepFails).                *)
(***************************************************************************)
EXTENDS Withdrawals

VARIABLES
    s,        \* the worker's place in signRelease and its local variables
    sends,    \* sends[b]: payments the FairCoin node made for burn b
    lost,     \* history: payments whose txid the service forgot
    linked    \* burns whose release was threaded back to a buy order

signerVars == <<s, sends, lost, linked>>

\* pc names the call about to be made; done, giveup: how the attempt ends.
SignerPc == {"off", "idle", "load", "validate", "claim", "send", "record",
             "mark", "reconcile", "audit", "link", "done", "giveup"}

Signer == [pc : SignerPc, burn : 0..NumBurns, txid : Nat]

SIdle == [pc |-> "idle", burn |-> 0, txid |-> 0]
SOff == [SIdle EXCEPT !.pc = "off"]

SignerTypeOK ==
    /\ s \in Signer
    /\ (s.burn = 0) <=> (s.pc \in {"off", "idle"})
    /\ sends \in [Burn -> Nat]
    /\ lost \in [Burn -> Nat]
    /\ linked \in SUBSET Burn

SignerInit ==
    /\ s = SIdle
    /\ sends = [b \in Burn |-> 0]
    /\ lost = [b \in Burn |-> 0]
    /\ linked = {}

At(b, pc) == s.burn = b /\ s.pc = pc
Goto(pc) == [s EXCEPT !.pc = pc]

-----------------------------------------------------------------------------
TakeJob(b) ==
    /\ mode = "up" /\ s.pc = "idle"
    /\ job[b].state = "wait"
    /\ job' = [job EXCEPT ![b] = Started(@)]
    /\ s' = [SIdle EXCEPT !.pc = "load", !.burn = b]
    /\ UNCHANGED <<row, errors, sends, lost, linked>>

\* Mutant: the txid on file does not keep the attempt from validating.
LoadRow_Mutant(b) ==
    /\ At(b, "load")
    /\ s' = Goto(CASE row[b].status = "BROADCAST" -> "done"
                   [] row[b].status = "FAILED" -> "giveup"
                   [] OTHER -> "validate")
    /\ UNCHANGED <<row, job, errors, sends, lost, linked>>

\* signRelease reads the row.  A txid on file leads to reconciliation, never
\* to a new payment.
LoadRow(b) ==
    /\ At(b, "load")
    /\ s' = Goto(CASE row[b].status = "BROADCAST" -> "done"
                   [] row[b].status = "FAILED" -> "giveup"
                   [] row[b].status = "CONFIRMED" /\ row[b].fairTxid # 0 -> "done"
                   [] row[b].status = "SIGNING" /\ row[b].fairTxid # 0 -> "reconcile"
                   [] OTHER -> "validate")
    /\ UNCHANGED <<row, job, errors, sends, lost, linked>>

\* validateaddress once more, on every attempt without a txid.
ValidateDestination(b) ==
    /\ At(b, "validate")
    /\ \/ /\ TRUE \in Verdicts[b]
          /\ s' = Goto("claim")
          /\ UNCHANGED row
       \/ /\ FALSE \in Verdicts[b]
          /\ row' = [row EXCEPT ![b].status = "FAILED"]
          /\ s' = Goto("giveup")
    /\ UNCHANGED <<job, errors, sends, lost, linked>>

\* claimRelease: CONFIRMED or SIGNING with a null txid becomes SIGNING.
Claimable(b) == row[b].status \in {"CONFIRMED", "SIGNING"} /\ row[b].fairTxid = 0

ClaimRelease(b) ==
    /\ At(b, "claim")
    /\ IF Claimable(b)
       THEN /\ row' = [row EXCEPT ![b].status = "SIGNING"]
            /\ s' = Goto("send")
       ELSE /\ s' = Goto(IF row[b].status = "SIGNING" THEN "reconcile" ELSE "done")
            /\ UNCHANGED row
    /\ UNCHANGED <<job, errors, sends, lost, linked>>

\* sendtoaddress pays and its answer arrives.  The node refuses amount 0.
SendToAddress(b) ==
    /\ At(b, "send") /\ row[b].sats > 0
    /\ sends' = [sends EXCEPT ![b] = @ + 1]
    /\ s' = [s EXCEPT !.pc = "record", !.txid = sends[b] + 1]
    /\ UNCHANGED <<row, job, errors, lost, linked>>

\* Mutant: the failure of this updateOne is swallowed.
RecordTxid_Mutant(b) ==
    /\ At(b, "record")
    /\ s' = [s EXCEPT !.pc = "mark", !.txid = 0]
    /\ UNCHANGED <<row, job, errors, sends, lost, linked>>

RecordTxid(b) ==
    /\ At(b, "record")
    /\ row' = [row EXCEPT ![b].fairTxid = s.txid]
    /\ s' = [s EXCEPT !.pc = "mark", !.txid = 0]
    /\ UNCHANGED <<job, errors, sends, lost, linked>>

MarkBroadcast(b) ==
    /\ At(b, "mark")
    /\ row' = [row EXCEPT ![b].status = "BROADCAST"]
    /\ s' = Goto("audit")
    /\ UNCHANGED <<job, errors, sends, lost, linked>>

\* fairTxExists found the payment of an earlier attempt on the node.
ReconcileRelease(b) ==
    /\ At(b, "reconcile")
    /\ row' = [row EXCEPT ![b].status = "BROADCAST"]
    /\ s' = Goto("audit")
    /\ UNCHANGED <<job, errors, sends, lost, linked>>

WriteAudit(b) ==
    /\ At(b, "audit")
    /\ s' = Goto("link")
    /\ UNCHANGED <<row, job, errors, sends, lost, linked>>

\* linkReleaseToBuyOrder; its own failure is swallowed.
LinkRelease(b) ==
    /\ At(b, "link")
    /\ s' = Goto("done")
    /\ \/ linked' = linked \cup {b} /\ UNCHANGED errors
       \/ Fault /\ UNCHANGED linked
    /\ UNCHANGED <<row, job, sends, lost>>

EndJob(b) ==
    /\ \/ At(b, "done") /\ job' = [job EXCEPT ![b] = Completed(@)]
       \/ At(b, "giveup") /\ job' = [job EXCEPT ![b] = GivenUp(@)]
    /\ s' = SIdle
    /\ UNCHANGED <<row, errors, sends, lost, linked>>

-----------------------------------------------------------------------------
\* A payment whose txid is only in memory is forgotten when the attempt or
\* the process ends.
Forgotten(b) == IF At(b, "record") THEN lost[b] + 1 ELSE lost[b]

\* Mutant: the catch of signRelease logs the error and does not rethrow.
Throw_Mutant(b) ==
    /\ job' = [job EXCEPT ![b] = Completed(@)]
    /\ s' = SIdle

Throw(b) ==
    /\ job' = [job EXCEPT ![b] = Thrown(@)]
    /\ s' = SIdle

\* A call rejects without effect: the attempt is over.  "reconcile" includes
\* the node that does not know the txid on file.
StepFails(b) ==
    /\ s.burn = b
    /\ s.pc \in {"load", "validate", "claim", "send", "record", "mark",
                 "reconcile", "audit"}
    /\ Fault
    /\ Throw(b)
    /\ lost' = [lost EXCEPT ![b] = Forgotten(b)]
    /\ UNCHANGED <<row, sends, linked>>

\* The node refuses to send nothing, however often it is asked.
SendRefused(b) ==
    /\ At(b, "send") /\ row[b].sats = 0
    /\ Throw(b)
    /\ UNCHANGED <<row, errors, sends, lost, linked>>

\* sendtoaddress pays and its answer does not arrive.
SendUnanswered(b) ==
    /\ At(b, "send") /\ row[b].sats > 0
    /\ Fault
    /\ Throw(b)
    /\ sends' = [sends EXCEPT ![b] = @ + 1]
    /\ lost' = [lost EXCEPT ![b] = @ + 1]
    /\ UNCHANGED <<row, linked>>

\* The stalled-job check finds an active job nobody is processing.
JobStalls(b) ==
    /\ mode = "up" /\ job[b].state = "active" /\ s.burn # b
    /\ job' = [job EXCEPT ![b] = Unstalled(@)]
    /\ UNCHANGED <<row, errors, s, sends, lost, linked>>

JobTrimmed(b) ==
    /\ job[b].state = "completed"
    /\ job' = [job EXCEPT ![b] = Trimmed(@)]
    /\ UNCHANGED <<row, errors, s, sends, lost, linked>>

\* One attempt at a job, from load to its end, when nothing fails.
SignerProgress(b) ==
    \/ TakeJob(b)
    \/ LoadRow(b)
    \/ ValidateDestination(b)
    \/ ClaimRelease(b)
    \/ SendToAddress(b)
    \/ SendRefused(b)
    \/ RecordTxid(b)
    \/ MarkBroadcast(b)
    \/ ReconcileRelease(b)
    \/ WriteAudit(b)
    \/ LinkRelease(b)
    \/ EndJob(b)

SignerStep(b) ==
    \/ SignerProgress(b)
    \/ StepFails(b)
    \/ SendUnanswered(b)
    \/ JobStalls(b)
    \/ JobTrimmed(b)
=============================================================================
