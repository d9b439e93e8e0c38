----------------------------- MODULE MintSigner ------------------------------
(***************************************************************************)
(* signer/base.ts run by the mint worker of workers/orchestrator.ts: mints *)
(* the WFAIR of a deposit, directly with the bridge's own account or as a  *)
(* proposal to a Safe.  One worker, concurrency 1; one step per awaited    *)
(* call.  A call that rejects ends the attempt (StepFails).                *)
(***************************************************************************)
EXTENDS Deposits

VARIABLES
    m,        \* the worker's place in signMint and its local variables
    auth,     \* MINT_AUTH_MODE of the running process
    safeTx,   \* safeTx[d]: the Safe transaction proposed for output d
    paused,   \* the WFAIR contract is paused
    lost      \* history: mint transactions whose hash the service forgot

signerVars == <<m, safeTx, lost>>

SignerPc == {"off", "idle", "load", "claim", "broadcast", "record", "receipt",
             "safehash", "propose", "check", "audit", "done", "giveup"}

Signer == [pc : SignerPc, vout : 0..NumVouts, hash : Nat]

MIdle == [pc |-> "idle", vout |-> 0, hash |-> 0]
MOff == [MIdle EXCEPT !.pc = "off"]

AuthMode == {"direct_eoa", "safe_proposal"}

SignerTypeOK ==
    /\ m \in Signer
    /\ (m.vout = 0) <=> (m.pc \in {"off", "idle"})
    /\ auth \in AuthMode
    /\ safeTx \in [Vout -> {"none", "proposed", "executed"}]
    /\ paused \in BOOLEAN
    /\ lost \in [Vout -> Nat]

SignerInit ==
    /\ m = MIdle
    /\ auth \in AuthMode
    /\ safeTx = [d \in Vout |-> "none"]
    /\ paused = FALSE
    /\ lost = [d \in Vout |-> 0]

At(d, pc) == m.vout = d /\ m.pc = pc
Goto(pc) == [m EXCEPT !.pc = pc]

\* What the signer leaves alone in all its steps but the broadcast.
OnBase == <<tx, supply>>

-----------------------------------------------------------------------------
TakeJob(d) ==
    /\ mode = "up" /\ m.pc = "idle"
    /\ job[d].state = "wait"
    /\ job' = [job EXCEPT ![d] = Started(@)]
    /\ m' = [MIdle EXCEPT !.pc = "load", !.vout = d]
    /\ UNCHANGED <<row, upsets, OnBase, safeTx, lost>>

\* The dispatch on MINT_AUTH_MODE: each branch looks at its own identifier.
SignPc(d) ==
    CASE auth = "safe_proposal" /\ row[d].safe     -> "check"
      [] auth = "safe_proposal" /\ ~row[d].safe    -> "safehash"
      [] auth = "direct_eoa" /\ row[d].hash # 0    -> "receipt"
      [] auth = "direct_eoa" /\ row[d].hash = 0    -> "broadcast"

Unsigned(d) == row[d].hash = 0 /\ ~row[d].safe

\* signMint reads the row.  An identifier on file skips the claim.
LoadRow(d) ==
    /\ At(d, "load")
    /\ m' = Goto(CASE row[d].status = "MINTED" -> "done"
                   [] row[d].status = "FAILED" -> "giveup"
                   [] row[d].status \in {"CONFIRMED", "MINTING"} /\ Unsigned(d) -> "claim"
                   [] row[d].status = "MINTING" /\ ~Unsigned(d) -> SignPc(d)
                   [] OTHER -> "done")
    /\ UNCHANGED <<row, job, upsets, OnBase, safeTx, lost>>

\* claimMint: CONFIRMED or MINTING with both hashes null becomes MINTING.
Claimable(d) == row[d].status \in {"CONFIRMED", "MINTING"} /\ Unsigned(d)

ClaimMint(d) ==
    /\ At(d, "claim")
    /\ IF Claimable(d)
       THEN row' = [row EXCEPT ![d].status = "MINTING"]
       ELSE UNCHANGED row
    /\ m' = Goto(IF Claimable(d) \/ row[d].status = "MINTING" THEN SignPc(d) ELSE "done")
    /\ UNCHANGED <<job, upsets, OnBase, safeTx, lost>>

-----------------------------------------------------------------------------
(***************************************************************************)
(* direct_eoa.                                                             *)
(***************************************************************************)

\* writeContract: the transaction is sent and its hash returned.
Broadcast(d) ==
    /\ At(d, "broadcast") /\ ~paused
    /\ tx' = [tx EXCEPT ![d] = Append(@, "pending")]
    /\ m' = [m EXCEPT !.pc = "record", !.hash = Len(tx[d]) + 1]
    /\ UNCHANGED <<row, job, upsets, supply, safeTx, lost>>

\* Mutant: the hash is dropped when the update fails.
RecordHash_Mutant(d) ==
    /\ At(d, "record")
    /\ m' = [m EXCEPT !.pc = "audit", !.hash = 0]
    /\ UNCHANGED <<row, job, upsets, OnBase, safeTx, lost>>

RecordHash(d) ==
    /\ At(d, "record")
    /\ row' = [row EXCEPT ![d].hash = m.hash]
    /\ m' = [m EXCEPT !.pc = "receipt", !.hash = 0]
    /\ UNCHANGED <<job, upsets, OnBase, safeTx, lost>>

Receipt(d) == tx[d][row[d].hash]

Throw(d) ==
    /\ job' = [job EXCEPT ![d] = Thrown(@)]
    /\ m' = MIdle

\* finalizeDirectEoa, once the transaction is mined.
FinalizeMint(d) ==
    /\ At(d, "receipt") /\ Receipt(d) = "success"
    /\ row' = [row EXCEPT ![d].status = "MINTED"]
    /\ m' = Goto("audit")
    /\ UNCHANGED <<job, upsets, OnBase, safeTx, lost>>

\* Mutant: a reverted transaction leaves the deposit open for another try.
FinalizeReverted_Mutant(d) ==
    /\ At(d, "receipt") /\ Receipt(d) = "reverted"
    /\ row' = [row EXCEPT ![d].hash = 0]
    /\ Throw(d)
    /\ UNCHANGED <<upsets, OnBase, safeTx, lost>>

FinalizeReverted(d) ==
    /\ At(d, "receipt") /\ Receipt(d) = "reverted"
    /\ row' = [row EXCEPT ![d].status = "FAILED"]
    /\ Throw(d)
    /\ UNCHANGED <<upsets, OnBase, safeTx, lost>>

-----------------------------------------------------------------------------
(***************************************************************************)
(* safe_proposal.                                                          *)
(***************************************************************************)

\* The hash of the Safe transaction goes on file before it is proposed.
RecordSafeHash(d) ==
    /\ At(d, "safehash")
    /\ row' = [row EXCEPT ![d].safe = TRUE]
    /\ m' = Goto("propose")
    /\ UNCHANGED <<job, upsets, OnBase, safeTx, lost>>

Propose(d) ==
    /\ At(d, "propose")
    /\ safeTx' = [safeTx EXCEPT ![d] = "proposed"]
    /\ m' = Goto("audit")
    /\ UNCHANGED <<row, job, upsets, OnBase, lost>>

\* safeProposalExists: a proposal still there is left to the signers.
CheckProposal(d) ==
    /\ At(d, "check")
    /\ IF safeTx[d] = "none"
       THEN Throw(d)
       ELSE m' = Goto("audit") /\ UNCHANGED job
    /\ UNCHANGED <<row, upsets, OnBase, safeTx, lost>>

\* The signers execute what was proposed, out of the service's sight.
ExecuteSafe(d) ==
    /\ safeTx[d] = "proposed" /\ ~paused
    /\ safeTx' = [safeTx EXCEPT ![d] = "executed"]
    /\ tx' = [tx EXCEPT ![d] = Append(@, "success")]
    /\ supply' = supply + MintWei(d)
    /\ UNCHANGED <<row, job, upsets, m, lost>>

-----------------------------------------------------------------------------
WriteAudit(d) ==
    /\ At(d, "audit")
    /\ m' = Goto("done")
    /\ UNCHANGED <<row, job, upsets, OnBase, safeTx, lost>>

EndJob(d) ==
    /\ \/ At(d, "done") /\ job' = [job EXCEPT ![d] = Completed(@)]
       \/ At(d, "giveup") /\ job' = [job EXCEPT ![d] = GivenUp(@)]
    /\ m' = MIdle
    /\ UNCHANGED <<row, upsets, OnBase, safeTx, lost>>

\* A hash that is only in memory is forgotten with the attempt.
Forgotten(d) == IF At(d, "record") THEN lost[d] + 1 ELSE lost[d]

\* A call rejects without effect.
StepFails(d) ==
    /\ m.vout = d
    /\ m.pc \in {"load", "claim", "broadcast", "record", "receipt", "safehash",
                 "propose", "check", "audit"}
    /\ Fault
    /\ Throw(d)
    /\ lost' = [lost EXCEPT ![d] = Forgotten(d)]
    /\ UNCHANGED <<row, OnBase, safeTx>>

\* The gas estimate of a paused contract's mint rejects.
BroadcastRefused(d) ==
    /\ At(d, "broadcast") /\ paused
    /\ Throw(d)
    /\ UNCHANGED <<row, upsets, OnBase, safeTx, lost>>

\* The transaction is sent, or proposed, and the answer does not arrive.
BroadcastUnanswered(d) ==
    /\ At(d, "broadcast") /\ ~paused
    /\ Fault
    /\ Throw(d)
    /\ tx' = [tx EXCEPT ![d] = Append(@, "pending")]
    /\ lost' = [lost EXCEPT ![d] = @ + 1]
    /\ UNCHANGED <<row, supply, safeTx>>

ProposeUnanswered(d) ==
    /\ At(d, "propose")
    /\ Fault
    /\ Throw(d)
    /\ safeTx' = [safeTx EXCEPT ![d] = "proposed"]
    /\ UNCHANGED <<row, OnBase, lost>>

JobStalls(d) ==
    /\ mode = "up" /\ job[d].state = "active" /\ m.vout # d
    /\ job' = [job EXCEPT ![d] = Unstalled(@)]
    /\ UNCHANGED <<row, upsets, m, OnBase, safeTx, lost>>

JobTrimmed(d) ==
    /\ job[d].state = "completed"
    /\ job' = [job EXCEPT ![d] = Trimmed(@)]
    /\ UNCHANGED <<row, upsets, m, OnBase, safeTx, lost>>

SignerProgress(d) ==
    \/ TakeJob(d)
    \/ LoadRow(d)
    \/ ClaimMint(d)
    \/ Broadcast(d)
    \/ BroadcastRefused(d)
    \/ RecordHash(d)
    \/ FinalizeMint(d)
    \/ FinalizeReverted(d)
    \/ RecordSafeHash(d)
    \/ Propose(d)
    \/ CheckProposal(d)
    \/ WriteAudit(d)
    \/ EndJob(d)

SignerStep(d) ==
    \/ SignerProgress(d)
    \/ StepFails(d)
    \/ BroadcastUnanswered(d)
    \/ ProposeUnanswered(d)
    \/ ExecuteSafe(d)
    \/ JobStalls(d)
    \/ JobTrimmed(d)
=============================================================================
