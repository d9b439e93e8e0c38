------------------------------ MODULE Deposits -------------------------------
(***************************************************************************)
(* What the deposit API, the fair-watcher and the mint worker share: the   *)
(* deposit addresses and the outputs paid to them on FairCoin, the         *)
(* deposits collection in MongoDB, the mint queue in Redis, the WFAIR      *)
(* contract on Base, and the process they run in.                          *)
(***************************************************************************)
EXTENDS BridgeAmounts, JobQueue, FiniteSetsExt, SequencesExt

CONSTANTS
    NumAddrs,    \* bound: HD indexes that are ever allocated
    Owner,       \* Owner[a]: baseAddress of the /intent that got address a
    NumVouts,    \* bound: outputs that are ever paid to deposit addresses
    VoutLog,     \* VoutLog[d]: the address and the sats of output d
    OrphanAge,   \* ORPHAN_DEPOSIT_AGE_MS in steps of Tick
    Day,         \* DAY_MS in steps of Tick
    MaxUpsets    \* bound: failed RPC, MongoDB or Redis calls, kills, stops,
                 \* pauses of the contract and burns of the supply, in all

Addr == 1..NumAddrs
Vout == 1..NumVouts

ASSUME DepositAssumption ==
    /\ NumAddrs \in Nat /\ NumVouts \in Nat
    /\ \A d \in Vout : VoutLog[d].addr \in Addr /\ VoutLog[d].sats \in Nat
    /\ OrphanAge \in Nat /\ Day \in Nat /\ OrphanAge <= Day
    /\ MaxUpsets \in Nat

VARIABLES
    intent,   \* intent[a]: the /intent call for address a and its open slot
    row,      \* row[d]: the deposit document of output d
    job,      \* job[d]: the mint job of output d
    known,    \* addressCache of hd/derive.ts
    mode,     \* the bridge process: up, stopping after SIGTERM, or down
    upsets,   \* failed calls, kills, stops, pauses and burns so far
    tx,       \* tx[d]: the mint transactions sent for output d, oldest first
    supply    \* totalSupply of WFAIR, in wei

(***************************************************************************)
(* An intent is allocated (it has its index and no document yet), open (an *)
(* AWAITING document), used (that document became the row of an output),   *)
(* or dropped (the call failed after the index was taken).  age is the     *)
(* time since its createdAt; nothing depends on how much more than a day   *)
(* that is.                                                                *)
(***************************************************************************)
IntentStatus == {"none", "allocated", "open", "used", "dropped"}
Intent == [status : IntentStatus, age : 0..Day]
NoIntent == [status |-> "none", age |-> 0]

\* "none" is the absence of a document for the output; DETECTED is in the
\* enum and no code ever assigns it.
Status == {"none", "CONFIRMED", "MINTING", "MINTED", "FAILED"}

(***************************************************************************)
(* hash is baseMintTxHash as the ordinal of the transaction it names, 0    *)
(* for null; safe says whether safeTxHash is on file.  age is the time     *)
(* since createdAt, since (history) the time since the output got its      *)
(* document, which may be the intent's own and then older.                 *)
(* amountSats and amountWei are VoutSats and MintWei of the output.        *)
(***************************************************************************)
Deposit == [status : Status, hash : Nat, safe : BOOLEAN, age : 0..Day, since : 0..Day]
NoRow == [status |-> "none", hash |-> 0, safe |-> FALSE, age |-> 0, since |-> 0]

TxStatus == {"pending", "success", "reverted"}

Exists(d) == row[d].status # "none"
VoutSats(d) == VoutLog[d].sats
OwnerOf(d) == Owner[VoutLog[d].addr]

\* amountWei of an admitted deposit: the fee is taken from the wei.
MintWei(d) == ApplyFee(SatsAsWei(VoutSats(d)))

SharedTypeOK ==
    /\ intent \in [Addr -> Intent]
    /\ row \in [Vout -> Deposit]
    /\ job \in [Vout -> Job]
    /\ known \in SUBSET Addr
    /\ mode \in {"up", "stopping", "down"}
    /\ upsets \in 0..MaxUpsets
    /\ tx \in [Vout -> Seq(TxStatus)]
    /\ supply \in Nat

SharedInit ==
    /\ intent = [a \in Addr |-> NoIntent]
    /\ row = [d \in Vout |-> NoRow]
    /\ job = [d \in Vout |-> NoJob]
    /\ known = {}
    /\ mode = "up"
    /\ upsets = 0
    /\ tx = [d \in Vout |-> <<>>]
    /\ supply = 0

\* A call fails, or something else goes out of its way.
Fault == upsets < MaxUpsets /\ upsets' = upsets + 1

-----------------------------------------------------------------------------
(***************************************************************************)
(* POST /intent.                                                           *)
(***************************************************************************)

\* allocateNextDepositAddress: one atomic $inc in MongoDB, then the address
\* joins the cache the fair-watcher matches against.
AllocateAddress(a) ==
    /\ mode = "up"
    /\ intent[a].status = "none"
    /\ \A i \in Addr : i < a => intent[i].status # "none"
    /\ intent' = [intent EXCEPT ![a].status = "allocated"]
    /\ known' = known \cup {a}
    /\ UNCHANGED <<row, job, upsets, tx, supply>>

\* The unique index on (fairTxid, fairVout) is sparse, but the schema stores
\* explicit nulls in both: it holds one document without them at a time.
SlotTaken == \E a \in Addr : intent[a].status = "open"

\* Deposit.create of the AWAITING document, after which the caller gets the
\* address.
CreateIntent(a) ==
    /\ intent[a].status = "allocated" /\ ~SlotTaken
    /\ intent' = [intent EXCEPT ![a].status = "open"]
    /\ UNCHANGED <<row, job, known, upsets, tx, supply>>

\* The create rejects: a failed call, or E11000 of that index.
IntentFails(a) ==
    /\ intent[a].status = "allocated"
    /\ \/ Fault
       \/ SlotTaken /\ UNCHANGED upsets
    /\ intent' = [intent EXCEPT ![a].status = "dropped"]
    /\ UNCHANGED <<row, job, known, tx, supply>>

-----------------------------------------------------------------------------
(***************************************************************************)
(* The Base chain.                                                         *)
(***************************************************************************)

\* mintForDeposit is mined: it mints, or reverts if the contract was paused
\* after the transaction was sent.
Mined(d, i, status) ==
    /\ i \in DOMAIN tx[d] /\ tx[d][i] = "pending"
    /\ tx' = [tx EXCEPT ![d][i] = status]
    /\ supply' = IF status = "success" THEN supply + MintWei(d) ELSE supply
=============================================================================
