---------------------------- MODULE PayoutLedger -----------------------------
(***************************************************************************)
(* What a payout pipeline of the bridge promises, whatever it pays and     *)
(* through which node.  A liability is paid by an outside system, the      *)
(* identifier of one payment is filed, and the liability is then settled.  *)
(* Nothing is paid any more once an identifier is on file; nothing is      *)
(* settled without one; the file never changes; a voided liability never   *)
(* gets a payment on file, and has one only where the outside system may   *)
(* bounce a payment.  Paying again is possible only as long as nothing is  *)
(* on file.                                                                *)
(***************************************************************************)
EXTENDS Naturals

CONSTANTS
    Liability,
    Bounces     \* whether the outside system may bounce a payment it took

VARIABLES
    paid,    \* paid[l]: payments the outside system made
    filed,   \* filed[l]: which of them is on file, 0 for none
    state    \* state[l]: open, settled or void

ledger == <<paid, filed, state>>

LedgerInit ==
    /\ paid = [l \in Liability |-> 0]
    /\ filed = [l \in Liability |-> 0]
    /\ state = [l \in Liability |-> "open"]

Pay(l) ==
    /\ state[l] = "open" /\ filed[l] = 0
    /\ paid' = [paid EXCEPT ![l] = @ + 1]
    /\ UNCHANGED <<filed, state>>

\* Only the latest payment can be filed: an earlier one was forgotten.
File(l) ==
    /\ state[l] = "open" /\ filed[l] = 0
    /\ paid[l] > 0
    /\ filed' = [filed EXCEPT ![l] = paid[l]]
    /\ UNCHANGED <<paid, state>>

Settle(l) ==
    /\ state[l] = "open" /\ filed[l] # 0
    /\ state' = [state EXCEPT ![l] = "settled"]
    /\ UNCHANGED <<paid, filed>>

Void(l) ==
    /\ state[l] = "open" /\ filed[l] = 0
    /\ state' = [state EXCEPT ![l] = "void"]
    /\ UNCHANGED <<paid, filed>>

\* The payment on file bounced: the liability is closed with it.
Bounce(l) ==
    /\ Bounces
    /\ state[l] = "open" /\ filed[l] # 0
    /\ state' = [state EXCEPT ![l] = "void"]
    /\ UNCHANGED <<paid, filed>>

LedgerNext ==
    \E l \in Liability : Pay(l) \/ File(l) \/ Settle(l) \/ Void(l) \/ Bounce(l)

LedgerSpec == LedgerInit /\ [][LedgerNext]_ledger
=============================================================================
