---------------------------- MODULE MCDepositMint ----------------------------
(***************************************************************************)
(* Instances of DepositMint.  In MCReuseLog one address is paid twice, by  *)
(* outputs of which both caps admit only one at a time.  In MCDustLog two  *)
(* addresses are paid, the second below the minimum.                       *)
(***************************************************************************)
EXTENDS DepositMint

MCOneOwner == <<"alice">>
MCTwoOwners == <<"alice", "bob">>

MCReuseLog == << [addr |-> 1, sats |-> 1000], [addr |-> 1, sats |-> 1000] >>
MCDustLog == << [addr |-> 1, sats |-> 1000], [addr |-> 2, sats |-> 50] >>

MCBoth == {"direct_eoa", "safe_proposal"}
=============================================================================
