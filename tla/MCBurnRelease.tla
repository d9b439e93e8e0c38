---------------------------- MODULE MCBurnRelease ----------------------------
(***************************************************************************)
(* Instances of BurnRelease.  In MCBurnLog both burns come from one        *)
(* sender, lie in one getLogs window and leave a remainder of wei; before  *)
(* the fee each is 2000 sats, after it 1980.  In MCDustLog the first burn  *)
(* is worth less than one sat.  The node's answer on one address changes   *)
(* between calls.                                                          *)
(***************************************************************************)
EXTENDS BurnRelease

Alice == "alice"

MCBurnLog == << [block |-> 1, wei |-> 20009, from |-> Alice],
                [block |-> 2, wei |-> 20000, from |-> Alice] >>

MCDustLog == << [block |-> 1, wei |-> 9, from |-> Alice],
                [block |-> 2, wei |-> 20000, from |-> Alice] >>

MCVerdicts == << {TRUE}, {TRUE, FALSE} >>
=============================================================================
