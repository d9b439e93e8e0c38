------------------------------ MODULE MCReserves ------------------------------
(***************************************************************************)
(* Instance of Reserves: the endowment just covers the WFAIR of the pool,  *)
(* and neither the deposit nor the burns divide evenly.                    *)
(***************************************************************************)
EXTENDS Reserves

MCSats == [d1 |-> 101, d2 |-> 57]
MCWei == [b1 |-> 505, b2 |-> 999]
=============================================================================
