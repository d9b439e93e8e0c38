------------------------------ MODULE MCBuyback ------------------------------
(***************************************************************************)
(* Instance of Buyback: the loop with POST /buyback/trigger beside it.     *)
(***************************************************************************)
EXTENDS Buyback

MCLoopAndAdmin == {"loop", "admin"}
=============================================================================
