------------------------- MODULE MCMasternodeRewards -------------------------
(***************************************************************************)
(* Instance of MasternodeRewards: the loop with POST                       *)
(* /masternode-rewards/trigger beside it.                                  *)
(***************************************************************************)
EXTENDS MasternodeRewards

MCLoopAndAdmin == {"loop", "admin"}
=============================================================================
