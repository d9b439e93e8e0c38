----------------------------- MODULE MCSeedPool -------------------------------
(***************************************************************************)
(* Instance of SeedPool with the ticks that the script computes.           *)
(***************************************************************************)
EXTENDS SeedPool

MCAccount == {"admin", "minter", "npm", "pool", "holder"}
=============================================================================
