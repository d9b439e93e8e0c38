----------------------------- MODULE MCLifecycle ------------------------------
(***************************************************************************)
(* Instances of Lifecycle: the two loops that do something before their    *)
(* first tick, and one of the four that do not.                            *)
(***************************************************************************)
EXTENDS Lifecycle

MCLoops == {"fair-watcher", "buyback", "masternode-rewards"}
=============================================================================
