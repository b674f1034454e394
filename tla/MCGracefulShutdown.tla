------------------------- MODULE MCGracefulShutdown -------------------------
(* Instances of GracefulShutdown for TLC. *)
EXTENDS GracefulShutdown, TLC

WorkerSymmetry == Permutations(OwnWorkers)
=============================================================================
