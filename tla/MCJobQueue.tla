----------------------------- MODULE MCJobQueue -----------------------------
(* The instance of JobQueue for TLC.  The workers are interchangeable, but  *)
(* the run checks liveness, for which symmetry is not sound.               *)
EXTENDS JobQueue
=============================================================================
