------------------------------ MODULE MCJobQueue ------------------------------
(* Model checking of JobQueue on small instances; the cfg files give the   *)
(* constants.  Workers and keys are interchangeable.                       *)
EXTENDS JobQueue, TLC

Symmetry == Permutations(WorkerIds) \cup Permutations(Keys)
=============================================================================
