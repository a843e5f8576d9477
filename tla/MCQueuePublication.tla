-------------------------- MODULE MCQueuePublication --------------------------
(* Instances of QueuePublication for TLC.                                  *)
EXTENDS QueuePublication, TLC

Symmetry == Permutations(Handlers) \cup Permutations(Jobs)

=============================================================================
