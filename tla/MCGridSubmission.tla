-------------------------- MODULE MCGridSubmission --------------------------
(* Symmetry of GridSubmission for TLC: shards and commands have no order.  *)
EXTENDS GridSubmission, TLC

Symmetry == Permutations(Shards) \cup Permutations(Processes)
=============================================================================
