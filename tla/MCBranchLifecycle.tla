-------------------------- MODULE MCBranchLifecycle --------------------------
(* A small instance of BranchLifecycle for TLC. *)
EXTENDS BranchLifecycle, TLC

\* Calls, and checkpoints, are interchangeable.
Symmetry == Permutations(Calls) \cup Permutations(Checkpoints)
=============================================================================
