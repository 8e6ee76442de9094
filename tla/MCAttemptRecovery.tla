-------------------------- MODULE MCAttemptRecovery --------------------------
(* A small instance of AttemptRecovery for TLC. *)
EXTENDS AttemptRecovery, TLC

\* Paths, and data, are interchangeable.
Symmetry == Permutations(Paths) \cup Permutations(Data)
=============================================================================
