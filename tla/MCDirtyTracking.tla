--------------------------- MODULE MCDirtyTracking ---------------------------
(* Small instances of DirtyTracking for TLC. *)
EXTENDS DirtyTracking, TLC

\* Paths, and data, are interchangeable.
Symmetry == Permutations(Paths) \cup Permutations(Data)

\* What a checkpoint recorded is not read any more once it is settled.
WhileLive(f) == [c \in Checkpoints |-> IF status[c] \in Live THEN f[c] ELSE None]
View == <<clock, disk, status, WhileLive(createdAt), WhileLive(parent), WhileLive(baseline),
          WhileLive(dirty), WhileLive(backup), calls, sweep, WhileLive(original),
          WhileLive(blind), gap>>
=============================================================================
