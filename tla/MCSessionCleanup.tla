-------------------------- MODULE MCSessionCleanup --------------------------
(* Instances of SessionCleanup for TLC. *)
EXTENDS SessionCleanup, TLC

Symmetry ==
    Permutations(Procs) \cup Permutations(Sessions) \cup Permutations(Hosts)
      \cup Permutations(Pids)

\* Files in tmpfs matter until it is on record that they may stay.
TmpfsOf(s) ==
    IF s \in leaked \cup revived THEN "may stay" ELSE "tmpfs" \in files[s]

\* How a workspace was used does not matter once its process has ended, or,
\* but for its interceptor, once it is disposed of; whether it ended clean is
\* all that is left of it.
UseOf(s) ==
    CASE owner[s] = None -> "none"
      [] ~Running(owner[s]) -> IF dir[s] = "none" THEN "gone" ELSE owner[s]
      [] s \in disposed -> <<owner[s], "disposed", s \in hooked>>
      [] OTHER -> <<owner[s], s \in built, s \in hooked, s \in stored, s \in revived, TmpfsOf(s),
                    s \in foreign \cup late \cup emergencyCleanupCompleted,
                    s \in cleanupHasRun, s \in emergencyCleanupCompleted>>

\* Of a process that has ended, its number matters while it has a directory.
UseBy(p) ==
    IF Running(p) \/ \E s \in Of(p) : dir[s] # "none"
    THEN <<Running(p), place[p]>> ELSE proc[p] = "unborn"

\* A removal that failed is excused in the collection that tried it.
FailedNow ==
    {q \in stuckTemps : \E p \in Procs : Step(p) = "swept" /\ q \in due[p].temps}

View ==
    <<[p \in Procs |-> UseBy(p)], [s \in Sessions |-> UseOf(s)],
      handlers, busy, dir, old, temps, ignored, FailedNow, snapshots, due,
      {s \in stuck : dir[s] # "none"}, EndsClean>>
=============================================================================
