---------------------------- MODULE MCAgentSession ----------------------------
(* A small instance of AgentSession for TLC. *)
EXTENDS AgentSession, TLC

\* Attempts, and exec() calls, are interchangeable.
Symmetry == Permutations(Attempts) \cup Permutations(Execs)

\* What a settled checkpoint recorded, and how an attempt ended, is not read
\* any more; a settled exec() needs its owner only while that is live.
WhileLive(f) == [a \in Attempts |-> IF status[a] \in Live THEN f[a] ELSE {}]
OwnerInUse == [x \in Execs |->
    IF owner[x] # None /\ (promise[x] \in {"pending", "closing", "closeFailed"}
                           \/ status[owner[x]] \in Live)
    THEN owner[x] ELSE None]
View == <<active, pc, status, WhileLive(base), WhileLive(dirty), disk, OwnerInUse, child,
          timer, promise, gap>>
=============================================================================
