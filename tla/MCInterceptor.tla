--------------------------- MODULE MCInterceptor ---------------------------
(* Instances of Interceptor for TLC. *)
EXTENDS Interceptor, TLC

Symmetry ==
    Permutations(Workspaces) \cup Permutations(Paths)

\* What no action and no property reads any more is left out: changes missed
\* through a gap, who hears of what while it is not watching, what is known of
\* descriptors that are closed and of streams that have ended.
View ==
    <<hookVars, mapVars, fds, at, flights, stale,
      {m \in missed : m.how \notin Gaps},
      [w \in Workspaces |-> IF installed[w] THEN heard[w] ELSE {}],
      [s \in Streams |-> IF streams[s].state \in {"unused", "ended"}
                         THEN streams[s].state ELSE <<streams[s], told[s]>>],
      [f \in Fds |-> IF fds[f] = None THEN {} ELSE deaf[f]]>>
=============================================================================
