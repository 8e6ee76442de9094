--------------------------- MODULE MCTreeRollback ---------------------------
(* A small instance of TreeRollback for TLC: a directory with two more in  *)
(* it, each of which may hold a file, one of the files ignored.            *)
EXTENDS TreeRollback

MCPaths == {<<"a">>, <<"a", "d">>, <<"a", "d", "f">>, <<"a", "e">>, <<"a", "e", "f">>}
MCIgnored == {<<"a", "e", "f">>}
MCFolders == {<<"a">>, <<"a", "d">>, <<"a", "e">>}
\* Of "a", "a/d", "a/d/f" ... when "e" is a name of three letters.
MCLength == [p \in MCPaths |-> 2 * Len(p) - 1 + IF Len(p) > 1 /\ p[2] = "e" THEN 2 ELSE 0]
\* Empty, with no ignored file, and with nothing but the ignored file.
MCTrees ==
    {{}, MCPaths \ {<<"a", "e", "f">>}, MCPaths \ {<<"a", "d", "f">>}}

\* Stamps are only compared with those of the baseline, and nothing is read any
\* more once the checkpoint is disposed.
View ==
    LET known == {baseline[p].stamp : p \in {q \in Paths : baseline[q] # Absent}}
        seen == [p \in Paths |-> IF node[p] = Absent \/ node[p].stamp \in known THEN node[p]
                                 ELSE [node[p] EXCEPT !.stamp = -1]]
    IN  IF status # "active" THEN <<status>>
        ELSE <<seen, baseline, declared, tracked, dirty, backup, clock, original, blind, late>>
=============================================================================
