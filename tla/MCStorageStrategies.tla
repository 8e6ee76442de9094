------------------------- MODULE MCStorageStrategies -------------------------
(* A small instance of StorageStrategies for TLC. *)
EXTENDS StorageStrategies, TLC

CONSTANTS small, medium

\* Against MaxFileBytes = 2, MaxTotalBytes = 3 and MaxFiles = 2: two medium
\* files exceed the bytes, three small ones the number of files.
MCSize == (small :> 1) @@ (medium :> 2)

\* Paths are interchangeable.
Symmetry == Permutations(Paths)

\* Which inodes are used does not matter, only what they hold and which names
\* share one.
In(i) == IF i = Absent THEN Absent ELSE content[i]
View == <<[p \in Paths |-> In(name[p])], [p \in Paths |-> In(backupName[p])],
          {pq \in Paths \X Paths : backupName[pq[1]] = name[pq[2]]},
          {pq \in Paths \X Paths : backupName[pq[1]] = backupName[pq[2]]},
          {pq \in Paths \X Paths : name[pq[1]] = name[pq[2]]},
          {<<content[i], {p \in Paths : name[p] = i}, {p \in Paths : backupName[p] = i}>> :
             i \in open},
          delegate, memory, bytesUsed, linksUnsafe, exposed>>
=============================================================================
