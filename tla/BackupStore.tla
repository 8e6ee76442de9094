---------------------------- MODULE BackupStore ----------------------------
(***************************************************************************)
(* What the checkpoint code expects of a storage strategy: the first       *)
(* backup of a path keeps its content of that moment, whatever happens in  *)
(* the workspace afterwards; a restore puts that content back; and a       *)
(* backup never shows in the workspace.  A strategy may leave a backup     *)
(* exposed when it makes it: such a backup can change with the workspace.  *)
(***************************************************************************)
CONSTANTS Paths, Data, None, Absent

VARIABLES
    disk,    \* content of every workspace path
    held,    \* content of every backup
    exposed  \* backups that the workspace can still reach

vars == <<disk, held, exposed>>

Contents == Data \cup {Absent}

Init ==
    /\ disk \in [Paths -> Contents]
    /\ held = [p \in Paths |-> None]
    /\ exposed = {}

Backup(p) ==
    /\ held[p] = None
    /\ held' = [held EXCEPT ![p] = disk[p]]
    /\ exposed' \in {exposed, exposed \cup {p}}
    /\ UNCHANGED disk

Restore(p) ==
    /\ held[p] # None
    /\ disk' = [disk EXCEPT ![p] = held[p]]
    /\ UNCHANGED <<held, exposed>>

\* The agent, a child process, or deleteCreatedPath(); with hard links, a
\* change shows under several names.
Change ==
    /\ disk' \in [Paths -> Contents]
    /\ held' \in [Paths -> Contents \cup {None}]
    /\ \A p \in Paths : held'[p] # held[p] => p \in exposed /\ held'[p] \in Data
    /\ UNCHANGED exposed

Cleanup ==
    /\ held' = [p \in Paths |-> None]
    /\ exposed' = {}
    /\ UNCHANGED disk

Next == Cleanup \/ Change \/ \E p \in Paths : Backup(p) \/ Restore(p)

Spec == Init /\ [][Next]_vars
=============================================================================
