----------------------------- MODULE FifoMutex -----------------------------
(***************************************************************************)
(* What the branch lifecycle queue promises, without saying how: calls     *)
(* stand in a line, only the head of the line is ever inside the critical  *)
(* section, and leaving the section is leaving the line.                   *)
(*                                                                         *)
(* HyperionWorkspace.withBranchLifecycleLock builds this out of a chain of *)
(* promises; BranchLifecycle models the chain and refines this module.     *)
(***************************************************************************)
EXTENDS Sequences, FiniteSets

CONSTANT Calls

VARIABLES
    line,    \* the calls that have joined and not yet left, oldest first
    inside   \* the calls running their callback

vars == <<line, inside>>

InLine == {line[i] : i \in DOMAIN line}

Init ==
    /\ line = <<>>
    /\ inside = {}

Join(k) ==
    /\ k \notin InLine
    /\ line' = Append(line, k)
    /\ UNCHANGED inside

Enter(k) ==
    /\ line # <<>>
    /\ k = Head(line)
    /\ inside = {}
    /\ inside' = {k}
    /\ UNCHANGED line

Leave(k) ==
    /\ inside = {k}
    /\ k = Head(line)
    /\ inside' = {}
    /\ line' = Tail(line)

Next == \E k \in Calls : Join(k) \/ Enter(k) \/ Leave(k)

Spec == Init /\ [][Next]_vars
=============================================================================
