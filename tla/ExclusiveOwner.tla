--------------------------- MODULE ExclusiveOwner ---------------------------
(***************************************************************************)
(* What an owner lease promises: a stack has at most one owner at a time,  *)
(* and the next one comes when the last has let go.                        *)
(***************************************************************************)
EXTENDS FiniteSets

CONSTANT Processes

VARIABLE owners      \* the processes that own the stack

Init == owners = {}

Acquire(p) == owners = {} /\ owners' = {p}

LetGo(p) == p \in owners /\ owners' = owners \ {p}

Next == \E p \in Processes : Acquire(p) \/ LetGo(p)

Spec == Init /\ [][Next]_owners
=============================================================================
