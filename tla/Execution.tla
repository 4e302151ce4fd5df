------------------------------ MODULE Execution ------------------------------
(***************************************************************************)
(* What the execution boundary of packages/stack/src/Service.ts promises   *)
(* the lifecycle reducer, with nothing said of how: a service's runtime    *)
(* resources belong to one generation at a time, and a generation that was *)
(* reported over holds none and never acquires any again.                  *)
(***************************************************************************)
EXTENDS Naturals

CONSTANTS
  Services,          \* the ids of the registered instances
  Generations        \* the generations a service may be launched as, all positive

VARIABLES
  holder,            \* per service, the generation whose resources exist, 0 if none
  over               \* per service, the generations reported over

vars == <<holder, over>>

TypeOK ==
  /\ holder \in [Services -> Generations \union {0}]
  /\ over \in [Services -> SUBSET Generations]

Init ==
  /\ holder = [s \in Services |-> 0]
  /\ over = [s \in Services |-> {}]

\* A launch acquires the runtime of generation g.
Acquire(s, g) ==
  /\ holder[s] = 0
  /\ g \notin over[s]
  /\ holder' = [holder EXCEPT ![s] = g]
  /\ UNCHANGED over

\* A cleanup is confirmed: nothing of the generation is left.
Release(s) ==
  /\ holder[s] # 0
  /\ holder' = [holder EXCEPT ![s] = 0]
  /\ UNCHANGED over

\* The end of generation g is reported, as Exited or as LaunchFailed.
ReportOver(s, g) ==
  /\ holder[s] # g
  /\ over' = [over EXCEPT ![s] = @ \union {g}]
  /\ UNCHANGED holder

Next ==
  \E s \in Services :
    \/ Release(s)
    \/ \E g \in Generations : Acquire(s, g) \/ ReportOver(s, g)

Spec == Init /\ [][Next]_vars
=============================================================================
