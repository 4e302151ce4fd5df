------------------------------ MODULE Instances ------------------------------
(***************************************************************************)
(* The instances of one stack: what Orchestrator.ts's registry holds.      *)
(***************************************************************************)
CONSTANT Services       \* the ids of the registered instances
=============================================================================
