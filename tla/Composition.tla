---------------------------- MODULE Composition ----------------------------
(***************************************************************************)
(* The operations on all members of a composition, of                      *)
(* packages/stack/src/Orchestrator.ts: startComposition, stopComposition   *)
(* and restartComposition, over the services, callers and traffic of       *)
(* Orchestrator.                                                           *)
(*                                                                         *)
(* The part of a composition operation that concerns a service is a call   *)
(* of the client of that service's name, whose Operations are empty.       *)
(*                                                                         *)
(* One composition operation is modelled, over every registered service;   *)
(* nothing keeps a destroy of a member out of it.                          *)
(***************************************************************************)
EXTENDS Orchestrator, SequencesExt

CONSTANT CompositionOperations

ASSUME CompositionAssumption ==
  /\ Services \subseteq Clients
  /\ \A s \in Services : Operations[s] = {}
  /\ CompositionOperations \subseteq {"start", "stop", "restart"}

\* op: the operation; at: its stage; left: the services still to be
\* stopped; bound: those whose endpoint is; part: how far each start is, its
\* completion once it has ended; failed: a stop or a start failed.
VARIABLE composition

compositionVars == <<vars, composition>>

CompositionInit ==
  /\ OrchestratorInit
  /\ composition = [op |-> "none", at |-> "new", left |-> <<>>, bound |-> {},
                    part |-> [s \in Services |-> "waiting"], failed |-> FALSE]

-----------------------------------------------------------------------------
(* Outcomes of the calls made for a service.                               *)

Answered(s) == client[s].at \notin {"new", "done"} /\ client'[s].at = "done"

\* Whether the call that ends in this step succeeds: an admission does, unlike a
\* withdrawal; a request does unless it is rejected; and a stop that waited does
\* unless the cleanup failed.
Succeeds(s) ==
  CASE client[s].at = "gate" -> Rejected(s) \notin Reduced(s, client[s].call).out
    [] client[s].at = "stopping" -> ~lifecycle'.services[s].cleanupFailure
    [] OTHER -> client[s].at = "await"

\* Mutant: only a success completes a part.
CompletedOnSuccess(s) ==
  IF Answered(s) /\ Succeeds(s) THEN "ok" ELSE composition.part[s]

\* onExit: a part completes with its outcome, whatever it is.
Completed(s) ==
  IF ~Answered(s) THEN composition.part[s] ELSE IF Succeeds(s) THEN "ok" ELSE "failed"

OwnerServes ==
  /\ Next
  /\ composition' =
       CASE composition.at = "start" -> [composition EXCEPT !.part = [s \in Services |-> Completed(s)]]
         [] composition.at = "stop" -> [composition EXCEPT !.failed = @ \/ \E s \in Services : Answered(s) /\ ~Succeeds(s)]
         [] OTHER -> composition

-----------------------------------------------------------------------------
CallFor(s, op) == [client EXCEPT ![s] = [NewCaller EXCEPT !.call = [op |-> op, id |-> s], !.at = "gate"]]

Members == SelectSeq(Order, LAMBDA s : s \in lifecycle.members)

Compose(op) ==
  /\ composition.at = "new"
  /\ composition' = IF op = "start" THEN [composition EXCEPT !.op = op, !.at = "bind"]
                    ELSE [composition EXCEPT !.op = op, !.at = "stop", !.left = Reverse(Members)]
  /\ UNCHANGED vars

\* stopIds: one after the other, dependents first; each outcome is awaited and
\* none keeps the others from their turn.
StopNext ==
  /\ composition.at = "stop" /\ composition.left # <<>>
  /\ \A s \in Services : client[s].at \in {"new", "done"}
  /\ LET s == Head(composition.left)
         known == s \in lifecycle.members
     IN /\ Moved(IF known THEN CallFor(s, "stop") ELSE client)
        /\ composition' = [composition EXCEPT !.left = Tail(@), !.failed = @ \/ ~known]

\* A restart goes on to its start unless a stop failed.
StopsEnd ==
  /\ composition.at = "stop" /\ composition.left = <<>>
  /\ \A s \in Services : client[s].at \in {"new", "done"}
  /\ composition' = IF composition.op = "restart" /\ ~composition.failed
                    THEN [composition EXCEPT !.at = "bind"]
                    ELSE [composition EXCEPT !.at = "done"]
  /\ UNCHANGED vars

\* The endpoint of every member is bound first, and one that cannot be fails its own
\* start; nothing else is changed by it, and the bindings are one step.
Bind ==
  /\ composition.at = "bind"
  /\ \E bound \in SUBSET lifecycle.members :
       composition' = [composition EXCEPT !.at = "start", !.bound = bound]
  /\ UNCHANGED vars

Done == {"ok", "failed"}

\* A part goes on once the parts of its prerequisites have completed: a lazy
\* service is armed, an eager one is started unless a prerequisite failed.
StartMember(s) ==
  LET lazy == Activation[s] = "lazy"
      blocked == ~lazy /\ \E p \in Prerequisites[s] : composition.part[p] = "failed"
      fails == s \notin composition.bound \/ blocked
  IN /\ composition.at = "start" /\ composition.part[s] = "waiting"
     /\ \A p \in Prerequisites[s] : composition.part[p] \in Done
     /\ Moved(IF fails THEN client ELSE CallFor(s, IF lazy THEN "arm" ELSE "compose"))
     /\ composition' = [composition EXCEPT !.part[s] = IF fails THEN "failed" ELSE "running"]

StartEnds ==
  /\ composition.at = "start"
  /\ \A s \in Services : composition.part[s] \in Done
  /\ composition' = [composition EXCEPT !.at = "done",
                                        !.failed = \E s \in Services : composition.part[s] = "failed"]
  /\ UNCHANGED vars

CompositionStep == StopNext \/ StopsEnd \/ Bind \/ (\E s \in Services : StartMember(s)) \/ StartEnds

CompositionNext ==
  \/ OwnerServes
  \/ \E op \in CompositionOperations : Compose(op)
  \/ CompositionStep

\* The operation's own fibers go on, and what the owner and its services owe.
FairCompositionSpec ==
  /\ CompositionInit /\ [][CompositionNext]_compositionVars
  /\ WF_compositionVars(CompositionStep)
  /\ Fairness

-----------------------------------------------------------------------------
\* A composition operation ends, however the outcomes of its members and of what
\* crosses them depend on each other, and so does every explicit request: each part
\* completes, those that wait for it too (Orchestrator.ts:1024-1068).
CompositionEnds == RequestsEnd /\ ((composition.at # "new") ~> (composition.at = "done"))
=============================================================================
