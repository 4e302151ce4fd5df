---------------------------- MODULE Orchestrator ----------------------------
(***************************************************************************)
(* The lifecycle owner of packages/stack/src/Orchestrator.ts: every event  *)
(* is reduced under one gate, so a dispatch is one step here, and the      *)
(* commands it emits become forked executions (Service), timers, and       *)
(* outcomes for whoever waits.                                             *)
(*                                                                         *)
(* A client is one connection or one explicit operation, from its call to  *)
(* its return; Operations says which each may be.  Its steps are those     *)
(* between which the code lets go of the gate.                             *)
(*                                                                         *)
(* Left out: bind, prepare, close and release of an entry and the owner's  *)
(* admit guard (StackHost's draining), which fail before a request is      *)
(* dispatched; registration and configuration, which precede Init; and the *)
(* leftover session removeData looks for, which never exists: see          *)
(* DataWorkIsExclusive.                                                    *)
(***************************************************************************)
EXTENDS Service, Lifecycle

CONSTANTS
  Armed,             \* the lazy services already armed when the run begins
  Operations,        \* [Clients -> SUBSET Operation]: what each client may call
  Cancels            \* whether a caller may give up before its call returns

Operation ==
  [op : {"connect", "inspect", "start", "ready", "compose", "restart", "arm", "stop", "storage",
         "destroy"},
   id : Services]

ASSUME OrchestratorAssumption ==
  /\ Armed \subseteq {s \in Services : Activation[s] = "lazy"}
  /\ Operations \in [Clients -> SUBSET Operation]
  /\ Cancels \in BOOLEAN

VARIABLES
  lifecycle,         \* the reducer's state, published under the gate
  timers,            \* the idle timer of each service, and the breakers' cooldowns
  client             \* [Clients -> Caller]

lifecycleVars == <<lifecycle, timers, client>>
vars == <<serviceVars, lifecycleVars>>

-----------------------------------------------------------------------------
NoOperation == [op |-> "none", id |-> "none"]

\* Where a call is: before its node check, before the gate, awaiting its waits,
\* then at the steps its operation adds, and done.
Stages == {"new", "gate", "await", "withdraw", "close", "open", "stopping", "work",
           "working", "reserving", "remove", "removing", "unregister", "release", "done"}

\* awaiting: the services whose wait is unresolved, or whose states it watches;
\* failed: one wait failed or the request was refused; generation: what a stop
\* waits to see gone.
Caller ==
  [call : Operation \union {NoOperation}, at : Stages, awaiting : SUBSET Services,
   failed : BOOLEAN, generation : Nat]

NewCaller ==
  [call |-> NoOperation, at |-> "new", awaiting |-> {}, failed |-> FALSE, generation |-> 0]

\* A service's idle timer is replaced when re-armed; nothing cancels a cooldown.
IdleTimer == [generation : Nat, epoch : Nat]
NoTimer == [generation |-> 0, epoch |-> 0]

OrchestratorTypeOK ==
  /\ TypeOK
  /\ lifecycle \in LifecycleState
  /\ timers \in [idle : [Services -> IdleTimer], cooldown : SUBSET (Services \X Nat)]
  /\ client \in [Clients -> Caller]

OrchestratorInit ==
  /\ Init
  /\ lifecycle =
       [members |-> Services,
        services |-> [s \in Services |-> initialService(IF s \in Armed THEN "lazy" ELSE "stopped")],
        generationCounters |-> [s \in Services |-> 1]]
  /\ timers = [idle |-> [s \in Services |-> NoTimer], cooldown |-> {}]
  /\ client = [c \in Clients |-> NewCaller]

-----------------------------------------------------------------------------
Tagged(out, tag) == {x \in out : x.tag = tag}

\* Executions the commands fork.
Forked(out) ==
  {[op |-> x.tag, id |-> x.id, generation |-> x.generation] :
     x \in Tagged(out, "Launch") \union Tagged(out, "Stop") \union Tagged(out, "Reprobe")}

\* A caller at its next stage.
Arrive(caller, at) ==
  IF at = "done" THEN [NewCaller EXCEPT !.at = "done"] ELSE [caller EXCEPT !.at = at]

\* awaitStopped and awaitDestroyReservation watch the published states, each one
\* in turn from the first they see, for the one that ends the wait.
Observes(caller) == caller.at \in {"stopping", "reserving"}

Seen(caller, st) ==
  LET service == st.services[caller.call.id]
      pending == \/ /\ caller.at = "stopping" /\ service.phase.tag = "Stopping"
                    /\ service.phase.generation = caller.generation
                 \/ caller.at = "reserving" /\ service.destroy = "requested"
  IN IF pending /\ ~service.cleanupFailure THEN [caller EXCEPT !.awaiting = {caller.call.id}]
     ELSE IF caller.at = "stopping" THEN Arrive(caller, "done")
     ELSE [caller EXCEPT !.awaiting = {},
             !.at = IF service.destroy = "reserved" THEN "remove" ELSE "release"]

\* A caller after the outcomes of its waits, which are settled for good.
Resolved(caller, c, step) ==
  IF Observes(caller)
    THEN IF caller.awaiting = {} THEN caller ELSE Seen(caller, step.st)
    ELSE [caller EXCEPT
            !.awaiting = @ \ {x.id : x \in {y \in Tagged(step.out, "AdmitConnection") : y.client = c}},
            !.failed = @ \/ \E x \in Tagged(step.out, "FailConnection") :
                              x.client = c /\ x.id \in caller.awaiting]

\* Timers the commands arm, on top of those still running.
ArmedBy(running, out) ==
  [idle |-> [s \in Services |->
     IF \E x \in Tagged(out, "ArmIdleTimer") : x.id = s
       THEN LET x == CHOOSE x \in Tagged(out, "ArmIdleTimer") : x.id = s
            IN [generation |-> x.generation, epoch |-> x.epoch]
       ELSE running.idle[s]],
   cooldown |-> running.cooldown
                  \union {<<x.id, x.generation>> : x \in Tagged(out, "ArmCooldownTimer")}]

\* applyLocked, given a reduced sequence of events and what the dispatching step
\* itself leaves of the forked commands, the timers and the clients.
Publish(step, pending, running, callers) ==
  /\ lifecycle' = step.st
  /\ commands' = pending \union Forked(step.out)
  /\ timers' = ArmedBy(running, step.out)
  /\ client' = [c \in Clients |-> Resolved(callers[c], c, step)]

\* A fiber's outcome as the reducer's event.
EventOf(f, quiet, st) ==
  LET s == f.id
      g == f.generation
  IN CASE OutcomeOf(f) = "SessionAvailable"   -> SessionAvailable(st, s, g)
       [] OutcomeOf(f) = "LaunchSucceeded"    -> LaunchSucceeded(st, s, g)
       [] OutcomeOf(f) = "ReadinessRecovered" -> ReadinessRecovered(st, s, g)
       [] OutcomeOf(f) = "ReadinessLost"      -> ReadinessLost(st, s, g)
       [] OutcomeOf(f) = "LaunchFailed"       -> LaunchFailed(st, s, g, quiet)
       [] OutcomeOf(f) = "SessionLost"        -> SessionLost(st, s, g, quiet)
       [] OutcomeOf(f) = "Exited"             -> Exited(st, s, g, f.kind = "stop")
       [] OutcomeOf(f) = "StopFailed"         -> StopFailed(st, s, g, f.kind # "stop", quiet)

\* A failure is quiet when an earlier one is on record and long past.
MayBeQuiet(f) == {q \in BOOLEAN : q => lifecycle.services[f.id].breaker.failures > 0}

Deliver(f) ==
  /\ Delivered(f)
  /\ \E quiet \in MayBeQuiet(f) :
       Publish(settle(EventOf(f, quiet, lifecycle)), commands, timers, client)

-----------------------------------------------------------------------------
\* Steps that leave the executions alone.
Dispatch(step, running, callers) ==
  /\ Publish(step, commands, running, callers)
  /\ UNCHANGED <<fibers, attempt, stoppedThrough, session, working, ended, failures>>

IdleTimerFires(s) ==
  LET timer == timers.idle[s]
  IN /\ timer # NoTimer
     /\ Dispatch(settle(IdleElapsed(lifecycle, s, timer.generation, timer.epoch)),
                 [timers EXCEPT !.idle[s] = NoTimer], client)

CooldownTimerFires(s, openUntil) ==
  /\ <<s, openUntil>> \in timers.cooldown
  /\ Dispatch(settle(CooldownElapsed(lifecycle, s, openUntil)),
              [timers EXCEPT !.cooldown = @ \ {<<s, openUntil>>}], client)

-----------------------------------------------------------------------------
Traffic(call) == call.op \in {"connect", "inspect"}
Waiting(call) == Traffic(call) \/ call.op \in {"start", "ready", "compose", "restart"}

\* explicitWaits: every prerequisite, and the target, which Order puts after them.
WaitIds(call) ==
  IF Traffic(call) THEN {call.id}
  ELSE IF Waiting(call) THEN prerequisiteClosure[call.id] \union {call.id} ELSE {}

RequiresReady(call, s) == s # call.id \/ call.op \in {"connect", "ready", "compose"}

Requested(st, call) ==
  CASE call.op \in {"start", "compose"} -> StartRequested(st, call.id)
    [] call.op = "restart" -> RestartRequested(st, call.id)
    [] call.op = "arm"     -> ArmRequested(st, call.id)
    [] call.op = "stop"    -> StopRequested(st, call.id)
    [] call.op = "storage" -> StorageReserved(st, call.id)
    [] call.op = "destroy" -> DestroyRequested(st, call.id)
    [] OTHER               -> Ignored(st)

Awaited(st, c, call, s) ==
  IF Traffic(call) THEN ConnectionOpened(st, s, c, RequiresReady(call, s))
                   ELSE ReadinessAwaited(st, s, c, RequiresReady(call, s))

FirstReduced(call) ==
  IF Traffic(call) \/ call.op = "ready" THEN Ignored(lifecycle)
  ELSE settle(Requested(lifecycle, call))

\* The requests of a call and its waits, reduced one after the other under one gate.
Reduced(c, call) ==
  LET after[i \in 0..Len(Order)] ==
        IF i = 0 THEN FirstReduced(call)
        ELSE IF Order[i] \notin WaitIds(call) THEN after[i - 1]
        ELSE settle(Also(Awaited(after[i - 1].st, c, call, Order[i]), after[i - 1].out))
  IN after[Len(Order)]

\* The withdrawal of every wait of a call.
Withdrawn(c, call) ==
  LET after[i \in 0..Len(Order)] ==
        IF i = 0 THEN Ignored(lifecycle)
        ELSE IF Order[i] \notin WaitIds(call) THEN after[i - 1]
        ELSE settle(Also(WaiterCancelled(after[i - 1].st, Order[i], c), after[i - 1].out))
  IN after[Len(Order)]

Goes(c, at) == [client EXCEPT ![c] = Arrive(@, at)]

Moved(callers) == client' = callers /\ UNCHANGED <<serviceVars, lifecycle, timers>>

\* Owner.ts's definitionGate lets one destroy run at a time.
Destroying(c) == client[c].call.op = "destroy" /\ client[c].at # "done"

DependentsConfigured(s) == {d \in lifecycle.members : s \in Prerequisites[d]}

\* A call checks that its instance is registered, then queues for the gate.
Call(c) ==
  /\ client[c].at = "new"
  /\ \E call \in Operations[c] :
       /\ call.op = "destroy" => \A other \in Clients : ~Destroying(other)
       /\ Moved(IF \/ call.id \notin lifecycle.members
                   \/ call.op = "destroy" /\ DependentsConfigured(call.id) # {}
                  THEN Goes(c, "done")
                  ELSE [client EXCEPT ![c] = [NewCaller EXCEPT !.call = call, !.at = "gate"]])

\* Where a dispatched call goes next.
NextStage(call, step) ==
  LET phase == step.st.services[call.id].phase
  IN CASE Waiting(call) -> "await"
       [] call.op = "destroy" -> IF Rejected(call.id) \in step.out THEN "release" ELSE "reserving"
       [] call.op = "storage" /\ Rejected(call.id) \notin step.out -> "work"
       [] call.op = "stop" /\ Rejected(call.id) \notin step.out /\ phase.tag = "Stopping" -> "stopping"
       [] OTHER -> "done"

Enter(c) ==
  LET call == client[c].call
      step == Reduced(c, call)
      stage == NextStage(call, step)
  IN /\ client[c].at = "gate"
     /\ Dispatch(step, timers,
          IF stage = "done" THEN Goes(c, "done")
          ELSE [client EXCEPT ![c] =
                  [@ EXCEPT !.at = stage, !.awaiting = WaitIds(call),
                            !.failed = Rejected(call.id) \in step.out,
                            !.generation = IF stage = "stopping"
                                             THEN step.st.services[call.id].phase.generation ELSE 0]])

Unresolved(c) == client[c].failed \/ client[c].awaiting # {}

Admitted(c) ==
  /\ client[c].at = "await" /\ ~Unresolved(c)
  /\ Moved(Goes(c, IF Traffic(client[c].call) THEN "open" ELSE "done"))

\* The one budget of a connection covers the gate too, and may race its admission.
Expires(c) ==
  /\ client[c].at \in {"gate", "await"}
  /\ Traffic(client[c].call)
  /\ Moved(Goes(c, IF client[c].at = "gate" THEN "done" ELSE "withdraw"))

Fails(c) ==
  /\ client[c].at = "await" /\ client[c].failed
  /\ Moved(Goes(c, "withdraw"))

\* Fault: whoever gives up holds no lease.
OwesNothing(c) == FALSE

\* A connection that was admitted before its withdrawal has a lease to give back.
OwesLease(c) == Traffic(client[c].call) /\ ~Unresolved(c)

Withdraw(c) ==
  /\ client[c].at = "withdraw"
  /\ Dispatch(Withdrawn(c, client[c].call), timers, Goes(c, IF OwesLease(c) THEN "close" ELSE "done"))

\* The connection's scope closes, or its withdrawal found it admitted.
Close(c) ==
  /\ client[c].at \in {"open", "close"}
  /\ Dispatch(settle(ConnectionClosed(lifecycle, client[c].call.id)), timers, Goes(c, "done"))

\* A watcher starts with the state it finds.
Observe(c) ==
  /\ Observes(client[c]) /\ client[c].awaiting = {}
  /\ Moved([client EXCEPT ![c] = Seen(@, lifecycle)])

\* The caller goes away.  What was admitted runs on; data work is left to end.
Cancel(c) ==
  LET caller == client[c]
      destroying == caller.call.op = "destroy"
  IN /\ Cancels
     /\ \/ /\ caller.at = "gate"
           /\ Moved(Goes(c, IF destroying THEN "release" ELSE "done"))
        \/ /\ caller.at = "await"
           /\ Moved(Goes(c, "withdraw"))
        \/ /\ caller.at = "stopping"
           /\ Moved(Goes(c, "done"))
        \/ /\ caller.at \in {"work", "reserving", "remove"}
           /\ Moved(Goes(c, "release"))

\* storage and removeData under the execution lock; a removal may fail.
DataWork(c) ==
  /\ client[c].at \in {"work", "remove"}
  /\ BeginWork(client[c].call.id)
  /\ client' = Goes(c, IF client[c].at = "work" THEN "working" ELSE "removing")
  /\ UNCHANGED <<lifecycle, timers>>

DataWorkEnds(c) ==
  /\ client[c].at \in {"working", "removing"}
  /\ EndWork(client[c].call.id)
  /\ \E at \in IF client[c].at = "working" THEN {"release"} ELSE {"unregister", "release"} :
       client' = Goes(c, at)
  /\ UNCHANGED <<lifecycle, timers>>

Unregister(c) ==
  LET s == client[c].call.id
      removed == settle(GraphUpdated(lifecycle, s))
  IN /\ client[c].at = "unregister"
     /\ Dispatch(settle(Also(DestroyReleased(removed.st, s), removed.out)), timers, Goes(c, "done"))

Release(c) ==
  LET call == client[c].call
  IN /\ client[c].at = "release"
     /\ Dispatch(settle(IF call.op = "destroy" THEN DestroyReleased(lifecycle, call.id)
                                                ELSE StorageReleased(lifecycle, call.id)),
                 timers, Goes(c, "done"))

-----------------------------------------------------------------------------
\* What a caller does, in the order its call takes.
CallerStep(c) ==
  \/ Enter(c)
  \/ Observe(c)
  \/ Admitted(c)
  \/ Fails(c)
  \/ Withdraw(c)
  \/ DataWork(c)
  \/ DataWorkEnds(c)
  \/ Unregister(c)
  \/ Release(c)

ClientStep(c) == Call(c) \/ CallerStep(c) \/ Expires(c) \/ Cancel(c) \/ Close(c)

Next ==
  \/ \E c \in commands : Begin(c) /\ UNCHANGED lifecycleVars
  \/ \E f \in fibers : Run(f) /\ UNCHANGED lifecycleVars
  \/ \E f \in fibers : Deliver(f)
  \/ \E s \in Services : RuntimeExits(s) /\ UNCHANGED lifecycleVars
  \/ \E s \in Services : IdleTimerFires(s)
  \/ \E x \in timers.cooldown : CooldownTimerFires(x[1], x[2])
  \/ \E c \in Clients : ClientStep(c)

Spec == OrchestratorInit /\ [][Next]_vars

\* What is due of a service's executions and of a caller: when their steps below
\* can be taken.
AtSemaphore == {"acquire", "fence", "clean"}

ExecutionDue(s) ==
  \E f \in fibers : f.id = s /\ (f.at \in AtSemaphore => ~working[s])

CallerDue(c) ==
  \/ client[c].at \in {"gate", "withdraw", "working", "removing", "unregister", "release"}
  \/ client[c].at = "await" /\ (client[c].failed \/ ~Unresolved(c))
  \/ Observes(client[c]) /\ client[c].awaiting = {}
  \/ client[c].at \in {"work", "remove"} /\ ~working[client[c].call.id]

ExecutionStep(s) ==
  \E f \in fibers : f.id = s /\ (Deliver(f) \/ (Run(f) /\ UNCHANGED lifecycleVars))

\* Forked executions start and run: a preparation and a health check are taken
\* to return.  Storage work blocks an execution only while some caller's work
\* lasts, so weak fairness is enough.  It is written out where a step reduces
\* events, because TLC evaluates ENABLED of such a step too slowly.  Nothing
\* makes a caller call, give up, expire or close its connection.
Fairness ==
  /\ WF_vars(\E c \in commands : Begin(c) /\ UNCHANGED lifecycleVars)
  /\ \A s \in Services :
       []<>~ExecutionDue(s) \/ []<><<ExecutionStep(s)>>_vars
  /\ []<>(timers.cooldown = {}) \/ []<><<\E x \in timers.cooldown : CooldownTimerFires(x[1], x[2])>>_vars
  /\ \A c \in Clients :
       []<>~CallerDue(c) \/ []<><<CallerStep(c)>>_vars

FairSpec == Spec /\ Fairness

-----------------------------------------------------------------------------
PhaseAt(s) == lifecycle.services[s].phase
GenerationOf(s) == PhaseAt(s).generation
Up(s) == PhaseAt(s).tag \in {"Starting", "Running"}

\* Across a step, s is up as the same generation.
StaysUp(s) == Up(s) /\ Up(s)' /\ GenerationOf(s)' = GenerationOf(s)

\* The connections that an admission granted a lease, and that have not given
\* it back: open ones, and those whose budget ended at the very same moment.
HoldsLease(c, s) ==
  /\ Traffic(client[c].call) /\ client[c].call.id = s
  /\ \/ client[c].at \in {"open", "close"}
     \/ client[c].at \in {"await", "withdraw"} /\ ~Unresolved(c)

\* Leases are neither lost nor kept: a service counts exactly the connections
\* that hold one, though admission, expiry and withdrawal race each other
\* (Orchestrator.ts:691-701, Lifecycle.ts:692-697, 1196-1207).
LeasesConserved ==
  \A s \in lifecycle.members :
    lifecycle.services[s].leases = Cardinality({c \in Clients : HoldsLease(c, s)})

\* Nobody may ever ask to stop s.
NeverStopped(s) ==
  \A c \in Clients : \A call \in Operations[c] :
    call.op \in {"stop", "restart", "destroy"} => call.id # s

\* While nothing fails, a connection loses the service it was admitted to only to a
\* stop of that very service, and what it needs not at all: neither to sleep, however
\* stale the idle timer that fires, nor to a stop of a prerequisite that crosses it
\* (Lifecycle.ts:572-595, 828-849).
LeaseKeepsAwake ==
  failures = 0 =>
    \A c \in Clients, s \in Services : NeverStopped(s) /\ HoldsLease(c, s) =>
      \A p \in prerequisiteClosure[s] \union {s} : PhaseAt(p).tag = "Running"

\* Runtime resources exist only for the generation whose phase says so, so a
\* replacement is never launched, and a stop or a removal never reported, over
\* the remains of another (Lifecycle.ts:763-828, Service.ts:246-351).
ResourcesAreAccountedFor ==
  \A s \in Services : Held(s) =>
    /\ isUpOrWindingDown(PhaseAt(s))
    /\ PhaseAt(s).generation = session[s].generation

\* A service that is starting or running has every prerequisite running, and
\* the same generation of it from its launch to its end: none outlives the
\* process it connected to (Lifecycle.ts:550-564).
DependentsFollow ==
  [][\A d \in Services : \A p \in prerequisiteClosure[d] :
       /\ Up(d)' => PhaseAt(p)'.tag = "Running"
       /\ StaysUp(d) => GenerationOf(p)' = GenerationOf(p)]_lifecycle

InFlight(op, kind, s, g) ==
  \/ [op |-> op, id |-> s, generation |-> g] \in commands
  \/ \E f \in fibers : f.kind = kind /\ f.id = s /\ f.generation = g

\* Every phase that only an execution can end has that execution in flight, or
\* a recorded cleanup failure that the next request retries: no interruption,
\* fence or dropped outcome leaves a service winding down for ever.
PhasesAreDriven ==
  \A s \in lifecycle.members :
    LET phase == PhaseAt(s)
        g == phase.generation
    IN /\ phase.tag = "Starting" => InFlight("Launch", "launch", s, g)
       /\ phase.tag = "Stopping" /\ ~lifecycle.services[s].cleanupFailure =>
            InFlight("Stop", "stop", s, g) \/ InFlight("none", "exit", s, g)
       /\ phase.tag = "Running" /\ lifecycle.services[s].reprobing =>
            InFlight("Reprobe", "reprobe", s, g) \/ InFlight("none", "exit", s, g)

\* A generation's failure counts towards the breaker once, however many of its
\* executions report one (Lifecycle.ts:634-678, 790-828).
FailureCountsOnce ==
  [][\A s \in Services :
       lifecycle'.services[s].breaker.failures > lifecycle.services[s].breaker.failures =>
         Up(s) /\ ~StaysUp(s)]_lifecycle

\* Of one generation there is at most one launch and one readiness check at a
\* time (Lifecycle.ts:1174-1188).  Of stops there may be two: a failed launch or
\* an exit may report a failed cleanup, which a request retries, while a stop of
\* that generation is still on its way.
OneLaunchOneCheck ==
  /\ \A f, h \in fibers :
       LET same == f.id = h.id /\ f.generation = h.generation
           launches == f.kind = "launch" /\ h.kind = "launch"
           rechecks == f.kind = "reprobe" /\ (h.kind = "reprobe" \/ h.at = "check")
       IN same /\ (launches \/ rechecks) => f = h
  /\ \A c \in commands, f \in fibers :
       <<c.op, f.kind>> \in {<<"Launch", "launch">>, <<"Reprobe", "reprobe">>} =>
         <<c.id, c.generation>> # <<f.id, f.generation>>

AtData(c, s) ==
  client[c].call.id = s /\ client[c].at \in {"work", "working", "remove", "removing"}

\* Storage work and data removal of a registered service own it: its storage is
\* reserved, nothing of a runtime is left, and no other such work is under way,
\* whatever stops, starts and destroys cross it (Lifecycle.ts:1021-1059).
DataWorkIsExclusive ==
  \A s \in lifecycle.members, c \in Clients : AtData(c, s) =>
    /\ lifecycle.services[s].storageReserved
    /\ ~Held(s)
    /\ \A other \in Clients : AtData(other, s) => other = c

\* The clients that make calls of their own.
Callers == {c \in Clients : Operations[c] # {}}

\* An explicit request ends: a start, ready or restart waits without a budget,
\* but always gets the outcome of its target or of a prerequisite, and a stop
\* sees its generation gone or its cleanup failed (Lifecycle.ts:430-458,
\* Orchestrator.ts:826-859).
RequestsEnd ==
  \A c \in Callers :
    (client[c].at \notin {"new", "done"} /\ ~Traffic(client[c].call)) ~> client[c].at = "done"

\* A connection is admitted or refused without its budget having to end it,
\* unless what it needs keeps failing its check or holds on to resources: no
\* wakeup is lost to a sleep, a crash or a cooldown (Lifecycle.ts:1118-1242).
TrafficIsAnswered ==
  \A c \in Callers :
    (client[c].at = "await" /\ Traffic(client[c].call)) ~>
      \/ client[c].at # "await"
      \/ \E p \in prerequisiteClosure[client[c].call.id] \union {client[c].call.id} :
           lifecycle.services[p].readinessFailure \/ lifecycle.services[p].cleanupFailure

-----------------------------------------------------------------------------
\* The generations launched so far.
LastGeneration == [s \in Services |-> lifecycle.generationCounters[s] - 1]

\* Generation g of s has resources, or a launch that may still take them.
MayHold(s, g) ==
  \/ g # 0 /\ session[s].generation = g
  \/ MayAcquire(s, g) /\ stoppedThrough[s] < g

\* Its phase says so: what is winding down too, and nothing else.
AccountedFor ==
  \A s \in Services : \A g \in 1..LastGeneration[s] :
    MayHold(s, g) => isUpOrWindingDown(PhaseAt(s)) /\ GenerationOf(s) = g

\* A caller's stage is one of its operation, and one caller destroys at a time.
Orderly(caller) ==
  LET op == caller.call.op
      at == caller.at
  IN /\ op = "none" <=> at \in {"new", "done"}
     /\ at = "stopping" => op = "stop"
     /\ at \in {"work", "working"} => op = "storage"
     /\ at \in {"reserving", "remove", "removing", "unregister"} => op = "destroy"
     /\ at = "release" => op \in {"storage", "destroy"}

CallsAreOrderly ==
  /\ \A c \in Clients : Orderly(client[c])
  /\ \A c, d \in Clients : Destroying(c) /\ Destroying(d) => c = d

\* Who works on the data of a service has reserved its storage: a removal with the
\* reservation of its destroy, storage work with one of its own, until released.
Removing(caller, s) ==
  caller.call = [op |-> "destroy", id |-> s] /\ caller.at \in {"remove", "removing", "unregister"}

Storing(caller, s) ==
  caller.call = [op |-> "storage", id |-> s] /\ caller.at \in {"work", "working", "release"}

ReservationsAreHeld ==
  /\ \A s \in Services, c \in Clients :
       Removing(client[c], s) => lifecycle.services[s].destroy = "reserved"
  /\ \A s \in lifecycle.members, c \in Clients : Storing(client[c], s) =>
       /\ lifecycle.services[s].storageReserved
       /\ lifecycle.services[s].destroy # "reserved"
       /\ \A d \in Clients : Storing(client[d], s) => d = c

OwnerInv ==
  /\ OrchestratorTypeOK
  /\ Sound(lifecycle)
  /\ BoundaryInv(LastGeneration)
  /\ AccountedFor
  /\ CallsAreOrderly
  /\ ReservationsAreHeld
-----------------------------------------------------------------------------
(***************************************************************************)
(* How the executions follow the phases: given by the lifecycle state, the *)
(* commands and the fibers, because a step that delivers an outcome passes *)
(* through a state that none of the variables takes.                       *)
(***************************************************************************)
\* All that is under way, or was fenced, was launched.
Launched(st, cs, fs) ==
  /\ \A x \in cs \union fs : x.generation < st.generationCounters[x.id]
  /\ \A s \in Services : stoppedThrough[s] < st.generationCounters[s]

\* A generation that is up is not being stopped, cleaned up or fenced.
StopsAreDue(st, cs, fs) ==
  /\ \A c \in cs : c.op = "Stop" => ~UpAt(st.services[c.id], c.generation)
  /\ \A f \in fs : f.kind = "stop" \/ (f.kind = "exit" /\ f.at # "lost") =>
       ~UpAt(st.services[f.id], f.generation)
  /\ \A s \in Services : Stoppable(st.services[s]) =>
       stoppedThrough[s] < st.services[s].phase.generation

\* A launch that has not reported, so that its generation, if up, is starting, and
\* no check of it has failed before the launch is over.
Unreported == {"prepare", "acquire", "available", "failed", "retained"}

LaunchesAreFirst(st, cs, fs) ==
  /\ \A c \in cs : c.op = "Launch" /\ UpAt(st.services[c.id], c.generation) =>
       st.services[c.id].phase.tag = "Starting" /\ Unchecked(st.services[c.id])
  /\ \A f \in fs : f.kind = "launch" /\ UpAt(st.services[f.id], f.generation) =>
       /\ f.at \in Unreported => st.services[f.id].phase.tag = "Starting"
       /\ Unchecked(st.services[f.id])

\* A check of a generation that is up is one the reducer is waiting for.
ChecksAreAwaited(st, cs, fs) ==
  /\ \A c \in cs : c.op = "Reprobe" /\ UpAt(st.services[c.id], c.generation) =>
       st.services[c.id].reprobing
  /\ \A f \in fs : f.kind = "reprobe" /\ UpAt(st.services[f.id], f.generation) =>
       st.services[f.id].reprobing

\* Of one generation there is one check, after its launch is over.
Same(x, y) == x.id = y.id /\ x.generation = y.generation

OneCheck(cs, fs) ==
  /\ \A f \in fs : f.kind = "reprobe" =>
       /\ ReprobeCommand(f.id, f.generation) \notin cs
       /\ LaunchCommand(f.id, f.generation) \notin cs
       /\ \A h \in fs : h.kind \in {"launch", "reprobe"} /\ Same(f, h) => h = f
  /\ \A c \in cs : c.op = "Reprobe" =>
       /\ LaunchCommand(c.id, c.generation) \notin cs
       /\ \A h \in fs : h.kind = "launch" => ~Same(c, h)

\* Whatever runs has its session, and the executions that report on it while it
\* is up have found it.
HasSession(s, g) == session[s].generation = g /\ session[s].healthy

SessionsRun(st, fs) ==
  /\ \A s \in Services : st.services[s].phase.tag = "Running" =>
       HasSession(s, st.services[s].phase.generation)
  /\ \A f \in fs : UpAt(st.services[f.id], f.generation) =>
       /\ f.kind = "launch" /\ f.at \in {"available", "check", "succeeded", "unready"} =>
            HasSession(f.id, f.generation)
       /\ f.kind = "exit" => session[f.id].generation = f.generation

\* The execution that a phase waits for.
UnderWay(kind, s, g, steps, fs) ==
  \E f \in fs : f.kind = kind /\ f.id = s /\ f.generation = g /\ f.at \in steps

LaunchUnderWay(s, g, cs, fs) ==
  LaunchCommand(s, g) \in cs \/ UnderWay("launch", s, g, Unreported, fs)

StopUnderWay(s, g, cs, fs) ==
  \/ StopCommand(s, g) \in cs
  \/ UnderWay("stop", s, g, Steps, fs)
  \/ UnderWay("exit", s, g, {"exited", "stopFailed"}, fs)
  \/ UnderWay("exit", s, g, {"lost", "clean"}, fs) /\ session[s].generation = g

CheckUnderWay(s, g, cs, fs) ==
  ReprobeCommand(s, g) \in cs \/ UnderWay("reprobe", s, g, Steps, fs)

Awaits(service, s, cs, fs) ==
  LET g == service.phase.generation
  IN /\ service.phase.tag = "Starting" => LaunchUnderWay(s, g, cs, fs)
     /\ service.phase.tag = "Stopping" /\ ~service.cleanupFailure => StopUnderWay(s, g, cs, fs)
     /\ service.phase.tag = "Running" /\ service.reprobing => CheckUnderWay(s, g, cs, fs)

Driven(st, cs, fs) == \A s \in st.members : Awaits(st.services[s], s, cs, fs)

\* Together, in any state of the reducer and with any executions.
Coherent(st, cs, fs) ==
  /\ Rooted(st)
  /\ Newest(st)
  /\ Launched(st, cs, fs)
  /\ StopsAreDue(st, cs, fs)
  /\ LaunchesAreFirst(st, cs, fs)
  /\ ChecksAreAwaited(st, cs, fs)
  /\ OneCheck(cs, fs)
  /\ SessionsRun(st, fs)
  /\ Driven(st, cs, fs)

ExecutionsFollow == Coherent(lifecycle, commands, fibers)
-----------------------------------------------------------------------------
(***************************************************************************)
(* Who waits, and for whom a lease is counted: given by the lifecycle      *)
(* state, the commands so far and the callers before they are resolved,    *)
(* because a call's events are reduced one after another before any caller *)
(* sees what they command.                                                 *)
(***************************************************************************)
\* A connection that waits for service s, or that holds a lease of it.
Pending(caller, s) ==
  /\ Traffic(caller.call) /\ caller.call.id = s
  /\ caller.at \in {"await", "withdraw"} /\ ~caller.failed /\ caller.awaiting # {}

Holding(caller, s) ==
  /\ Traffic(caller.call) /\ caller.call.id = s
  /\ \/ caller.at \in {"open", "close"}
     \/ caller.at \in {"await", "withdraw"} /\ ~caller.failed /\ caller.awaiting = {}

\* A caller that has called, and was no connection or is none any more.
Spoken(caller) == caller.at # "new" /\ ~Traffic(caller.call)

\* Who holds a lease of s once the commands reach the callers.
Holders(callers, out, s) ==
  {c \in Clients : \/ Holding(callers[c], s)
                   \/ Pending(callers[c], s) /\ Admit(s, c) \in out}

\* A wait in the reducer is one that its caller is still at, and has had no answer.
WaitersWait(waiters, out, callers, s) ==
  /\ \A w \in waiters :
       IF w.kind = "traffic"
         THEN /\ Pending(callers[w.client], s)
              /\ Admit(s, w.client) \notin out /\ Fail(s, w.client) \notin out
         ELSE Spoken(callers[w.client])
  /\ \A w, v \in waiters : w.kind = "traffic" /\ v.client = w.client => v = w

\* Nobody is both admitted and refused, and every admission is counted.
TalliedAt(service, out, callers, s) ==
  /\ WaitersWait(service.waiters, out, callers, s)
  /\ \A c \in Clients : Pending(callers[c], s) /\ Admit(s, c) \in out => Fail(s, c) \notin out
  /\ IsFiniteSet(Holders(callers, out, s))
  /\ service.leases = Cardinality(Holders(callers, out, s))

Tallied(st, out, callers) == \A s \in st.members : TalliedAt(st.services[s], out, callers, s)

\* A call waits for what it asked for, and only a connection opens and closes.
AwaitsItsOwn(caller) ==
  /\ caller.at \in {"await", "withdraw"} => caller.awaiting \subseteq WaitIds(caller.call)
  /\ caller.at \in {"open", "close"} => Traffic(caller.call)

\* Between the steps, when every command has reached its caller.
LeasesAreTallied ==
  /\ Tallied(lifecycle, {}, client)
  /\ \A c \in Clients : AwaitsItsOwn(client[c])
-----------------------------------------------------------------------------
\* No execution reports a failure.
Faultless(fs) ==
  \A f \in fs : f.kind # "exit" /\ f.at \notin {"failed", "retained", "stopFailed"}

\* A caller makes the calls its client may make.
CallsItsOwn(caller, c) == caller.call \in Operations[c] \union {NoOperation}

\* The services that nobody may stop.
Spared == {s \in Services : NeverStopped(s)}

\* Leases keep awake what nobody may stop, as long as nothing fails.
LeasesKeepAwake ==
  /\ \A c \in Clients : CallsItsOwn(client[c], c)
  /\ failures = 0 => Faultless(fibers) /\ LeasedRun(lifecycle, Spared)
=============================================================================
