------------------------------ MODULE Lifecycle ------------------------------
(***************************************************************************)
(* The pure lifecycle reducer of packages/stack/src/Lifecycle.ts: one      *)
(* operator per event, from a lifecycle state to the next state and the    *)
(* set of commands it emits, and the settling pass that follows each.      *)
(*                                                                         *)
(* Left out: messages and causes, the launch stage they quote, the restart *)
(* candidate (an input handed to the next launch), delays, and changes of  *)
(* a service's spec (a graph update here removes a member).  A failure     *)
(* that comes after breakerWindowMillis of quiet is one the environment    *)
(* calls quiet.  An open breaker is named after the generation whose       *)
(* failure opened it, where the code uses the time at which it closes.     *)
(***************************************************************************)
EXTENDS Instances, Naturals, FiniteSets, Sequences

CONSTANTS
  Prerequisites,        \* [Services -> SUBSET Services]: the direct ones
  Order,                \* Services in topological order
  Activation,           \* [Services -> {"eager", "lazy"}]
  Sleeps,               \* the services with an idleMillis
  Clients,              \* whoever waits: connections and explicit operations
  WaiterCap,            \* waiterCap
  BreakerThreshold      \* breakerThreshold

\* Every prerequisite of a service, direct or through another.
prerequisiteClosure ==
  [s \in Services |->
     {p \in Services : \A T \in SUBSET Services :
        Prerequisites[s] \subseteq T /\ (\A t \in T : Prerequisites[t] \subseteq T) => p \in T}]

transitiveDependents == [s \in Services |-> {d \in Services : s \in prerequisiteClosure[d]}]

ASSUME LifecycleAssumption ==
  /\ Prerequisites \in [Services -> SUBSET Services]
  /\ Activation \in [Services -> {"eager", "lazy"}]
  /\ Sleeps \subseteq Services
  /\ WaiterCap \in Nat \ {0}
  /\ BreakerThreshold \in Nat \ {0}

ASSUME OrderAssumption ==
  /\ Order \in Seq(Services)
  /\ {Order[i] : i \in DOMAIN Order} = Services
  /\ \A i, j \in DOMAIN Order : Order[i] = Order[j] => i = j
  /\ \A i, j \in DOMAIN Order : Order[i] \in prerequisiteClosure[Order[j]] => i < j

-----------------------------------------------------------------------------
\* The generation is 0 when stopped; crash marks a runtime that exited by itself.
Phase ==
  [tag : {"Stopped", "Starting", "Running", "Stopping", "Failed"},
   generation : Nat, ready : BOOLEAN, crash : BOOLEAN]

PhaseOf(tag, g) == [tag |-> tag, generation |-> g, ready |-> FALSE, crash |-> FALSE]

Stopped == PhaseOf("Stopped", 0)
Starting(g) == PhaseOf("Starting", g)
Running(g, ready) == [PhaseOf("Running", g) EXCEPT !.ready = ready]
Stopping(g, crash) == [PhaseOf("Stopping", g) EXCEPT !.crash = crash]
Failed(g) == PhaseOf("Failed", g)

Waiter == [client : Clients, kind : {"traffic", "explicit"}, requireReady : BOOLEAN]

ServiceState ==
  [intent : {"eager", "lazy", "stopped"},
   phase : Phase,
   leases : Nat,
   idleEpoch : Nat,
   idleArmedEpoch : Nat,                 \* 0 while no idle timer is armed
   breaker : [failures : Nat, openUntil : Nat],
   waiters : SUBSET Waiter,
   relaunchForced : BOOLEAN,
   storageReserved : BOOLEAN,
   destroy : {"none", "requested", "reserved"},
   readinessFailure : BOOLEAN,
   reprobing : BOOLEAN,
   cleanupFailure : BOOLEAN]

initialBreaker == [failures |-> 0, openUntil |-> 0]

initialService(intent) ==
  [intent |-> intent, phase |-> Stopped, leases |-> 0, idleEpoch |-> 0, idleArmedEpoch |-> 0,
   breaker |-> initialBreaker, waiters |-> {}, relaunchForced |-> FALSE,
   storageReserved |-> FALSE, destroy |-> "none", readinessFailure |-> FALSE,
   reprobing |-> FALSE, cleanupFailure |-> FALSE]

\* The whole state: the members of the graph, and for each service its state
\* and the next generation it will be launched as.
LifecycleState ==
  [members : SUBSET Services,
   services : [Services -> ServiceState],
   generationCounters : [Services -> Nat]]

-----------------------------------------------------------------------------
\* The reducer's commands, one shape for all: who for a connection, and a
\* generation or epoch where the command carries one.
LifecycleCommand(tag, s, g) == [tag |-> tag, id |-> s, generation |-> g]
WaiterCommand(tag, s, c) == [tag |-> tag, id |-> s, client |-> c]

Stop(s, g) == LifecycleCommand("Stop", s, g)
Admit(s, c) == WaiterCommand("AdmitConnection", s, c)
Fail(s, c) == WaiterCommand("FailConnection", s, c)
Rejected(s) == [tag |-> "RequestRejected", id |-> s]

\* A step's result: the next state and what it commands.
Step(st, out) == [st |-> st, out |-> out]

\* An event that changes nothing.
Ignored(st) == Step(st, {})

Also(step, out) == [step EXCEPT !.out = @ \union out]

Put(st, s, service) == [st EXCEPT !.services[s] = service]

-----------------------------------------------------------------------------
isUpOrWindingDown(phase) == phase.tag \in {"Starting", "Running", "Stopping"}
isReady(phase) == phase.tag = "Running" /\ phase.ready

ownsDemand(service) ==
  \/ service.intent = "eager" /\ service.phase.tag # "Failed"
  \/ service.leases > 0
  \/ service.waiters # {}
  \/ service.relaunchForced

dependentIsActive(service) ==
  service.intent # "stopped" \/ ownsDemand(service) \/ isUpOrWindingDown(service.phase)

isActiveForGraphUpdate(service) ==
  \/ isUpOrWindingDown(service.phase)
  \/ service.leases > 0
  \/ service.waiters # {}
  \/ service.storageReserved
  \/ service.relaunchForced

Dependents(st, s) == transitiveDependents[s] \intersect st.members

\* Fault: dependents do not count.
OwnDemandOnly(st, s) == ownsDemand(st.services[s])

hasDemand(st, s) ==
  \/ ownsDemand(st.services[s])
  \/ \E d \in Dependents(st, s) :
       ownsDemand(st.services[d]) \/ isUpOrWindingDown(st.services[d].phase)

\* Fault: a prerequisite on its way is good enough.
prerequisitesUnderWay(st, s) ==
  \A p \in prerequisiteClosure[s] : p \in st.members /\ isUpOrWindingDown(st.services[p].phase)

prerequisitesSatisfied(st, s) ==
  \A p \in prerequisiteClosure[s] : p \in st.members /\ isReady(st.services[p].phase)

admissionReady(st, s) == isReady(st.services[s].phase) /\ prerequisitesSatisfied(st, s)
sessionReady(st, s) == st.services[s].phase.tag = "Running" /\ prerequisitesSatisfied(st, s)

isBreakerOpen(breaker) == breaker.openUntil # 0

\* Fault: dependents that are only armed or up do not block a stop.
waitingDependents(st, s) == {d \in Dependents(st, s) : st.services[d].waiters # {}}

activeDependents(st, s) == {d \in Dependents(st, s) : dependentIsActive(st.services[d])}

blocksWaiters(st, s) ==
  \/ \E w \in st.services[s].waiters : w.requireReady
  \/ \E d \in Dependents(st, s) : st.services[d].waiters # {}

-----------------------------------------------------------------------------
\* Helpers that several events share.

failAllWaiters(s, service) == {Fail(s, w.client) : w \in service.waiters}

Explicit(service) == {w \in service.waiters : w.kind = "explicit"}

\* The explicit waits on any dependent of s end with s's outcome.
failExplicitDependentWaiters(st, s) ==
  Step([st EXCEPT !.services = [d \in Services |->
          IF d \in Dependents(st, s)
            THEN [st.services[d] EXCEPT !.waiters = @ \ Explicit(st.services[d])]
            ELSE st.services[d]]],
       UNION {{Fail(d, w.client) : w \in Explicit(st.services[d])} : d \in Dependents(st, s)})

\* Blocked cleanups among Ss are tried again.
CleanupsPending(st, Ss) ==
  {s \in Ss \intersect st.members :
     st.services[s].phase.tag = "Stopping" /\ st.services[s].cleanupFailure}

\* Fault: the failure is forgotten and nothing is tried.
forgetCleanups(st, Ss) ==
  Ignored([st EXCEPT !.services = [s \in Services |->
             IF s \in CleanupsPending(st, Ss)
               THEN [st.services[s] EXCEPT !.cleanupFailure = FALSE] ELSE st.services[s]]])

retryCleanups(st, Ss) ==
  Step([st EXCEPT !.services = [s \in Services |->
          IF s \in CleanupsPending(st, Ss)
            THEN [st.services[s] EXCEPT !.cleanupFailure = FALSE] ELSE st.services[s]]],
       {Stop(s, st.services[s].phase.generation) : s \in CleanupsPending(st, Ss)})

retryBlockedCleanup(st, s) == retryCleanups(st, prerequisiteClosure[s] \union {s})

dependentsUp(st, s) ==
  {d \in Dependents(st, s) : st.services[d].phase.tag \in {"Starting", "Running"}}

stopDependentsOfLostSession(st, s) ==
  LET up == dependentsUp(st, s)
  IN Step([st EXCEPT !.services = [d \in Services |->
             IF d \in up
               THEN [st.services[d] EXCEPT !.phase = Stopping(@.generation, FALSE)]
               ELSE st.services[d]]],
          {Stop(d, st.services[d].phase.generation) : d \in up})

rearmPrerequisites(st, s) ==
  [st EXCEPT !.services = [p \in Services |->
     IF p \in prerequisiteClosure[s] \intersect st.members /\ st.services[p].intent = "stopped"
       THEN [st.services[p] EXCEPT !.intent = Activation[p]] ELSE st.services[p]]]

\* The breaker after one more failure of generation g, and its cooldown timer.
countFailure(breaker, g, quiet) ==
  LET n == IF quiet /\ breaker.failures > 0 THEN 1 ELSE breaker.failures + 1
  IN [failures |-> n, openUntil |-> IF n < BreakerThreshold THEN 0 ELSE g]

\* Fault: an open breaker has no timer to close it.
noCooldown(s, breaker) == {}

cooldown(s, breaker) ==
  IF isBreakerOpen(breaker) THEN {LifecycleCommand("ArmCooldownTimer", s, breaker.openUntil)} ELSE {}

\* A launch failure or a crash of generation g, which leaves s in `phase`.
recordFailure(st, s, g, quiet, phase) ==
  LET service == st.services[s]
      told == failExplicitDependentWaiters(st, s)
      breaker == countFailure(service.breaker, g, quiet)
  IN Step(Put(told.st, s, [service EXCEPT !.phase = phase, !.waiters = {}, !.breaker = breaker,
                             !.idleArmedEpoch = 0, !.relaunchForced = FALSE,
                             !.readinessFailure = FALSE, !.reprobing = FALSE]),
          told.out \union failAllWaiters(s, service) \union cooldown(s, breaker))

-----------------------------------------------------------------------------
(***************************************************************************)
(* applyEvent, one operator per event.  An event that does not fit the     *)
(* state of its service is ignored.                                        *)
(***************************************************************************)
AtPhase(st, s, g, tags) ==
  /\ s \in st.members
  /\ st.services[s].phase.tag \in tags
  /\ st.services[s].phase.generation = g

openWaiter(st, s, c, requireReady, kind) ==
  LET service == st.services[s]
      eligible == IF requireReady THEN admissionReady(st, s) ELSE sessionReady(st, s)
      waiter == [client |-> c, kind |-> kind, requireReady |-> requireReady]
      full == Cardinality({w \in service.waiters : w.kind = "traffic"}) >= WaiterCap
  IN CASE s \notin st.members -> Ignored(st)
       [] s \in st.members /\ service.intent = "stopped" -> Step(st, {Fail(s, c)})
       [] s \in st.members /\ service.intent # "stopped" /\ eligible ->
            Step(IF kind = "traffic" THEN Put(st, s, [service EXCEPT !.leases = @ + 1]) ELSE st,
                 {Admit(s, c)})
       [] OTHER ->
            IF isBreakerOpen(service.breaker) \/ (kind = "traffic" /\ full)
              THEN Step(st, {Fail(s, c)})
              ELSE retryBlockedCleanup(
                     Put(st, s, [service EXCEPT !.waiters = @ \union {waiter}]), s)

ConnectionOpened(st, s, c, requireReady) == openWaiter(st, s, c, requireReady, "traffic")
ReadinessAwaited(st, s, c, requireReady) == openWaiter(st, s, c, requireReady, "explicit")

ConnectionClosed(st, s) ==
  Step([st EXCEPT !.services[s].leases = IF @ = 0 THEN 0 ELSE @ - 1], {})

SessionAvailable(st, s, g) ==
  IF AtPhase(st, s, g, {"Starting"})
    THEN Step(Put(st, s, [st.services[s] EXCEPT !.phase = Running(g, FALSE),
                            !.readinessFailure = FALSE, !.reprobing = FALSE]), {})
    ELSE Ignored(st)

Ready(st, s, g) ==
  Step(Put(st, s, [st.services[s] EXCEPT !.phase = Running(g, TRUE),
                     !.readinessFailure = FALSE, !.reprobing = FALSE]), {})

LaunchSucceeded(st, s, g) ==
  IF AtPhase(st, s, g, {"Starting", "Running"}) /\ ~st.services[s].phase.ready
    THEN Ready(st, s, g) ELSE Ignored(st)

ReadinessRecovered(st, s, g) ==
  IF AtPhase(st, s, g, {"Running"}) THEN Ready(st, s, g) ELSE Ignored(st)

LaunchFailed(st, s, g, quiet) ==
  IF AtPhase(st, s, g, {"Starting"})
    THEN recordFailure(st, s, g, quiet, Failed(g)) ELSE Ignored(st)

SessionLost(st, s, g, quiet) ==
  IF AtPhase(st, s, g, {"Starting", "Running"})
    THEN LET lost == recordFailure(st, s, g, quiet, Stopping(g, TRUE))
         IN Also(stopDependentsOfLostSession(lost.st, s), lost.out)
    ELSE Ignored(st)

\* Fault: the generation of an outcome does not matter.
AnyGeneration(service, g) == TRUE

\* An outcome of another generation than the service's own is stale.
Current(service, g) == service.phase.generation = g

\* An explicit stop that arrived during a crash's cleanup wins.
Exited(st, s, g, requested) ==
  LET service == st.services[s]
      stopping == service.phase.tag = "Stopping"
      crash == stopping /\ service.intent # "stopped" /\ service.phase.crash
  IN IF s \in st.members /\ Current(service, g) /\ (stopping \/ requested)
       THEN Step(Put(st, s, [service EXCEPT !.phase = IF crash THEN Failed(g) ELSE Stopped,
                               !.idleArmedEpoch = 0, !.readinessFailure = FALSE,
                               !.reprobing = FALSE, !.cleanupFailure = FALSE]), {})
       ELSE Ignored(st)

\* Fault: a failure counts whenever one is reported.
CountsAgain(service, failure) == failure

\* A generation that is winding down or failed has been counted.
Counts(service, failure) == failure /\ service.phase.tag \notin {"Stopping", "Failed"}

\* failure: a launch failure or a crash ended the generation whose cleanup failed.
StopFailed(st, s, g, failure, quiet) ==
  LET service == st.services[s]
      told == failExplicitDependentWaiters(st, s)
      counted == Counts(service, failure)
      breaker == IF counted THEN countFailure(service.breaker, g, quiet) ELSE service.breaker
      crash == IF service.phase.tag = "Stopping" THEN service.phase.crash ELSE failure
  IN IF s \in st.members /\ Current(service, g)
       THEN Step(Put(told.st, s,
                   [service EXCEPT !.phase = Stopping(g, crash), !.waiters = {},
                      !.breaker = breaker, !.idleArmedEpoch = 0, !.relaunchForced = FALSE,
                      !.readinessFailure = FALSE, !.reprobing = FALSE, !.cleanupFailure = TRUE]),
                 told.out \union failAllWaiters(s, service)
                   \union (IF counted THEN cooldown(s, breaker) ELSE {}))
       ELSE Ignored(st)

\* Waits already queued for this readiness get the check's failure.
ReadinessLost(st, s, g) ==
  LET service == st.services[s]
      told == failExplicitDependentWaiters(st, s)
      failed == {w \in service.waiters : w.requireReady}
  IN IF AtPhase(st, s, g, {"Running"})
       THEN Step(Put(told.st, s,
                   [service EXCEPT !.phase = Running(g, FALSE), !.waiters = @ \ failed,
                      !.readinessFailure = TRUE, !.reprobing = FALSE]),
                 told.out \union {Fail(s, w.client) : w \in failed})
       ELSE Ignored(st)

IdleElapsed(st, s, g, epoch) ==
  IF AtPhase(st, s, g, {"Running"}) /\ st.services[s].idleArmedEpoch = epoch /\ ~hasDemand(st, s)
    THEN Step(Put(st, s, [st.services[s] EXCEPT !.phase = Stopping(g, FALSE), !.idleArmedEpoch = 0]),
              {Stop(s, g)})
    ELSE Ignored(st)

CooldownElapsed(st, s, openUntil) ==
  IF s \in st.members /\ st.services[s].breaker.openUntil = openUntil
    THEN Step(Put(st, s, [st.services[s] EXCEPT !.breaker.openUntil = 0]), {})
    ELSE Ignored(st)

-----------------------------------------------------------------------------
\* Explicit requests.
Refused(st, s) == Step(st, {Rejected(s)})

\* The generation a stop or restart has to stop, if the service is up.
Stoppable(service) == service.phase.tag \in {"Starting", "Running"}

StopNow(s, service) ==
  IF Stoppable(service) THEN {Stop(s, service.phase.generation)} ELSE {}

StopRequested(st, s) ==
  LET service == st.services[s]
      phase == CASE Stoppable(service) -> Stopping(service.phase.generation, FALSE)
                 [] service.phase.tag = "Failed" -> Stopped
                 [] OTHER -> service.phase
      stopped == Put(st, s, [service EXCEPT !.intent = "stopped", !.waiters = {},
                               !.relaunchForced = FALSE, !.phase = phase])
  IN IF s \notin st.members THEN Ignored(st)
     ELSE IF activeDependents(st, s) # {} THEN Refused(st, s)
     ELSE Also(retryCleanups(stopped, {s}), failAllWaiters(s, service) \union StopNow(s, service))

StartRequested(st, s) ==
  LET service == st.services[s]
      forced == service.phase.tag \in {"Stopped", "Failed", "Stopping"}
      updated == Put(st, s, [service EXCEPT !.intent = Activation[s], !.breaker = initialBreaker,
                               !.relaunchForced = @ \/ forced])
      retried == retryCleanups(updated, {s})
  IN IF s \notin st.members THEN Ignored(st)
     ELSE IF service.destroy # "none" THEN Refused(st, s)
     ELSE Step(rearmPrerequisites(retried.st, s), retried.out)

RestartRequested(st, s) ==
  LET service == st.services[s]
      updated == Put(st, s, [service EXCEPT !.intent = Activation[s], !.breaker = initialBreaker,
                               !.relaunchForced = TRUE,
                               !.phase = IF Stoppable(service) THEN Stopping(@.generation, FALSE)
                                         ELSE @])
      retried == retryCleanups(updated, {s})
  IN IF s \notin st.members THEN Ignored(st)
     ELSE IF service.destroy # "none" \/ activeDependents(st, s) # {} THEN Refused(st, s)
     ELSE Step(rearmPrerequisites(retried.st, s), retried.out \union StopNow(s, service))

ArmRequested(st, s) ==
  IF s \in st.members /\ st.services[s].destroy = "none"
    THEN Step(Put(st, s, [st.services[s] EXCEPT !.intent = Activation[s],
                            !.breaker = initialBreaker]), {})
    ELSE Ignored(st)

StorageReserved(st, s) ==
  LET service == st.services[s]
      free == /\ service.destroy = "none" /\ ~service.storageReserved
              /\ service.phase.tag = "Stopped" /\ service.intent = "stopped"
  IN IF s \notin st.members THEN Ignored(st)
     ELSE IF free THEN Step(Put(st, s, [service EXCEPT !.storageReserved = TRUE]), {})
     ELSE Refused(st, s)

\* A destroy's own reservation ends only with DestroyReleased.
StorageReleased(st, s) ==
  Step([st EXCEPT !.services[s].storageReserved = @ /\ st.services[s].destroy = "reserved"], {})

DestroyRequested(st, s) ==
  LET stopped == StopRequested(st, s)
  IN IF s \notin st.members \/ Rejected(s) \in stopped.out THEN stopped
     ELSE [stopped EXCEPT !.st.services[s].destroy = IF @ = "none" THEN "requested" ELSE @]

DestroyReleased(st, s) ==
  LET service == st.services[s]
  IN Step(Put(st, s, [service EXCEPT !.destroy = "none",
                        !.storageReserved = @ /\ service.destroy # "reserved"]), {})

WaiterCancelled(st, s, c) ==
  Step([st EXCEPT !.services[s].waiters = {w \in @ : w.client # c}], {})

\* The graph without s.  A removed service is as one that was never added.
GraphUpdated(st, s) ==
  LET service == st.services[s]
  IN IF service.destroy # "reserved" /\ isActiveForGraphUpdate(service)
       THEN Refused(st, s)
       ELSE Step([Put(st, s, initialService("stopped")) EXCEPT !.members = @ \ {s}], {})

-----------------------------------------------------------------------------
(***************************************************************************)
(* settle.  The code walks the services in topological order, prerequisites *)
(* first.  What it decides for one depends on the others only through their *)
(* readiness, which the walk does not change, and through its dependents,   *)
(* which the walk has not reached: so each service settles by itself here,  *)
(* and LifecycleOrder compares the two.                                     *)
(***************************************************************************)
\* Fault: a destroy does not wait for the storage to be free.
ReservesAtOnce(service) == service.destroy = "requested" /\ service.phase.tag = "Stopped"

\* Fault: the reservation is only looked for when it is requested.
ReservesNever(service) == FALSE

\* A pending destroy takes the storage as soon as the service is stopped and free.
Reserves(service) ==
  service.destroy = "requested" /\ service.phase.tag = "Stopped" /\ ~service.storageReserved

reserve(st) ==
  [st EXCEPT !.services = [s \in Services |->
     IF s \in st.members /\ Reserves(st.services[s])
       THEN [st.services[s] EXCEPT !.destroy = "reserved", !.storageReserved = TRUE]
       ELSE st.services[s]]]

MayLaunch(st, s) ==
  LET service == st.services[s]
  IN /\ service.phase.tag \in {"Stopped", "Failed"}
     /\ service.intent # "stopped"
     /\ ~service.storageReserved
     /\ ~isBreakerOpen(service.breaker)
     /\ prerequisitesSatisfied(st, s)
     /\ hasDemand(st, s)

NextGeneration(st, s) == st.generationCounters[s]

launch(st, s) ==
  LET g == NextGeneration(st, s)
      launched == [st.services[s] EXCEPT !.phase = Starting(g), !.relaunchForced = FALSE,
                                         !.readinessFailure = FALSE, !.reprobing = FALSE]
  IN Step([Put(st, s, launched) EXCEPT !.generationCounters[s] = g + 1],
          {LifecycleCommand("Launch", s, g)})

\* Fault: a check under way is not waited for.
NeedsCheckNow(st, s) ==
  ~st.services[s].phase.ready /\ st.services[s].readinessFailure /\ blocksWaiters(st, s)

\* A blocking unhealthy session is checked again, one check at a time.
NeedsCheck(st, s) ==
  LET service == st.services[s]
  IN ~service.phase.ready /\ service.readinessFailure /\ ~service.reprobing /\ blocksWaiters(st, s)

reprobe(st, s) ==
  LET service == st.services[s]
  IN IF NeedsCheck(st, s)
       THEN Step(Put(st, s, [service EXCEPT !.reprobing = TRUE]),
                 {LifecycleCommand("Reprobe", s, service.phase.generation)})
       ELSE Ignored(st)

admit(st, s) ==
  LET service == st.services[s]
      admitted == {w \in service.waiters : prerequisitesSatisfied(st, s)
                                            /\ (~w.requireReady \/ service.phase.ready)}
  IN Step(Put(st, s, [service EXCEPT !.waiters = @ \ admitted,
                        !.leases = @ + Cardinality({w \in admitted : w.kind = "traffic"})]),
          {Admit(s, w.client) : w \in admitted})

\* Demand invalidates an armed timer; without it the service's idle time starts.
idle(st, s) ==
  LET service == st.services[s]
      armed == service.idleArmedEpoch # 0
      idles == service.intent = "lazy" /\ s \in Sleeps
      rests == ~hasDemand(st, s) /\ (service.phase.ready \/ service.readinessFailure)
      epoch == service.idleEpoch + 1
  IN CASE idles /\ armed /\ hasDemand(st, s) ->
            Step(Put(st, s, [service EXCEPT !.idleArmedEpoch = 0]), {})
       [] idles /\ ~armed /\ rests ->
            Step(Put(st, s, [service EXCEPT !.idleEpoch = epoch, !.idleArmedEpoch = epoch]),
                 {[tag |-> "ArmIdleTimer", id |-> s, generation |-> service.phase.generation,
                   epoch |-> epoch]})
       [] OTHER -> Ignored(st)

\* One service's turn in the pass.
settleService(st, s) ==
  IF s \in st.members /\ MayLaunch(st, s) THEN launch(st, s)
  ELSE IF s \in st.members /\ st.services[s].phase.tag = "Running"
    THEN LET probed == reprobe(st, s)
             admitted == admit(probed.st, s)
         IN Also(idle(admitted.st, s), probed.out \union admitted.out)
  ELSE Ignored(st)

settle(step) ==
  LET reserved == reserve(step.st)
      turn == [s \in Services |-> settleService(reserved, s)]
  IN Step([reserved EXCEPT
             !.services = [s \in Services |-> turn[s].st.services[s]],
             !.generationCounters = [s \in Services |-> turn[s].st.generationCounters[s]]],
          step.out \union UNION {turn[s].out : s \in Services})

-----------------------------------------------------------------------------
\* What holds of a service in every state the reducer reaches, with n the
\* generation it will be launched as next: only a stopped one has no generation,
\* and nothing runs where the storage is reserved.
SoundService(service, n) ==
  /\ IsFiniteSet(service.waiters)
  /\ service.phase.tag = "Stopped" <=> service.phase.generation = 0
  /\ service.phase.generation < n
  /\ service.storageReserved => service.phase.tag = "Stopped"
  /\ service.destroy = "reserved" => service.storageReserved

Sound(st) == \A s \in Services : SoundService(st.services[s], st.generationCounters[s])

UpAt(service, g) == Stoppable(service) /\ service.phase.generation = g

\* A service is up only while all that it needs is running.
Rooted(st) ==
  \A s \in Services : Stoppable(st.services[s]) =>
    /\ s \in st.members
    /\ \A p \in prerequisiteClosure[s] : p \in st.members /\ st.services[p].phase.tag = "Running"

\* What has a phase has it as the last generation that was launched.
Newest(st) ==
  \A s \in Services : st.services[s].phase.tag # "Stopped" =>
    st.services[s].phase.generation = st.generationCounters[s] - 1

\* Each service of Ss is there, and runs while anybody holds a lease of it.
LeasedRun(st, Ss) ==
  \A s \in Ss : /\ s \in st.members
                /\ st.services[s].leases # 0 => st.services[s].phase.tag = "Running"

\* No check of it has failed.
Unchecked(service) == ~service.readinessFailure /\ ~service.reprobing
=============================================================================
