--------------------------- MODULE LifecycleOrder ---------------------------
(***************************************************************************)
(* settle as the code writes it: one walk over the services in topological *)
(* order, each turn over the state the turns before it left.  Lifecycle    *)
(* settles every service by itself from the state before the walk; here    *)
(* the two are compared on every event that can reach the reducer.         *)
(***************************************************************************)
EXTENDS Orchestrator, SequencesExt

settleInOrder(step) ==
  FoldLeft(LAMBDA acc, s :
             LET turn == settleService(acc.st, s) IN Step(turn.st, acc.out \union turn.out),
           Step(reserve(step.st), step.out), Order)

\* Every event about s, applied to st and not yet settled; a stale one leaves st.
ExecutionOutcomes(st, s) ==
  LET g == st.services[s].phase.generation
  IN {Ignored(st), SessionAvailable(st, s, g), LaunchSucceeded(st, s, g), ReadinessRecovered(st, s, g),
      ReadinessLost(st, s, g), LaunchFailed(st, s, g, FALSE), SessionLost(st, s, g, FALSE),
      Exited(st, s, g, TRUE), Exited(st, s, g, FALSE), StopFailed(st, s, g, TRUE, FALSE)}

Timeouts(st, s) ==
  {IdleElapsed(st, s, st.services[s].phase.generation, st.services[s].idleArmedEpoch),
   CooldownElapsed(st, s, st.services[s].breaker.openUntil)}

Requests(st, s) ==
  {StartRequested(st, s), RestartRequested(st, s), ArmRequested(st, s), StopRequested(st, s),
   DestroyRequested(st, s), DestroyReleased(st, s), StorageReserved(st, s), StorageReleased(st, s),
   GraphUpdated(st, s)}

CallerEvents(st, s) ==
  UNION {{ConnectionOpened(st, s, c, TRUE), ConnectionOpened(st, s, c, FALSE), ConnectionClosed(st, s),
          ReadinessAwaited(st, s, c, TRUE), ReadinessAwaited(st, s, c, FALSE),
          WaiterCancelled(st, s, c)} : c \in Clients}

EventsAbout(st, s) ==
  ExecutionOutcomes(st, s) \union Timeouts(st, s) \union Requests(st, s) \union CallerEvents(st, s)

\* What settle may find: the commands of the event itself only pass through it.
StatesAfterAnEvent(st) == UNION {{event.st : event \in EventsAbout(st, s)} : s \in st.members}

\* Whatever event comes next, the walk decides for each service what it would
\* decide by itself: no turn depends on the turns before it, so a service is
\* never launched, admitted or put to rest on account of a prerequisite's own
\* turn in the same pass (Lifecycle.ts:1118-1242).
WalkIsPointwise ==
  \A st \in StatesAfterAnEvent(lifecycle) :
    settleInOrder(Ignored(st)) = settle(Ignored(st))
=============================================================================
