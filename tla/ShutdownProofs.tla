--------------------------- MODULE ShutdownProofs ---------------------------
(***************************************************************************)
(* A stack's shutdown, for every set of services, clients, requesters and  *)
(* attached commands, and whichever of the host's events come: whoever is  *)
(* told that the stack was destroyed can rely on it, and a shutdown that   *)
(* succeeds leaves nothing running.                                        *)
(*                                                                         *)
(* The second rests on what a stop leaves, Halting: an event of the        *)
(* lifecycle never brings back what is halted, unless it starts or arms,   *)
(* which the gate refuses while the owner drains.  From there the proof    *)
(* follows the calls of the shutdown to their end.                         *)
(***************************************************************************)
EXTENDS Shutdown, OrchestratorProofs

\* The shutdown a claim begins is one of the mode it was claimed for.
LEMMA BegunFields ==
  ASSUME HostFields, NEW mode \in Modes, NEW response, host' = Begun(mode, response)
  PROVE  /\ host' = [at |-> "stopAll", mode |-> mode, response |-> response, jobs |-> host.jobs,
                     left |-> host.left, failed |-> host.failed, exit |-> host.exit]
         /\ host'.at = "stopAll" /\ host'.mode = mode /\ host'.failed = host.failed
<1>1. host = [at |-> host.at, mode |-> host.mode, response |-> host.response, jobs |-> host.jobs,
              left |-> host.left, failed |-> host.failed, exit |-> host.exit]
  BY DEF HostFields
<1>2. host' = [at |-> "stopAll", mode |-> mode, response |-> response, jobs |-> host.jobs,
               left |-> host.left, failed |-> host.failed, exit |-> host.exit]
  BY <1>1 DEF Begun
<1> QED
  BY <1>2

\* At first nobody has asked for anything.
LEMMA AnswersInit == ShutdownInit => AnswersInv
BY DEF ShutdownInit, AnswersInv, HostFields, Destroyed, Draining, Modes

-----------------------------------------------------------------------------
\* A step that leaves the mode and the requests alone, and that can only turn the
\* outcome to failure or the registration to gone, has to account for a success.
LEMMA BodyStep ==
  ASSUME AnswersInv, HostFields',
         host'.mode = host.mode, UNCHANGED request, registered' => registered,
         host.mode = "destroy" /\ host'.at \in {"finish", "ended"} /\ ~host'.failed => ~registered'
  PROVE  AnswersInv'
BY DEF AnswersInv, Destroyed

\* What the owner does for its services while the shutdown goes on.
LEMMA OwnerServesKeeps ==
  ASSUME AnswersInv, OwnerServes
  PROVE  AnswersInv'
<1> DEFINE fails == CallFails
<1>1. fails \in BOOLEAN
  BY DEF CallFails
<1>2. host' = [host EXCEPT !.failed = host.failed \/ fails] /\ UNCHANGED <<request, registered>>
  BY DEF OwnerServes
<1> HIDE DEF fails
<1>3. /\ host' = [at |-> host.at, mode |-> host.mode, response |-> host.response, jobs |-> host.jobs,
                  left |-> host.left, failed |-> host.failed \/ fails, exit |-> host.exit]
  BY <1>2 DEF AnswersInv, HostFields
<1>4. /\ HostFields'
      /\ host'.at = host.at /\ host'.mode = host.mode /\ (~host'.failed => ~host.failed)
  BY <1>1, <1>2, <1>3 DEF AnswersInv, HostFields, Draining
<1> QED
  BY <1>2, <1>4, BodyStep DEF AnswersInv

\* An attached command neither asks for a shutdown nor moves one.
LEMMA JobKeeps ==
  ASSUME AnswersInv, NEW a \in Attachments, JobsStep(a)
  PROVE  AnswersInv'
<1>1. UNCHANGED <<host, request, registered>>
  BY DEF JobsStep, Attach, Register, Finish, JobIs
<1> QED
  BY <1>1 DEF AnswersInv, HostFields, Destroyed, Draining

-----------------------------------------------------------------------------
\* The steps of the body: each fails, goes on, or has removed the registration.
LEMMA HostStepKeeps ==
  ASSUME AnswersInv, HostStep
  PROVE  AnswersInv'
<1> USE DEF AnswersInv
<1>1. CASE StopAll
  <2>1. /\ HostFields' /\ host'.mode = host.mode /\ host'.at = "interrupt"
    BY <1>1 DEF StopAll, HostFields, Draining
  <2> QED
    BY <1>1, <2>1, BodyStep DEF StopAll
<1>2. CASE \E a \in Attachments : Interrupt(a)
  <2>1. /\ HostFields' /\ host'.mode = host.mode /\ host'.at = "interrupt"
    BY <1>2 DEF Interrupt, HostFields, Draining
  <2> QED
    BY <1>2, <2>1, BodyStep DEF Interrupt
<1>3. CASE Cleanup
  <2>1. \/ host' = [host EXCEPT !.at = "finish", !.failed = TRUE]
        \/ host' = [host EXCEPT !.at = "permit"]
    BY <1>3 DEF Cleanup
  <2>2. /\ HostFields' /\ host'.mode = host.mode
        /\ host'.at = "permit" \/ host'.failed
    BY <1>3, <2>1 DEF Cleanup, HostFields, Draining
  <2> QED
    BY <1>3, <2>2, BodyStep DEF Cleanup
<1>4. CASE TakePermit
  <2>1. /\ HostFields' /\ host'.mode = host.mode /\ host'.at = "namespace"
    BY <1>4 DEF TakePermit, HostFields, Draining
  <2> QED
    BY <1>4, <2>1, BodyStep DEF TakePermit
<1>5. CASE NextInstance
  <2>1. PICK s \in host.left, blocked \in BOOLEAN :
          host' = [host EXCEPT !.left = host.left \ {s}, !.failed = host.failed \/ blocked]
    BY <1>5 DEF NextInstance
  <2>2. host.at = "namespace"
    BY <1>5 DEF NextInstance
  <2>3. /\ HostFields' /\ host'.mode = host.mode /\ host'.at = "namespace"
    BY <1>5, <2>1, <2>2 DEF NextInstance, HostFields, Draining
  <2> QED
    BY <1>5, <2>3, BodyStep DEF NextInstance
<1>6. CASE NamespaceDone
  <2>1. \/ host' = [host EXCEPT !.at = "remove"]
        \/ host' = [host EXCEPT !.at = "finish"] /\ (host.mode = "destroy" => host.failed)
        \/ host' = [host EXCEPT !.at = "finish", !.failed = TRUE]
    BY <1>6 DEF NamespaceDone, HostGoes, HostFields
  <2>2. /\ HostFields' /\ host'.mode = host.mode
        /\ host'.at = "remove" \/ host'.failed \/ host.mode # "destroy"
    BY <1>6, <2>1 DEF NamespaceDone, HostFields, Draining
  <2> QED
    BY <1>6, <2>2, BodyStep DEF NamespaceDone
<1>7. CASE RemoveStack
  <2>1. \/ registered' = FALSE /\ host' = [host EXCEPT !.at = "finish"]
        \/ UNCHANGED registered /\ host' = [host EXCEPT !.at = "finish", !.failed = TRUE]
    BY <1>7 DEF RemoveStack, HostGoes
  <2>2. /\ HostFields' /\ host'.mode = host.mode
        /\ ~registered' \/ (host'.failed /\ registered' = registered)
    BY <1>7, <2>1 DEF RemoveStack, HostFields, Draining
  <2> QED
    BY <1>7, <2>2, BodyStep DEF RemoveStack
<1>8. CASE CloseConnections
  <2>1. /\ HostFields' /\ host'.mode = host.mode /\ host'.failed = host.failed
    BY <1>8 DEF CloseConnections, HostFields, Draining, Cut, Closed
  <2>2. \A r \in Requesters : request'[r] = request[r] \/ request'[r] = Closed
    BY <1>8 DEF CloseConnections, Cut
  <2> QED
    BY <1>8, <2>1, <2>2 DEF CloseConnections, Destroyed, Closed
<1>9. CASE Return
  <2>1. UNCHANGED <<host, registered>> /\ HostFields'
    BY <1>9 DEF Return, HostFields, Draining, Cut, Closed
  <2>2. \A r \in Requesters : request'[r] = request[r] \/ request'[r] = Closed
    BY <1>9 DEF Return, Cut
  <2> QED
    BY <2>1, <2>2 DEF Destroyed, Closed
<1> QED
  BY <1>1, <1>2, <1>3, <1>4, <1>5, <1>6, <1>7, <1>8, <1>9 DEF HostStep

\* An answer is the outcome of the body, which removed the registration if the
\* shutdown is one that destroys.
LEMMA AnswerKeeps ==
  ASSUME AnswersInv, NEW r \in Requesters, Answer(r)
  PROVE  AnswersInv'
<1>1. UNCHANGED <<host, registered>> /\ HostFields'
  BY DEF Answer, AnswersInv, HostFields, Draining
<1>2. /\ \A q \in Requesters : q # r => request'[q] = request[q]
      /\ request'[r].mode = request[r].mode
      /\ request'[r].at = "ok" => ~host.failed
  BY DEF Answer, AnswersInv, HostFields
<1>3. request[r].mode = "destroy" /\ ~host.failed
        => host.mode = "release" \/ ~registered
  BY DEF Answer, BodyDone, AnswersInv, HostFields
<1> QED
  BY <1>1, <1>2, <1>3 DEF AnswersInv, Destroyed

-----------------------------------------------------------------------------
\* A request begins the shutdown, or joins one that does no less than it asks for.
LEMMA RequestKeeps ==
  ASSUME AnswersInv, NEW r \in Requesters, NEW mode \in {"stop", "destroy"}, RequestShutdown(r, mode)
  PROVE  AnswersInv'
<1>1. /\ request' = [request EXCEPT ![r] = [mode |-> mode, at |-> "joined"]]
      /\ UNCHANGED registered
  BY DEF RequestShutdown
<1>2. /\ request' \in [Requesters -> [mode : {"none", "stop", "destroy"},
                          at : {"new", "joined", "ok", "failed", "closed"}]]
      /\ \A q \in Requesters : q # r => request'[q] = request[q]
      /\ request'[r].mode = mode /\ request'[r].at = "joined"
  BY <1>1 DEF AnswersInv, HostFields
<1>3. CASE Draining
  <2>1. UNCHANGED host /\ ~(host.mode = "stop" /\ mode = "destroy") /\ host.mode # "none"
    BY <1>3 DEF RequestShutdown, Joins, AnswersInv, HostFields
  <2>2. HostFields'
    BY <1>2, <2>1 DEF AnswersInv, HostFields, Draining
  <2>3. mode = "destroy" => host.mode \in {"destroy", "release"}
    BY <2>1 DEF AnswersInv, HostFields, Modes
  <2> QED
    BY <1>1, <1>2, <2>1, <2>2, <2>3 DEF AnswersInv, Destroyed
<1>4. CASE ~Draining
  <2>1. host' = Begun(mode, r) /\ mode \in Modes
    BY <1>4 DEF RequestShutdown, Modes
  <2>2. HostFields' /\ host'.at = "stopAll" /\ host'.mode = mode
    BY <1>2, <2>1, BegunFields DEF AnswersInv, HostFields, Draining, Modes
  <2> QED
    BY <1>1, <1>2, <1>4, <2>2 DEF AnswersInv, Destroyed, HostFields, Draining
<1> QED
  BY <1>3, <1>4

\* An event of the host's own is taken once, and begins a shutdown if none is under
\* way; the loss of ownership may come with a registration that is gone.
LEMMA HostEventKeeps ==
  ASSUME AnswersInv, NEW e \in HostEvents, TakeEvent(e)
  PROVE  AnswersInv'
<1>1. /\ e \in {"signal", "creatorGone", "ownershipEnded"} /\ ModeOf[e] \in Modes
  BY ShutdownAssumption DEF ModeOf, Modes
<1>2. /\ UNCHANGED request
      /\ registered' => registered
  BY DEF TakeEvent
<1>3. CASE Draining
  <2>1. UNCHANGED host
    BY <1>3 DEF TakeEvent
  <2>2. HostFields'
    BY <1>2, <2>1 DEF AnswersInv, HostFields, Draining
  <2> QED
    BY <1>2, <2>1, <2>2 DEF AnswersInv, Destroyed
<1>4. CASE ~Draining
  <2>1. host' = Begun(ModeOf[e], "none")
    BY <1>4 DEF TakeEvent
  <2>2. /\ host' = [at |-> "stopAll", mode |-> ModeOf[e], response |-> "none", jobs |-> host.jobs,
                    left |-> host.left, failed |-> host.failed, exit |-> host.exit]
        /\ host'.at = "stopAll" /\ host'.mode = ModeOf[e] /\ host'.failed = host.failed
    BY <1>1, <2>1, BegunFields DEF AnswersInv
  <2>3. HostFields'
    BY <1>1, <1>2, <2>2 DEF AnswersInv, HostFields, Draining, Modes
  <2> QED
    BY <1>1, <1>2, <1>4, <2>2, <2>3 DEF AnswersInv, Destroyed, HostFields, Draining
<1> QED
  BY <1>3, <1>4

-----------------------------------------------------------------------------
\* Whatever the answers rest on holds in every behaviour of the owner.
THEOREM AnswersInvariant == ShutdownSpec => []AnswersInv
<1>1. AnswersInv /\ [ShutdownNext]_hostVars => AnswersInv'
  <2> SUFFICES ASSUME AnswersInv, [ShutdownNext]_hostVars PROVE AnswersInv'
    OBVIOUS
  <2>1. CASE OwnerServes
    BY <2>1, OwnerServesKeeps
  <2>2. CASE HostStep
    BY <2>2, HostStepKeeps
  <2>3. CASE RequestersStep
    BY <2>3, AnswerKeeps DEF RequestersStep
  <2>4. CASE \E r \in Requesters, mode \in {"stop", "destroy"} : RequestShutdown(r, mode)
    BY <2>4, RequestKeeps
  <2>5. CASE \E r \in Requesters : Disconnect(r)
    <3>1. PICK r \in Requesters : Disconnect(r)
      BY <2>5
    <3>2. UNCHANGED <<host, registered>> /\ request' = [request EXCEPT ![r] = Closed]
      BY <3>1 DEF Disconnect
    <3>3. HostFields'
      BY <3>2 DEF AnswersInv, HostFields, Draining, Closed
    <3> QED
      BY <3>2, <3>3 DEF AnswersInv, HostFields, Destroyed, Closed
  <2>6. CASE \E e \in HostEvents : TakeEvent(e)
    BY <2>6, HostEventKeeps
  <2>7. CASE \E a \in Attachments : JobsStep(a)
    BY <2>7, JobKeeps
  <2>8. CASE UNCHANGED hostVars
    <3>1. UNCHANGED <<host, request, registered>>
      BY <2>8 DEF hostVars, shutdownVars
    <3> QED
      BY <3>1 DEF AnswersInv, HostFields, Destroyed, Draining
  <2> QED
    BY <2>1, <2>2, <2>3, <2>4, <2>5, <2>6, <2>7, <2>8 DEF ShutdownNext, Environment
<1> QED
  BY <1>1, AnswersInit, PTL DEF ShutdownSpec

-----------------------------------------------------------------------------
(* What is halted, and what the parts of an event leave of it.             *)

\* What is halted, or winds down as some generation, stays so.
Halts(p, q) == \A g \in Nat : Halting(p, g) => Halting(q, g)

\* Over a change of the state, of each of these services.
HaltsOn(st, new, Ss) == \A t \in Ss : Halts(st.services[t], new.services[t])

\* One event after another.
LEMMA HaltsOnwards ==
  ASSUME NEW st, NEW a, NEW b, NEW Ss, HaltsOn(st, a, Ss), HaltsOn(a, b, Ss)
  PROVE  HaltsOn(st, b, Ss)
BY DEF HaltsOn, Halts

\* It is so where neither phase nor intent changes, and of what is up or has failed.
LEMMA HaltsSame ==
  ASSUME NEW p, NEW q
  PROVE  /\ q.phase = p.phase /\ q.intent = p.intent => Halts(p, q)
         /\ p.phase.tag \notin {"Stopped", "Stopping"} => Halts(p, q)
         /\ p.intent # "stopped" => Halts(p, q)
         /\ q.phase = Stopped /\ q.intent = p.intent => Halts(p, q)
BY DEF Halts, Halting, Stopped, PhaseOf

\* One service replaced.
LEMMA PutHalts ==
  ASSUME NEW st \in LifecycleState, NEW s \in Services, NEW q, NEW out, Halts(st.services[s], q)
  PROVE  HaltsOn(st, Step(Put(st, s, q), out).st, Services)
<1>1. PICK new : new = Put(st, s, q)
  OBVIOUS
<1>2. \A t \in Services : new.services[t] = IF t = s THEN q ELSE st.services[t]
  BY <1>1 DEF Put, LifecycleState
<1>3. Step(new, out).st = new
  BY StepFields
<1> QED
  BY <1>1, <1>2, <1>3 DEF HaltsOn, Halts

\* Many services replaced.
LEMMA EachHalts ==
  ASSUME NEW st \in LifecycleState, NEW sv, NEW Ss \in SUBSET Services,
         \A t \in Ss : Halts(st.services[t], sv[t])
  PROVE  HaltsOn(st, [st EXCEPT !.services = sv], Ss)
<1>1. PICK new : new = [st EXCEPT !.services = sv]
  OBVIOUS
<1>2. new.services = sv
  BY <1>1 DEF LifecycleState
<1> QED
  BY <1>1, <1>2 DEF HaltsOn

\* Nothing done.
LEMMA StillHalts ==
  ASSUME NEW st, NEW s, NEW out, NEW Ss
  PROVE  /\ HaltsOn(st, st, Ss) /\ HaltsOn(st, Step(st, out).st, Ss)
         /\ HaltsOn(st, Ignored(st).st, Ss) /\ HaltsOn(st, Refused(st, s).st, Ss)
BY StepFields DEF Ignored, Refused, HaltsOn, Halts

\* Explicit waits that end, and cleanups that are tried again.
LEMMA ToldHalts ==
  ASSUME NEW st \in SoundState, NEW s \in Services
  PROVE  HaltsOn(st, failExplicitDependentWaiters(st, s).st, Services)
<1>1. PICK sv : sv = [d \in Services |->
                        IF d \in Dependents(st, s)
                          THEN [st.services[d] EXCEPT !.waiters = @ \ Explicit(st.services[d])]
                          ELSE st.services[d]]
  OBVIOUS
<1>2. failExplicitDependentWaiters(st, s).st = [st EXCEPT !.services = sv]
  BY <1>1, StepFields DEF failExplicitDependentWaiters
<1>3. ASSUME NEW t \in Services
      PROVE  Halts(st.services[t], sv[t])
  <2>1. st.services[t] \in ServiceState
    BY SoundFields
  <2>2. sv[t].phase = st.services[t].phase /\ sv[t].intent = st.services[t].intent
    BY <1>1, <2>1 DEF ServiceState
  <2> QED
    BY <2>2, HaltsSame
<1>4. st \in LifecycleState /\ Services \in SUBSET Services
  BY SoundMembers
<1> QED
  BY <1>2, <1>3, <1>4, EachHalts

\* Blocked cleanups tried again.
LEMMA RetryHalts ==
  ASSUME NEW st \in LifecycleState, NEW Ss
  PROVE  HaltsOn(st, retryCleanups(st, Ss).st, Services)
<1>1. PICK sv : sv = [s \in Services |->
                        IF s \in CleanupsPending(st, Ss)
                          THEN [st.services[s] EXCEPT !.cleanupFailure = FALSE] ELSE st.services[s]]
  OBVIOUS
<1>2. retryCleanups(st, Ss).st = [st EXCEPT !.services = sv]
  BY <1>1, StepFields DEF retryCleanups
<1>3. ASSUME NEW t \in Services
      PROVE  Halts(st.services[t], sv[t])
  <2>1. sv[t].phase = st.services[t].phase /\ sv[t].intent = st.services[t].intent
    BY <1>1 DEF ServiceState, LifecycleState
  <2> QED
    BY <2>1, HaltsSame
<1> QED
  BY <1>2, <1>3, EachHalts

\* Prerequisites armed again, all of them members.
LEMMA RearmHalts ==
  ASSUME NEW st \in LifecycleState, NEW s
  PROVE  HaltsOn(st, rearmPrerequisites(st, s), Services \ st.members)
<1>1. PICK sv : sv = [p \in Services |->
                        IF p \in prerequisiteClosure[s] \intersect st.members
                           /\ st.services[p].intent = "stopped"
                          THEN [st.services[p] EXCEPT !.intent = Activation[p]] ELSE st.services[p]]
  OBVIOUS
<1>2. rearmPrerequisites(st, s) = [st EXCEPT !.services = sv]
  BY <1>1 DEF rearmPrerequisites
<1>3. PICK Ss \in SUBSET Services : Ss = Services \ st.members
  OBVIOUS
<1>4. ASSUME NEW t \in Ss
      PROVE  Halts(st.services[t], sv[t])
  <2>1. sv[t] = st.services[t]
    BY <1>1, <1>3
  <2> QED
    BY <2>1, HaltsSame
<1> QED
  BY <1>2, <1>3, <1>4, EachHalts
-----------------------------------------------------------------------------
\* A session that runs.
LEMMA ReadyHalts ==
  ASSUME NEW st \in SoundState, NEW s \in Services, NEW g, NEW tags, AtPhase(st, s, g, tags),
         tags \subseteq {"Starting", "Running"}, NEW ready \in BOOLEAN
  PROVE  HaltsOn(st, Step(Put(st, s, [st.services[s] EXCEPT !.phase = Running(g, ready),
                            !.readinessFailure = FALSE, !.reprobing = FALSE]), {}).st, Services)
<1>1. PICK q : q = [st.services[s] EXCEPT !.phase = Running(g, ready),
                      !.readinessFailure = FALSE, !.reprobing = FALSE]
  OBVIOUS
<1>2. Halts(st.services[s], q)
  <2>1. st.services[s].phase.tag \notin {"Stopped", "Stopping"}
    BY DEF AtPhase
  <2> QED
    BY <2>1, HaltsSame
<1>3. st \in LifecycleState
  BY SoundMembers
<1>4. PICK out : out = {}
  OBVIOUS
<1>5. HaltsOn(st, Step(Put(st, s, q), out).st, Services)
  BY <1>2, <1>3, PutHalts
<1> QED
  BY <1>1, <1>4, <1>5

\* The outcomes of a launch or a check that succeeds.
LEMMA CheckedHalts ==
  ASSUME NEW st \in SoundState, NEW s \in Services, NEW g
  PROVE  /\ HaltsOn(st, SessionAvailable(st, s, g).st, Services)
         /\ HaltsOn(st, LaunchSucceeded(st, s, g).st, Services)
         /\ HaltsOn(st, ReadinessRecovered(st, s, g).st, Services)
<1>1. HaltsOn(st, SessionAvailable(st, s, g).st, Services)
  <2>1. CASE AtPhase(st, s, g, {"Starting"})
    BY <2>1, ReadyHalts DEF SessionAvailable
  <2>2. CASE ~AtPhase(st, s, g, {"Starting"})
    BY <2>2, StillHalts DEF SessionAvailable
  <2> QED
    BY <2>1, <2>2
<1>2. HaltsOn(st, LaunchSucceeded(st, s, g).st, Services)
  <2>1. CASE AtPhase(st, s, g, {"Starting", "Running"}) /\ ~st.services[s].phase.ready
    BY <2>1, ReadyHalts DEF LaunchSucceeded, Ready
  <2>2. CASE ~(AtPhase(st, s, g, {"Starting", "Running"}) /\ ~st.services[s].phase.ready)
    BY <2>2, StillHalts DEF LaunchSucceeded
  <2> QED
    BY <2>1, <2>2
<1>3. HaltsOn(st, ReadinessRecovered(st, s, g).st, Services)
  <2>1. CASE AtPhase(st, s, g, {"Running"})
    BY <2>1, ReadyHalts DEF ReadinessRecovered, Ready
  <2>2. CASE ~AtPhase(st, s, g, {"Running"})
    BY <2>2, StillHalts DEF ReadinessRecovered
  <2> QED
    BY <2>1, <2>2
<1> QED
  BY <1>1, <1>2, <1>3

\* What is told to dependents first, and then puts one service.
LEMMA ToldPutHalts ==
  ASSUME NEW st \in SoundState, NEW s \in Services, NEW q, NEW out, Halts(st.services[s], q)
  PROVE  HaltsOn(st, Step(Put(failExplicitDependentWaiters(st, s).st, s, q), out).st, Services)
<1>1. PICK a : a = failExplicitDependentWaiters(st, s).st
  OBVIOUS
<1>2. a \in SoundState
  BY <1>1, ToldQuiet DEF QuietStep, Quiet, Leads
<1>3. HaltsOn(st, a, Services)
  BY <1>1, ToldHalts
<1>4. PICK new : new = Put(a, s, q)
  OBVIOUS
<1>5. \A t \in Services : new.services[t] = IF t = s THEN q ELSE a.services[t]
  BY <1>2, <1>4, SoundMembers DEF Put, LifecycleState
<1>6. HaltsOn(st, new, Services)
  BY <1>3, <1>5 DEF HaltsOn
<1> QED
  BY <1>1, <1>4, <1>6, StepFields

\* A failure of what is up.
LEMMA RecordHalts ==
  ASSUME NEW st \in SoundState, NEW s \in Services, NEW g, NEW quiet, NEW phase,
         st.services[s].phase.tag \in {"Starting", "Running"}
  PROVE  HaltsOn(st, recordFailure(st, s, g, quiet, phase).st, Services)
<1>1. PICK breaker : breaker = countFailure(st.services[s].breaker, g, quiet)
  OBVIOUS
<1>2. PICK q : q = [st.services[s] EXCEPT !.phase = phase, !.waiters = {}, !.breaker = breaker,
                      !.idleArmedEpoch = 0, !.relaunchForced = FALSE,
                      !.readinessFailure = FALSE, !.reprobing = FALSE]
  OBVIOUS
<1>3. Halts(st.services[s], q)
  BY HaltsSame
<1>4. PICK out : out = failExplicitDependentWaiters(st, s).out
                         \union failAllWaiters(s, st.services[s]) \union cooldown(s, breaker)
  OBVIOUS
<1>5. recordFailure(st, s, g, quiet, phase)
        = Step(Put(failExplicitDependentWaiters(st, s).st, s, q), out)
  BY <1>1, <1>2, <1>4 DEF recordFailure
<1> QED
  BY <1>3, <1>5, ToldPutHalts

\* A launch that fails.
LEMMA LaunchFailedHalts ==
  ASSUME NEW st \in SoundState, NEW s \in Services, NEW g, NEW quiet
  PROVE  HaltsOn(st, LaunchFailed(st, s, g, quiet).st, Services)
<1>1. CASE AtPhase(st, s, g, {"Starting"})
  <2>1. PICK phase : phase = Failed(g)
    OBVIOUS
  <2>2. st.services[s].phase.tag \in {"Starting", "Running"}
    BY <1>1 DEF AtPhase
  <2>3. HaltsOn(st, recordFailure(st, s, g, quiet, phase).st, Services)
    BY <2>2, RecordHalts
  <2> QED
    BY <1>1, <2>1, <2>3 DEF LaunchFailed
<1>2. CASE ~AtPhase(st, s, g, {"Starting"})
  BY <1>2, StillHalts DEF LaunchFailed
<1> QED
  BY <1>1, <1>2

\* The dependents of a lost session that are up.
LEMMA StopDependentsHalts ==
  ASSUME NEW st \in SoundState, NEW s \in Services
  PROVE  HaltsOn(st, stopDependentsOfLostSession(st, s).st, Services)
<1>1. PICK up : up = dependentsUp(st, s)
  OBVIOUS
<1>2. PICK sv : sv = [d \in Services |->
                        IF d \in up
                          THEN [st.services[d] EXCEPT !.phase = Stopping(@.generation, FALSE)]
                          ELSE st.services[d]]
  OBVIOUS
<1>3. PICK out : out = {Stop(d, st.services[d].phase.generation) : d \in up}
  OBVIOUS
<1>4. PICK new : new = [st EXCEPT !.services = sv]
  OBVIOUS
<1>5. stopDependentsOfLostSession(st, s) = Step(new, out)
  BY <1>1, <1>2, <1>3, <1>4 DEF stopDependentsOfLostSession
<1>6. ASSUME NEW t \in Services
      PROVE  Halts(st.services[t], sv[t])
  <2>1. CASE t \in up
    <3>1. st.services[t].phase.tag \notin {"Stopped", "Stopping"}
      BY <1>1, <2>1 DEF dependentsUp
    <3> QED
      BY <3>1, HaltsSame
  <2>2. CASE t \notin up
    <3>1. sv[t] = st.services[t]
      BY <1>2, <2>2
    <3> QED
      BY <3>1, HaltsSame
  <2> QED
    BY <2>1, <2>2
<1>7. st \in LifecycleState /\ Services \in SUBSET Services
  BY SoundMembers
<1>8. HaltsOn(st, new, Services)
  BY <1>4, <1>6, <1>7, EachHalts
<1> QED
  BY <1>5, <1>8, StepFields

-----------------------------------------------------------------------------
(* Outcomes, timers and waits halt nothing anew.                           *)

\* A session that is lost.
LEMMA SessionLostHalts ==
  ASSUME NEW st \in SoundState, NEW s \in Services, NEW g, NEW quiet
  PROVE  HaltsOn(st, SessionLost(st, s, g, quiet).st, Services)
<1>1. CASE AtPhase(st, s, g, {"Starting", "Running"})
  <2>1. PICK phase : phase = Stopping(g, TRUE)
    OBVIOUS
  <2>2. PICK lost : lost = recordFailure(st, s, g, quiet, phase)
    OBVIOUS
  <2>3. HaltsOn(st, lost.st, Services)
    <3>1. st.services[s].phase.tag \in {"Starting", "Running"}
      BY <1>1 DEF AtPhase
    <3> QED
      BY <2>2, <3>1, RecordHalts
  <2>4. lost.st \in SoundState
    <3>1. /\ st.services[s].phase.tag # "Stopped" /\ st.services[s].phase.generation = g /\ g \in Nat
      BY <1>1, AtPhaseFacts
    <3>2. phase \in Phase /\ phase.tag = "Stopping" /\ phase.generation = g
      BY <2>1, <3>1, Phases
    <3>3. Quiet(st, lost.st, {})
      BY <2>2, <3>1, <3>2, RecordQuiet DEF QuietStep
    <3> QED
      BY <3>3 DEF Quiet, Leads
  <2>5. PICK rest : rest = stopDependentsOfLostSession(lost.st, s)
    OBVIOUS
  <2>6. HaltsOn(lost.st, rest.st, Services)
    BY <2>4, <2>5, StopDependentsHalts
  <2>7. SessionLost(st, s, g, quiet).st = rest.st
    <3>1. rest = Step(rest.st, rest.out)
      BY <2>5 DEF stopDependentsOfLostSession, Step
    <3>2. SessionLost(st, s, g, quiet) = Also(rest, lost.out)
      BY <1>1, <2>1, <2>2, <2>5 DEF SessionLost
    <3>3. Also(Step(rest.st, rest.out), lost.out) = Step(rest.st, rest.out \union lost.out)
      BY AlsoFields
    <3> QED
      BY <3>1, <3>2, <3>3, StepFields
  <2> QED
    BY <2>3, <2>6, <2>7, HaltsOnwards
<1>2. CASE ~AtPhase(st, s, g, {"Starting", "Running"})
  BY <1>2, StillHalts DEF SessionLost
<1> QED
  BY <1>1, <1>2

\* A generation that is gone: what has been stopped does not count as failed.
LEMMA ExitedHalts ==
  ASSUME NEW st \in SoundState, NEW s \in Services, NEW g, NEW requested
  PROVE  HaltsOn(st, Exited(st, s, g, requested).st, Services)
<1>1. PICK crash \in BOOLEAN : crash <=> /\ st.services[s].phase.tag = "Stopping"
                                         /\ st.services[s].intent # "stopped"
                                         /\ st.services[s].phase.crash
  OBVIOUS
<1>2. PICK q : q = [st.services[s] EXCEPT !.phase = IF crash THEN Failed(g) ELSE Stopped,
                               !.idleArmedEpoch = 0, !.readinessFailure = FALSE,
                               !.reprobing = FALSE, !.cleanupFailure = FALSE]
  OBVIOUS
<1>3. st.services[s] \in ServiceState /\ st \in LifecycleState
  BY SoundFields
<1>4. Halts(st.services[s], q)
  <2>1. CASE crash
    BY <1>1, <2>1, HaltsSame
  <2>2. CASE ~crash
    <3>1. q.phase = Stopped /\ q.intent = st.services[s].intent
      BY <1>2, <1>3, <2>2 DEF ServiceState
    <3> QED
      BY <3>1, HaltsSame
  <2> QED
    BY <2>1, <2>2
<1>5. \/ Exited(st, s, g, requested) = Ignored(st)
      \/ Exited(st, s, g, requested) = Step(Put(st, s, q), {})
  BY <1>1, <1>2 DEF Exited
<1> QED
  BY <1>3, <1>4, <1>5, PutHalts, StillHalts

\* A cleanup that fails is of the generation that winds down.
LEMMA StopFailedHalts ==
  ASSUME NEW st \in SoundState, NEW s \in Services, NEW g \in Nat \ {0}, NEW failure, NEW quiet
  PROVE  HaltsOn(st, StopFailed(st, s, g, failure, quiet).st, Services)
<1>1. PICK breaker : breaker = IF Counts(st.services[s], failure)
                                 THEN countFailure(st.services[s].breaker, g, quiet)
                                 ELSE st.services[s].breaker
  OBVIOUS
<1>2. PICK phase : phase = Stopping(g, IF st.services[s].phase.tag = "Stopping"
                                         THEN st.services[s].phase.crash ELSE failure)
  OBVIOUS
<1>3. PICK q : q = [st.services[s] EXCEPT !.phase = phase, !.waiters = {},
                      !.breaker = breaker, !.idleArmedEpoch = 0, !.relaunchForced = FALSE,
                      !.readinessFailure = FALSE, !.reprobing = FALSE, !.cleanupFailure = TRUE]
  OBVIOUS
<1>4. PICK out : out = failExplicitDependentWaiters(st, s).out
                         \union failAllWaiters(s, st.services[s])
                         \union (IF Counts(st.services[s], failure) THEN cooldown(s, breaker) ELSE {})
  OBVIOUS
<1>5. CASE s \in st.members /\ Current(st.services[s], g)
  <2>1. st.services[s] \in ServiceState /\ st.services[s].phase.generation = g
        /\ st.services[s].phase.tag # "Stopped"
    BY <1>5, SoundFields DEF SoundService, Current
  <2>2. phase.tag = "Stopping" /\ phase.generation = g
    BY <1>2 DEF Stopping, PhaseOf
  <2>3. q.phase = phase /\ q.intent = st.services[s].intent
    BY <1>3, <2>1 DEF ServiceState
  <2>4. Halts(st.services[s], q)
    BY <2>1, <2>2, <2>3 DEF Halts, Halting
  <2>5. StopFailed(st, s, g, failure, quiet)
          = Step(Put(failExplicitDependentWaiters(st, s).st, s, q), out)
    BY <1>1, <1>2, <1>3, <1>4, <1>5 DEF StopFailed
  <2> QED
    BY <2>4, <2>5, ToldPutHalts
<1>6. CASE ~(s \in st.members /\ Current(st.services[s], g))
  BY <1>6, StillHalts DEF StopFailed
<1> QED
  BY <1>5, <1>6

\* A check that fails.
LEMMA ReadinessLostHalts ==
  ASSUME NEW st \in SoundState, NEW s \in Services, NEW g
  PROVE  HaltsOn(st, ReadinessLost(st, s, g).st, Services)
<1>1. CASE AtPhase(st, s, g, {"Running"})
  <2>1. PICK failed : failed = {w \in st.services[s].waiters : w.requireReady}
    OBVIOUS
  <2>2. PICK q : q = [st.services[s] EXCEPT !.phase = Running(g, FALSE), !.waiters = @ \ failed,
                      !.readinessFailure = TRUE, !.reprobing = FALSE]
    OBVIOUS
  <2>3. PICK out : out = failExplicitDependentWaiters(st, s).out \union {Fail(s, w.client) : w \in failed}
    OBVIOUS
  <2>4. ReadinessLost(st, s, g) = Step(Put(failExplicitDependentWaiters(st, s).st, s, q), out)
    BY <1>1, <2>1, <2>2, <2>3 DEF ReadinessLost
  <2>5. Halts(st.services[s], q)
    <3>1. st.services[s].phase.tag \notin {"Stopped", "Stopping"}
      BY <1>1 DEF AtPhase
    <3> QED
      BY <3>1, HaltsSame
  <2> QED
    BY <2>4, <2>5, ToldPutHalts
<1>2. CASE ~AtPhase(st, s, g, {"Running"})
  BY <1>2, StillHalts DEF ReadinessLost
<1> QED
  BY <1>1, <1>2
-----------------------------------------------------------------------------
\* The timers.
LEMMA TimersHalt ==
  ASSUME NEW st \in SoundState, NEW s \in Services, NEW g, NEW epoch
  PROVE  /\ HaltsOn(st, IdleElapsed(st, s, g, epoch).st, Services)
         /\ HaltsOn(st, CooldownElapsed(st, s, g).st, Services)
<1>0. st.services[s] \in ServiceState /\ st \in LifecycleState
  BY SoundFields
<1>1. HaltsOn(st, IdleElapsed(st, s, g, epoch).st, Services)
  <2>1. PICK q : q = [st.services[s] EXCEPT !.phase = Stopping(g, FALSE), !.idleArmedEpoch = 0]
    OBVIOUS
  <2>2. PICK out : out = {Stop(s, g)}
    OBVIOUS
  <2>3. CASE IdleElapsed(st, s, g, epoch) = Ignored(st)
    BY <2>3, StillHalts
  <2>4. CASE IdleElapsed(st, s, g, epoch) = Step(Put(st, s, q), out) /\ AtPhase(st, s, g, {"Running"})
    <3>1. st.services[s].phase.tag \notin {"Stopped", "Stopping"}
      BY <2>4 DEF AtPhase
    <3>2. Halts(st.services[s], q)
      BY <3>1, HaltsSame
    <3> QED
      BY <1>0, <2>4, <3>2, PutHalts
  <2> QED
    BY <2>1, <2>2, <2>3, <2>4 DEF IdleElapsed
<1>2. HaltsOn(st, CooldownElapsed(st, s, g).st, Services)
  <2>1. PICK q : q = [st.services[s] EXCEPT !.breaker.openUntil = 0]
    OBVIOUS
  <2>2. q.phase = st.services[s].phase /\ q.intent = st.services[s].intent
    BY <1>0, <2>1 DEF ServiceState
  <2>3. Halts(st.services[s], q)
    BY <2>2, HaltsSame
  <2>4. \/ CooldownElapsed(st, s, g) = Ignored(st)
        \/ CooldownElapsed(st, s, g) = Step(Put(st, s, q), {})
    BY <2>1 DEF CooldownElapsed
  <2> QED
    BY <1>0, <2>3, <2>4, PutHalts, StillHalts
<1> QED
  BY <1>1, <1>2

\* Waits that are opened and withdrawn, and leases given back.
LEMMA OpenWaiterHalts ==
  ASSUME NEW st \in SoundState, NEW s \in Services, NEW c \in Clients, NEW requireReady \in BOOLEAN,
         NEW kind \in {"traffic", "explicit"}
  PROVE  HaltsOn(st, openWaiter(st, s, c, requireReady, kind).st, Services)
<1>0. st.services[s] \in ServiceState /\ st \in LifecycleState
  BY SoundFields
<1>1. PICK q : q = [st.services[s] EXCEPT !.leases = @ + 1]
  OBVIOUS
<1>2. PICK w : w = [client |-> c, kind |-> kind, requireReady |-> requireReady]
  OBVIOUS
<1>3. PICK r : r = [st.services[s] EXCEPT !.waiters = @ \union {w}]
  OBVIOUS
<1>4. Halts(st.services[s], q) /\ Halts(st.services[s], r)
  <2>1. q.phase = st.services[s].phase /\ q.intent = st.services[s].intent
    BY <1>0, <1>1 DEF ServiceState
  <2>2. r.phase = st.services[s].phase /\ r.intent = st.services[s].intent
    BY <1>0, <1>3 DEF ServiceState
  <2> QED
    BY <2>1, <2>2, HaltsSame
<1>5. PICK b : b = Put(st, s, r)
  OBVIOUS
<1>6. b \in LifecycleState /\ HaltsOn(st, b, Services)
  <2>1. w \in Waiter
    BY <1>2 DEF Waiter
  <2>2. r \in ServiceState
    BY <1>0, <1>3, <2>1 DEF ServiceState
  <2>3. HaltsOn(st, Step(b, {}).st, Services)
    BY <1>0, <1>4, <1>5, PutHalts
  <2> QED
    BY <1>0, <1>5, <2>2, <2>3, PutFields, StepFields
<1>7. HaltsOn(st, retryBlockedCleanup(b, s).st, Services)
  <2>1. PICK Ss : Ss = prerequisiteClosure[s] \union {s}
    OBVIOUS
  <2>2. HaltsOn(b, retryCleanups(b, Ss).st, Services)
    BY <1>6, RetryHalts
  <2>3. HaltsOn(st, retryCleanups(b, Ss).st, Services)
    BY <1>6, <2>2, HaltsOnwards
  <2> QED
    BY <2>1, <2>3 DEF retryBlockedCleanup
<1>8. PICK a : a = IF kind = "traffic" THEN Put(st, s, q) ELSE st
  OBVIOUS
<1>9. HaltsOn(st, Step(a, {Admit(s, c)}).st, Services)
  <2>1. PICK out : out = {Admit(s, c)}
    OBVIOUS
  <2>2. HaltsOn(st, Step(Put(st, s, q), out).st, Services)
    BY <1>0, <1>4, PutHalts
  <2>3. HaltsOn(st, Step(st, out).st, Services)
    BY StillHalts
  <2> QED
    BY <1>8, <2>1, <2>2, <2>3
<1>10. \/ openWaiter(st, s, c, requireReady, kind) = Ignored(st)
       \/ openWaiter(st, s, c, requireReady, kind) = Step(st, {Fail(s, c)})
       \/ openWaiter(st, s, c, requireReady, kind) = Step(a, {Admit(s, c)})
       \/ openWaiter(st, s, c, requireReady, kind) = retryBlockedCleanup(b, s)
  <2>1. PICK eligible \in BOOLEAN :
          eligible <=> IF requireReady THEN admissionReady(st, s) ELSE sessionReady(st, s)
    OBVIOUS
  <2>2. CASE s \notin st.members
    BY <2>2 DEF openWaiter
  <2>3. CASE s \in st.members /\ st.services[s].intent = "stopped"
    BY <2>3 DEF openWaiter
  <2>4. CASE s \in st.members /\ st.services[s].intent # "stopped" /\ eligible
    BY <1>1, <1>8, <2>1, <2>4 DEF openWaiter
  <2>5. CASE s \in st.members /\ st.services[s].intent # "stopped" /\ ~eligible
    BY <1>2, <1>3, <1>5, <2>1, <2>5 DEF openWaiter
  <2> QED
    BY <2>2, <2>3, <2>4, <2>5
<1> QED
  BY <1>7, <1>9, <1>10, StillHalts

\* A wait withdrawn, and a lease given back.
LEMMA ClosedHalts ==
  ASSUME NEW st \in SoundState, NEW s \in Services, NEW c
  PROVE  /\ HaltsOn(st, WaiterCancelled(st, s, c).st, Services)
         /\ HaltsOn(st, ConnectionClosed(st, s).st, Services)
<1>0. st.services[s] \in ServiceState /\ st \in LifecycleState
  BY SoundFields
<1>1. HaltsOn(st, WaiterCancelled(st, s, c).st, Services)
  <2>1. PICK W : W = {w \in st.services[s].waiters : w.client # c}
    OBVIOUS
  <2>2. PICK q : q = [st.services[s] EXCEPT !.waiters = W]
    OBVIOUS
  <2>3. WaiterCancelled(st, s, c) = Step(Put(st, s, q), {})
    BY <1>0, <2>1, <2>2 DEF WaiterCancelled, Put, LifecycleState
  <2>4. q.phase = st.services[s].phase /\ q.intent = st.services[s].intent
    BY <1>0, <2>2 DEF ServiceState
  <2>5. Halts(st.services[s], q)
    BY <2>4, HaltsSame
  <2> QED
    BY <1>0, <2>3, <2>5, PutHalts
<1>2. HaltsOn(st, ConnectionClosed(st, s).st, Services)
  <2>1. PICK n : n = IF st.services[s].leases = 0 THEN 0 ELSE st.services[s].leases - 1
    OBVIOUS
  <2>2. PICK q : q = [st.services[s] EXCEPT !.leases = n]
    OBVIOUS
  <2>3. ConnectionClosed(st, s) = Step(Put(st, s, q), {})
    BY <1>0, <2>1, <2>2 DEF ConnectionClosed, Put, LifecycleState
  <2>4. q.phase = st.services[s].phase /\ q.intent = st.services[s].intent
    BY <1>0, <2>2 DEF ServiceState
  <2>5. Halts(st.services[s], q)
    BY <2>4, HaltsSame
  <2> QED
    BY <1>0, <2>3, <2>5, PutHalts
<1> QED
  BY <1>1, <1>2

-----------------------------------------------------------------------------
(* Requests: only those that start or arm bring anything back.             *)

\* One service replaced, and then events of which nothing else is known.
LEMMA PutThenHalts ==
  ASSUME NEW st \in LifecycleState, NEW s \in Services, NEW q, NEW b, NEW Ss \in SUBSET Services,
         s \in Ss => Halts(st.services[s], q), HaltsOn(Put(st, s, q), b, Ss)
  PROVE  HaltsOn(st, b, Ss)
<1>1. PICK a : a = Put(st, s, q)
  OBVIOUS
<1>2. \A t \in Services : a.services[t] = IF t = s THEN q ELSE st.services[t]
  BY <1>1 DEF Put, LifecycleState
<1>3. HaltsOn(st, a, Ss)
  BY <1>2 DEF HaltsOn, Halts
<1> QED
  BY <1>1, <1>3, HaltsOnwards

\* A stop halts its service, and undoes no other.
LEMMA StopRequestedHalts ==
  ASSUME NEW st \in SoundState, NEW s
  PROVE  /\ HaltsOn(st, StopRequested(st, s).st, Services)
         /\ s \in st.members /\ activeDependents(st, s) = {} =>
              \E g \in Nat : Halting(StopRequested(st, s).st.services[s], g)
<1>1. CASE s \notin st.members
  BY <1>1, StillHalts DEF StopRequested
<1>2. CASE s \in st.members /\ activeDependents(st, s) # {}
  BY <1>2, StillHalts DEF StopRequested
<1>3. CASE s \in st.members /\ activeDependents(st, s) = {}
  <2>1. s \in Services /\ st \in LifecycleState
    BY <1>3, SoundMembers
  <2>2. PICK p : p = st.services[s]
    OBVIOUS
  <2>3. p \in ServiceState /\ p.phase \in Phase /\ p.phase.generation \in Nat
    BY <2>1, <2>2, SoundFields
  <2>4. PICK phase : phase = CASE Stoppable(p) -> Stopping(p.phase.generation, FALSE)
                               [] p.phase.tag = "Failed" -> Stopped
                               [] OTHER -> p.phase
    OBVIOUS
  <2>5. /\ phase \in Phase /\ phase.tag \in {"Stopped", "Stopping"}
        /\ p.phase.tag \in {"Stopped", "Stopping"} => phase = p.phase
    <3>1. CASE Stoppable(p)
      BY <2>3, <2>4, <3>1, Phases DEF Stoppable
    <3>2. CASE ~Stoppable(p) /\ p.phase.tag = "Failed"
      BY <2>3, <2>4, <3>2, Phases
    <3>3. CASE ~Stoppable(p) /\ p.phase.tag # "Failed"
      BY <2>3, <2>4, <3>3 DEF Phase, Stoppable
    <3> QED
      BY <3>1, <3>2, <3>3
  <2>6. PICK q : q = [p EXCEPT !.intent = "stopped", !.waiters = {},
                               !.relaunchForced = FALSE, !.phase = phase]
    OBVIOUS
  <2>7. q \in ServiceState /\ q.phase = phase /\ q.intent = "stopped"
    BY <2>3, <2>5, <2>6 DEF ServiceState
  <2>8. Halts(p, q)
    BY <2>5, <2>7 DEF Halts, Halting
  <2>9. PICK a : a = Put(st, s, q)
    OBVIOUS
  <2>10. a \in LifecycleState /\ a.services[s] = q
    BY <2>1, <2>7, <2>9, PutFields DEF Put, LifecycleState
  <2>11. PICK retried : retried = retryCleanups(a, {s})
    OBVIOUS
  <2>12. StopRequested(st, s).st = retried.st
    <3>1. StopRequested(st, s) = Also(retried, failAllWaiters(s, p) \union StopNow(s, p))
      BY <1>3, <2>2, <2>4, <2>6, <2>9, <2>11 DEF StopRequested
    <3>2. retried = Step(retried.st, retried.out)
      BY <2>11 DEF retryCleanups, Step
    <3>3. Also(Step(retried.st, retried.out), failAllWaiters(s, p) \union StopNow(s, p))
            = Step(retried.st, retried.out \union (failAllWaiters(s, p) \union StopNow(s, p)))
      BY AlsoFields
    <3> QED
      BY <3>1, <3>2, <3>3, StepFields
  <2>13. HaltsOn(a, retried.st, Services)
    BY <2>10, <2>11, RetryHalts
  <2>14. HaltsOn(st, retried.st, Services)
    BY <2>1, <2>2, <2>8, <2>9, <2>13, PutThenHalts
  <2>15. Halting(retried.st.services[s], q.phase.generation) /\ q.phase.generation \in Nat
    <3>1. Halting(q, q.phase.generation) /\ q.phase.generation \in Nat
      BY <2>5, <2>7 DEF Halting, Phase
    <3> QED
      BY <2>1, <2>10, <2>13, <3>1 DEF HaltsOn, Halts
  <2> QED
    BY <2>12, <2>14, <2>15
<1> QED
  BY <1>1, <1>2, <1>3

\* So does a destroy, which begins as a stop.
LEMMA DestroyRequestedHalts ==
  ASSUME NEW st \in SoundState, NEW s \in Services
  PROVE  HaltsOn(st, DestroyRequested(st, s).st, Services)
<1>1. PICK stopped : stopped = StopRequested(st, s)
  OBVIOUS
<1>2. HaltsOn(st, stopped.st, Services) /\ stopped.st \in SoundState
  BY <1>1, StopRequestedHalts, StopRequestedQuiet DEF QuietStep, Quiet, Leads
<1>3. CASE s \notin st.members \/ Rejected(s) \in stopped.out
  BY <1>1, <1>2, <1>3 DEF DestroyRequested
<1>4. CASE ~(s \notin st.members \/ Rejected(s) \in stopped.out)
  <2>1. PICK a \in SoundState : a = stopped.st
    BY <1>2
  <2>2. a.services[s] \in ServiceState /\ a \in LifecycleState
    BY SoundFields
  <2>3. PICK destroy : destroy = IF a.services[s].destroy = "none" THEN "requested" ELSE a.services[s].destroy
    OBVIOUS
  <2>4. PICK q : q = [a.services[s] EXCEPT !.destroy = destroy]
    OBVIOUS
  <2>5. DestroyRequested(st, s).st = Put(a, s, q)
    <3>1. DestroyRequested(st, s)
            = [stopped EXCEPT !.st.services[s].destroy = IF @ = "none" THEN "requested" ELSE @]
      BY <1>1, <1>4 DEF DestroyRequested
    <3>2. DOMAIN stopped = {"st", "out"} /\ stopped = [st |-> stopped.st, out |-> stopped.out]
      BY <1>1 DEF StopRequested, Ignored, Refused, Also, retryCleanups, Step
    <3> QED
      BY <2>1, <2>2, <2>3, <2>4, <3>1, <3>2 DEF Put, LifecycleState, ServiceState
  <2>6. q.phase = a.services[s].phase /\ q.intent = a.services[s].intent
    BY <2>2, <2>4 DEF ServiceState
  <2>7. HaltsOn(a, Step(Put(a, s, q), {}).st, Services)
    BY <2>2, <2>6, HaltsSame, PutHalts
  <2> QED
    BY <1>2, <2>1, <2>5, <2>7, StepFields, HaltsOnwards
<1> QED
  BY <1>3, <1>4

\* Reservations and their ends.
LEMMA StorageHalts ==
  ASSUME NEW st \in SoundState, NEW s \in Services
  PROVE  /\ HaltsOn(st, StorageReserved(st, s).st, Services)
         /\ HaltsOn(st, StorageReleased(st, s).st, Services)
         /\ HaltsOn(st, DestroyReleased(st, s).st, Services)
<1>0. st.services[s] \in ServiceState /\ st \in LifecycleState
  BY SoundFields
<1>1. HaltsOn(st, StorageReserved(st, s).st, Services)
  <2>1. PICK q : q = [st.services[s] EXCEPT !.storageReserved = TRUE]
    OBVIOUS
  <2>2. q.phase = st.services[s].phase /\ q.intent = st.services[s].intent
    BY <1>0, <2>1 DEF ServiceState
  <2>3. \/ StorageReserved(st, s) = Ignored(st) \/ StorageReserved(st, s) = Refused(st, s)
        \/ StorageReserved(st, s) = Step(Put(st, s, q), {})
    BY <2>1 DEF StorageReserved
  <2>4. HaltsOn(st, Step(Put(st, s, q), {}).st, Services)
    BY <1>0, <2>2, HaltsSame, PutHalts
  <2> QED
    BY <2>3, <2>4, StillHalts
<1>2. HaltsOn(st, StorageReleased(st, s).st, Services)
  <2>1. PICK kept \in BOOLEAN :
          kept = (st.services[s].storageReserved /\ st.services[s].destroy = "reserved")
    OBVIOUS
  <2>2. PICK q : q = [st.services[s] EXCEPT !.storageReserved = kept]
    OBVIOUS
  <2>3. StorageReleased(st, s) = Step(Put(st, s, q), {})
    BY <1>0, <2>1, <2>2 DEF StorageReleased, Put, LifecycleState
  <2>4. q.phase = st.services[s].phase /\ q.intent = st.services[s].intent
    BY <1>0, <2>2 DEF ServiceState
  <2> QED
    BY <1>0, <2>3, <2>4, HaltsSame, PutHalts
<1>3. HaltsOn(st, DestroyReleased(st, s).st, Services)
  <2>1. PICK kept \in BOOLEAN :
          kept = (st.services[s].storageReserved /\ st.services[s].destroy # "reserved")
    OBVIOUS
  <2>2. PICK q : q = [st.services[s] EXCEPT !.destroy = "none", !.storageReserved = kept]
    OBVIOUS
  <2>3. DestroyReleased(st, s) = Step(Put(st, s, q), {})
    BY <2>1, <2>2 DEF DestroyReleased
  <2>4. q.phase = st.services[s].phase /\ q.intent = st.services[s].intent
    BY <1>0, <2>2 DEF ServiceState
  <2> QED
    BY <1>0, <2>3, <2>4, HaltsSame, PutHalts
<1> QED
  BY <1>1, <1>2, <1>3

\* A start, a restart and an arming are of a member, and arm members only.
LEMMA RestartedHalts ==
  ASSUME NEW st \in LifecycleState, NEW s \in st.members, NEW q \in ServiceState
  PROVE  HaltsOn(st, rearmPrerequisites(retryCleanups(Put(st, s, q), {s}).st, s),
                 Services \ st.members)
<1>1. s \in Services
  BY DEF LifecycleState
<1>2. PICK Ss \in SUBSET Services : Ss = Services \ st.members
  OBVIOUS
<1>3. PICK a : a = Put(st, s, q)
  OBVIOUS
<1>4. a \in LifecycleState /\ a.members = st.members
  BY <1>1, <1>3, PutFields
<1>5. PICK b : b = retryCleanups(a, {s}).st
  OBVIOUS
<1>6. b \in LifecycleState /\ b.members = st.members
  <2>1. PICK sv : sv = [t \in Services |->
                          IF t \in CleanupsPending(a, {s})
                            THEN [a.services[t] EXCEPT !.cleanupFailure = FALSE] ELSE a.services[t]]
    OBVIOUS
  <2>2. b = [a EXCEPT !.services = sv]
    BY <1>5, <2>1, StepFields DEF retryCleanups
  <2>3. sv \in [Services -> ServiceState]
    <3>1. ASSUME NEW t \in Services
          PROVE  sv[t] \in ServiceState
      <4>1. a.services[t] \in ServiceState
        BY <1>4 DEF LifecycleState
      <4> QED
        BY <2>1, <4>1 DEF ServiceState
    <3> QED
      BY <2>1, <3>1
  <2> QED
    BY <1>4, <2>2, <2>3 DEF LifecycleState
<1>7. HaltsOn(a, b, Ss)
  <2>1. HaltsOn(a, b, Services)
    BY <1>4, <1>5, RetryHalts
  <2> QED
    BY <2>1 DEF HaltsOn
<1>8. HaltsOn(b, rearmPrerequisites(b, s), Ss)
  BY <1>2, <1>6, RearmHalts
<1>9. HaltsOn(a, rearmPrerequisites(b, s), Ss)
  BY <1>7, <1>8, HaltsOnwards
<1>10. HaltsOn(st, rearmPrerequisites(b, s), Ss)
  BY <1>1, <1>2, <1>3, <1>9, PutThenHalts
<1> QED
  BY <1>2, <1>3, <1>5, <1>10

\* A start.
LEMMA StartRequestedHalts ==
  ASSUME NEW st \in SoundState, NEW s
  PROVE  HaltsOn(st, StartRequested(st, s).st, Services \ st.members)
<1>1. CASE s \notin st.members
  BY <1>1, StillHalts DEF StartRequested
<1>2. CASE s \in st.members /\ st.services[s].destroy # "none"
  BY <1>2, StillHalts DEF StartRequested
<1>3. CASE s \in st.members /\ st.services[s].destroy = "none"
  <2>1. s \in Services /\ st.services[s] \in ServiceState /\ st \in LifecycleState
        /\ Activation[s] \in {"eager", "lazy"}
    BY <1>3, SoundMembers, SoundFields, LifecycleAssumption
  <2>2. PICK forced : forced = (st.services[s].relaunchForced
                                 \/ st.services[s].phase.tag \in {"Stopped", "Failed", "Stopping"})
    OBVIOUS
  <2>3. PICK q : q = [st.services[s] EXCEPT !.intent = Activation[s], !.breaker = initialBreaker,
                               !.relaunchForced = forced]
    OBVIOUS
  <2>4. q \in ServiceState
    <3>1. initialBreaker \in [failures : Nat, openUntil : Nat] /\ forced \in BOOLEAN
      BY <2>2 DEF initialBreaker
    <3> QED
      BY <2>1, <2>3, <3>1 DEF ServiceState
  <2>5. PICK a : a = Put(st, s, q)
    OBVIOUS
  <2>6. StartRequested(st, s) = Step(rearmPrerequisites(retryCleanups(a, {s}).st, s),
                                     retryCleanups(a, {s}).out)
    BY <1>3, <2>2, <2>3, <2>5 DEF StartRequested
  <2>7. StartRequested(st, s).st = rearmPrerequisites(retryCleanups(a, {s}).st, s)
    BY <2>6, StepFields
  <2> QED
    BY <1>3, <2>1, <2>4, <2>5, <2>7, RestartedHalts
<1> QED
  BY <1>1, <1>2, <1>3

\* A restart.
LEMMA RestartRequestedHalts ==
  ASSUME NEW st \in SoundState, NEW s
  PROVE  HaltsOn(st, RestartRequested(st, s).st, Services \ st.members)
<1>1. CASE s \notin st.members
  BY <1>1, StillHalts DEF RestartRequested
<1>2. CASE s \in st.members /\ (st.services[s].destroy # "none" \/ activeDependents(st, s) # {})
  BY <1>2, StillHalts DEF RestartRequested
<1>3. CASE s \in st.members /\ st.services[s].destroy = "none" /\ activeDependents(st, s) = {}
  <2>1. s \in Services /\ st \in LifecycleState /\ Activation[s] \in {"eager", "lazy"}
    BY <1>3, SoundMembers, LifecycleAssumption
  <2>2. PICK p : p = st.services[s]
    OBVIOUS
  <2>3. p \in ServiceState /\ p.phase \in Phase /\ p.phase.generation \in Nat
    BY <2>1, <2>2, SoundFields
  <2>4. PICK phase : phase = IF Stoppable(p) THEN Stopping(p.phase.generation, FALSE) ELSE p.phase
    OBVIOUS
  <2>5. phase \in Phase
    BY <2>3, <2>4, Phases
  <2>6. PICK q : q = [p EXCEPT !.intent = Activation[s], !.breaker = initialBreaker,
                               !.relaunchForced = TRUE, !.phase = phase]
    OBVIOUS
  <2>7. q \in ServiceState
    <3>1. initialBreaker \in [failures : Nat, openUntil : Nat]
      BY DEF initialBreaker
    <3> QED
      BY <2>1, <2>3, <2>5, <2>6, <3>1 DEF ServiceState
  <2>8. PICK a : a = Put(st, s, q)
    OBVIOUS
  <2>9. RestartRequested(st, s) = Step(rearmPrerequisites(retryCleanups(a, {s}).st, s),
                                       retryCleanups(a, {s}).out \union StopNow(s, p))
    BY <1>3, <2>2, <2>4, <2>6, <2>8 DEF RestartRequested
  <2>10. RestartRequested(st, s).st = rearmPrerequisites(retryCleanups(a, {s}).st, s)
    BY <2>9, StepFields
  <2> QED
    BY <1>3, <2>1, <2>7, <2>8, <2>10, RestartedHalts
<1> QED
  BY <1>1, <1>2, <1>3

\* An arming.
LEMMA ArmRequestedHalts ==
  ASSUME NEW st \in SoundState, NEW s
  PROVE  HaltsOn(st, ArmRequested(st, s).st, Services \ st.members)
<1>1. CASE s \in st.members /\ st.services[s].destroy = "none"
  <2>1. s \in Services /\ st \in LifecycleState
    BY <1>1, SoundMembers
  <2>2. PICK q : q = [st.services[s] EXCEPT !.intent = Activation[s], !.breaker = initialBreaker]
    OBVIOUS
  <2>3. ArmRequested(st, s).st = Put(st, s, q)
    BY <1>1, <2>2, StepFields DEF ArmRequested
  <2>4. PICK Ss \in SUBSET Services : Ss = Services \ st.members
    OBVIOUS
  <2>5. HaltsOn(Put(st, s, q), Put(st, s, q), Ss)
    BY DEF HaltsOn, Halts
  <2>6. HaltsOn(st, Put(st, s, q), Ss)
    BY <1>1, <2>1, <2>4, <2>5, PutThenHalts
  <2> QED
    BY <2>3, <2>4, <2>6
<1>2. CASE ~(s \in st.members /\ st.services[s].destroy = "none")
  BY <1>2, StillHalts DEF ArmRequested
<1> QED
  BY <1>1, <1>2

\* Nothing removed but what is down: what leaves the graph is as if never launched.
LEMMA GraphUpdatedHalts ==
  ASSUME NEW st \in SoundState, NEW s \in Services
  PROVE  /\ HaltsOn(st, GraphUpdated(st, s).st, Services)
         /\ st.members \ GraphUpdated(st, s).st.members \subseteq {s}
         /\ s \in st.members /\ s \notin GraphUpdated(st, s).st.members =>
              Halting(GraphUpdated(st, s).st.services[s], 0)
<1>1. CASE st.services[s].destroy # "reserved" /\ isActiveForGraphUpdate(st.services[s])
  BY <1>1, StillHalts, StepFields DEF GraphUpdated, Refused
<1>2. CASE ~(st.services[s].destroy # "reserved" /\ isActiveForGraphUpdate(st.services[s]))
  <2>1. PICK q : q = initialService("stopped")
    OBVIOUS
  <2>2. \A g : Halting(q, g)
    BY <2>1 DEF initialService, Halting, Stopped, PhaseOf
  <2>3. PICK a : a = Put(st, s, q)
    OBVIOUS
  <2>4. PICK new : new = [a EXCEPT !.members = @ \ {s}]
    OBVIOUS
  <2>5. GraphUpdated(st, s).st = new
    BY <1>2, <2>1, <2>3, <2>4, StepFields DEF GraphUpdated
  <2>6. st \in LifecycleState
    BY SoundMembers
  <2>7. /\ new.members = st.members \ {s}
        /\ \A t \in Services : new.services[t] = IF t = s THEN q ELSE st.services[t]
    BY <2>3, <2>4, <2>6 DEF Put, LifecycleState
  <2>8. HaltsOn(st, new, Services)
    BY <2>2, <2>7 DEF HaltsOn, Halts
  <2> QED
    BY <2>2, <2>5, <2>7, <2>8
<1> QED
  BY <1>1, <1>2

-----------------------------------------------------------------------------
(* The pass that settles an event.                                         *)

\* A turn of the pass launches nothing that is stopped, and touches nothing that is down.
LEMMA TurnHalts ==
  ASSUME NEW st \in SoundState, NEW s \in Services
  PROVE  Halts(st.services[s], settleService(st, s).st.services[s])
<1>1. CASE st.services[s].intent = "stopped" /\ st.services[s].phase.tag \in {"Stopped", "Stopping"}
  <2>1. settleService(st, s) = Ignored(st)
    BY <1>1 DEF settleService, MayLaunch
  <2>2. settleService(st, s).st = st
    BY <2>1, StepFields DEF Ignored
  <2> QED
    BY <2>2, HaltsSame
<1>2. CASE ~(st.services[s].intent = "stopped" /\ st.services[s].phase.tag \in {"Stopped", "Stopping"})
  BY <1>2, HaltsSame
<1> QED
  BY <1>1, <1>2

\* The whole pass.
LEMMA SettleHalts ==
  ASSUME NEW step, step.st \in SoundState
  PROVE  /\ HaltsOn(step.st, settle(step).st, Services)
         /\ settle(step).st.members = step.st.members
<1>1. PICK r : r = reserve(step.st)
  OBVIOUS
<1>2. r \in SoundState /\ r.members = step.st.members
  BY <1>1, ReserveLeads DEF Leads
<1>3. PICK sv : sv = [s \in Services |-> settleService(r, s).st.services[s]]
  OBVIOUS
<1>4. PICK gc : gc = [s \in Services |-> settleService(r, s).st.generationCounters[s]]
  OBVIOUS
<1>5. PICK new : new = [r EXCEPT !.services = sv, !.generationCounters = gc]
  OBVIOUS
<1>6. PICK out : out = step.out \union UNION {settleService(r, s).out : s \in Services}
  OBVIOUS
<1>7. settle(step).st = new
  <2>1. settle(step) = Step(new, out)
    BY <1>1, <1>3, <1>4, <1>5, <1>6 DEF settle
  <2> QED
    BY <2>1, StepFields
<1>8. new.services = sv /\ new.members = step.st.members
  <2>1. r \in LifecycleState
    BY <1>2, SoundMembers
  <2> QED
    BY <1>2, <1>5, <2>1 DEF LifecycleState
<1>9. ASSUME NEW s \in Services
      PROVE  Halts(step.st.services[s], new.services[s])
  <2>1. step.st.services[s] \in ServiceState
    BY SoundFields
  <2>2. r.services[s].intent = step.st.services[s].intent
        /\ r.services[s].phase = step.st.services[s].phase
    BY <1>1, <2>1, SoundMembers DEF reserve, LifecycleState, ServiceState
  <2>3. Halts(step.st.services[s], r.services[s])
    BY <2>2, HaltsSame
  <2>4. Halts(r.services[s], settleService(r, s).st.services[s])
    BY <1>2, TurnHalts
  <2> QED
    BY <1>3, <1>8, <2>3, <2>4 DEF Halts
<1> QED
  BY <1>7, <1>8, <1>9 DEF HaltsOn
-----------------------------------------------------------------------------
\* What is not registered stays halted, and what leaves the graph is.
StaysOut(st, new) ==
  /\ new.members \subseteq st.members
  /\ HaltsOn(st, new, Services \ st.members)
  /\ \A s \in st.members \ new.members : Halting(new.services[s], 0)

\* The same members: they are those that may be started.
LEMMA SameStayOut ==
  ASSUME NEW st, NEW new, new.members = st.members, HaltsOn(st, new, Services \ st.members)
  PROVE  StaysOut(st, new)
BY DEF StaysOut

\* One event after another.
LEMMA StayOutOn ==
  ASSUME NEW st \in SoundState, NEW a, NEW b, StaysOut(st, a), StaysOut(a, b)
  PROVE  StaysOut(st, b)
<1>1. b.members \subseteq st.members
  BY DEF StaysOut
<1>2. HaltsOn(st, b, Services \ st.members)
  BY DEF StaysOut, HaltsOn, Halts
<1>3. ASSUME NEW s \in st.members \ b.members
      PROVE  Halting(b.services[s], 0)
  <2>1. CASE s \in a.members
    BY <2>1 DEF StaysOut
  <2>2. CASE s \notin a.members
    <3>1. Halting(a.services[s], 0) /\ s \in Services
      BY <2>2, SoundMembers DEF StaysOut
    <3>2. Halts(a.services[s], b.services[s])
      BY <2>2, <3>1 DEF StaysOut, HaltsOn
    <3> QED
      BY <3>1, <3>2 DEF Halts
  <2> QED
    BY <2>1, <2>2
<1> QED
  BY <1>1, <1>2, <1>3 DEF StaysOut

\* An event, if it is one, and the pass that settles it.
LEMMA SettledHalts ==
  ASSUME NEW st \in SoundState, NEW step, step.st \in SoundState, StaysOut(st, step.st)
  PROVE  /\ StaysOut(st, settle(step).st)
         /\ HaltsOn(st, step.st, Services) => HaltsOn(st, settle(step).st, Services)
<1>1. PICK a \in SoundState : a = step.st
  OBVIOUS
<1>2. PICK b : b = settle(step).st
  OBVIOUS
<1>3. HaltsOn(a, b, Services) /\ b.members = a.members
  BY <1>1, <1>2, SettleHalts
<1>4. StaysOut(a, b)
  BY <1>3 DEF StaysOut, HaltsOn
<1>5. StaysOut(st, b)
  BY <1>1, <1>4, StayOutOn
<1>6. HaltsOn(st, a, Services) => HaltsOn(st, b, Services)
  BY <1>3, HaltsOnwards
<1> QED
  BY <1>1, <1>2, <1>5, <1>6

\* What may start or arm a service.
Starters == {"start", "compose", "restart", "arm"}

\* A request.
LEMMA RequestHalts ==
  ASSUME NEW st \in SoundState, NEW call \in Operation
  PROVE  /\ StaysOut(st, Requested(st, call).st)
         /\ call.op \notin Starters => HaltsOn(st, Requested(st, call).st, Services)
<1>1. call.op \in {"connect", "inspect", "start", "ready", "compose", "restart", "arm", "stop",
                   "storage", "destroy"}
  BY DEF Operation
<1>2. PICK s \in Services : s = call.id
  BY DEF Operation
<1>3. PICK step : step = Requested(st, call)
  OBVIOUS
<1>4. CASE call.op \in {"start", "compose"}
  <2>1. step = StartRequested(st, s)
    BY <1>2, <1>3, <1>4 DEF Requested
  <2>2. step.st.members = st.members
    BY <2>1, StartRequestedPhases DEF SamePhases
  <2> QED
    BY <1>3, <1>4, <2>1, <2>2, StartRequestedHalts, SameStayOut DEF Starters
<1>5. CASE call.op = "restart"
  <2>1. step = RestartRequested(st, s)
    BY <1>2, <1>3, <1>5 DEF Requested
  <2>2. step.st.members = st.members
    BY <2>1, RestartRequestedPhases DEF SamePhases
  <2> QED
    BY <1>3, <1>5, <2>1, <2>2, RestartRequestedHalts, SameStayOut DEF Starters
<1>6. CASE call.op = "arm"
  <2>1. step = ArmRequested(st, s)
    BY <1>2, <1>3, <1>6 DEF Requested
  <2>2. step.st.members = st.members
    BY <2>1, ArmRequestedPhases DEF SamePhases
  <2> QED
    BY <1>3, <1>6, <2>1, <2>2, ArmRequestedHalts, SameStayOut DEF Starters
<1>7. ASSUME HaltsOn(st, step.st, Services), step.st.members = st.members
      PROVE  StaysOut(st, step.st) /\ HaltsOn(st, step.st, Services)
  BY <1>7 DEF StaysOut, HaltsOn
<1>8. CASE call.op = "stop"
  <2>1. step = StopRequested(st, s)
    BY <1>2, <1>3, <1>8 DEF Requested
  <2>2. step.st.members = st.members
    BY <2>1, StopRequestedPhases DEF SamePhases
  <2> QED
    BY <1>3, <1>7, <2>1, <2>2, StopRequestedHalts
<1>9. CASE call.op = "storage"
  <2>1. step = StorageReserved(st, s)
    BY <1>2, <1>3, <1>9 DEF Requested
  <2>2. step.st.members = st.members
    BY <2>1, StoragePhases DEF SamePhases
  <2> QED
    BY <1>3, <1>7, <2>1, <2>2, StorageHalts
<1>10. CASE call.op = "destroy"
  <2>1. step = DestroyRequested(st, s)
    BY <1>2, <1>3, <1>10 DEF Requested
  <2>2. step.st.members = st.members
    BY <2>1, DestroyRequestedPhases DEF SamePhases
  <2> QED
    BY <1>3, <1>7, <2>1, <2>2, DestroyRequestedHalts
<1>11. CASE call.op \in {"connect", "inspect", "ready"}
  <2>1. step = Ignored(st)
    BY <1>3, <1>11 DEF Requested
  <2>2. step.st.members = st.members
    BY <2>1, StepFields DEF Ignored
  <2> QED
    BY <1>3, <1>7, <2>1, <2>2, StillHalts
<1> QED
  BY <1>1, <1>4, <1>5, <1>6, <1>8, <1>9, <1>10, <1>11

-----------------------------------------------------------------------------
(* The events of a call, reduced one after another.                        *)

\* Where reduced events leave what is halted so, all of it unless they start something.
HaltedSteps(op) ==
  {x \in [st : SoundState, out : SUBSET LifecycleCommands] :
     /\ StaysOut(lifecycle, x.st)
     /\ op \notin Starters => HaltsOn(lifecycle, x.st, Services)}

\* The request of a call.
LEMMA FirstHalts ==
  ASSUME lifecycle \in SoundState, NEW call \in Operation
  PROVE  FirstReduced(call) \in HaltedSteps(call.op)
<1>1. FirstReduced(call) \in [st : SoundState, out : SUBSET LifecycleCommands]
  BY FirstReduces DEF Reductions
<1>2. CASE Traffic(call) \/ call.op = "ready"
  <2>1. FirstReduced(call).st = lifecycle
    BY <1>2, StepFields DEF FirstReduced, Ignored
  <2>2. StaysOut(lifecycle, lifecycle) /\ HaltsOn(lifecycle, lifecycle, Services)
    BY StillHalts, SameStayOut
  <2> QED
    BY <1>1, <2>1, <2>2 DEF HaltedSteps
<1>3. CASE ~(Traffic(call) \/ call.op = "ready")
  <2>1. PICK step : step = Requested(lifecycle, call)
    OBVIOUS
  <2>2. FirstReduced(call) = settle(step)
    BY <1>3, <2>1 DEF FirstReduced
  <2>3. step.st \in SoundState
    BY <2>1, RequestedReduces DEF StorageStep, Leads
  <2>4. StaysOut(lifecycle, step.st) /\ (call.op \notin Starters => HaltsOn(lifecycle, step.st, Services))
    BY <2>1, RequestHalts
  <2>5. StaysOut(lifecycle, settle(step).st)
        /\ (call.op \notin Starters => HaltsOn(lifecycle, settle(step).st, Services))
    BY <2>3, <2>4, SettledHalts
  <2> QED
    BY <1>1, <2>2, <2>5 DEF HaltedSteps
<1> QED
  BY <1>2, <1>3

\* One more event that halts nothing anew.
LEMMA HaltsMore ==
  ASSUME lifecycle \in SoundState, NEW op, NEW st \in SoundState,
         StaysOut(lifecycle, st), op \notin Starters => HaltsOn(lifecycle, st, Services),
         NEW step, step.st \in SoundState, step.st.members = st.members, HaltsOn(st, step.st, Services)
  PROVE  /\ StaysOut(lifecycle, settle(step).st)
         /\ op \notin Starters => HaltsOn(lifecycle, settle(step).st, Services)
<1>1. PICK a : a = settle(step).st
  OBVIOUS
<1>2. StaysOut(st, step.st)
  BY DEF StaysOut, HaltsOn
<1>3. StaysOut(st, a) /\ HaltsOn(st, a, Services)
  BY <1>1, <1>2, SettledHalts
<1>4. StaysOut(lifecycle, a)
  BY <1>3, StayOutOn
<1>5. op \notin Starters => HaltsOn(lifecycle, a, Services)
  BY <1>3, HaltsOnwards
<1> QED
  BY <1>1, <1>4, <1>5

\* One wait after another is opened.
LEMMA ReducedHalts ==
  ASSUME lifecycle \in SoundState, NEW c \in Clients, NEW call \in Operation
  PROVE  Reduced(c, call) \in HaltedSteps(call.op)
<1>1. PICK g : AwaitsAlong(g, c, call) /\ Reduced(c, call) = g[Len(Order)]
  BY ReducedWalk
<1>2. PICK n \in Nat : n = Len(Order)
  BY OrderAssumption
<1>3. PICK X : X = HaltedSteps(call.op)
  OBVIOUS
<1>4. g[0] \in X
  BY <1>1, <1>3, FirstHalts DEF AwaitsAlong
<1>5. ASSUME NEW i \in 1..n, g[i - 1] \in X
      PROVE  g[i] \in X
  <2>1. g[i] \in [st : SoundState, out : SUBSET LifecycleCommands]
    <3>1. i \in 0..n
      OBVIOUS
    <3> QED
      BY <1>1, <1>2, <3>1 DEF AwaitsAlong, Reductions
  <2>2. CASE Order[i] \notin WaitIds(call)
    BY <1>1, <1>2, <1>5, <2>2 DEF AwaitsAlong
  <2>3. CASE Order[i] \in WaitIds(call)
    <3>1. PICK s \in Services : s = Order[i]
      BY <1>2, OrderAssumption
    <3>2. PICK st \in SoundState : st = g[i - 1].st
      BY <1>3, <1>5 DEF HaltedSteps
    <3>3. PICK out : out = g[i - 1].out
      OBVIOUS
    <3>4. PICK step : step = Awaited(st, c, call, s)
      OBVIOUS
    <3>5. /\ step = Step(step.st, step.out) /\ step.st \in SoundState
          /\ step.st.members = st.members
      BY <3>2, <3>4, AwaitedQuiet DEF QuietStep, Quiet, Leads, LeavesStorage
    <3>6. PICK b \in BOOLEAN : b = RequiresReady(call, s)
      BY DEF RequiresReady
    <3>7. HaltsOn(st, step.st, Services)
      <4>1. PICK kind \in {"traffic", "explicit"} : step = openWaiter(st, s, c, b, kind)
        BY <3>4, <3>6 DEF Awaited, ReadinessAwaited, ConnectionOpened
      <4> QED
        BY <4>1, OpenWaiterHalts
    <3>8. PICK whole : whole = Also(step, out)
      OBVIOUS
    <3>9. whole.st = step.st
      <4>1. Also(Step(step.st, step.out), out) = Step(step.st, step.out \union out)
        BY AlsoFields
      <4> QED
        BY <3>5, <3>8, <4>1, StepFields
    <3>10. StaysOut(lifecycle, st) /\ (call.op \notin Starters => HaltsOn(lifecycle, st, Services))
      BY <1>3, <1>5, <3>2 DEF HaltedSteps
    <3>11. /\ StaysOut(lifecycle, settle(whole).st)
           /\ call.op \notin Starters => HaltsOn(lifecycle, settle(whole).st, Services)
      <4>1. whole.st \in SoundState /\ whole.st.members = st.members /\ HaltsOn(st, whole.st, Services)
        BY <3>5, <3>7, <3>9
      <4> QED
        BY <3>10, <4>1, HaltsMore
    <3>12. g[i] = settle(whole)
      BY <1>1, <1>2, <2>3, <3>1, <3>2, <3>3, <3>4, <3>8 DEF AwaitsAlong
    <3> QED
      BY <1>3, <2>1, <3>11, <3>12 DEF HaltedSteps
  <2> QED
    BY <2>2, <2>3
<1>6. \A i \in 0..n : g[i] \in X
  BY <1>4, <1>5, Along
<1> QED
  BY <1>1, <1>2, <1>3, <1>6

\* One wait after another is withdrawn.
LEMMA WithdrawnHalts ==
  ASSUME lifecycle \in SoundState, NEW c, NEW call
  PROVE  Withdrawn(c, call) \in HaltedSteps("none")
<1>1. PICK g : CancelsAlong(g, c, call) /\ Withdrawn(c, call) = g[Len(Order)]
  BY WithdrawnWalk
<1>2. PICK n \in Nat : n = Len(Order)
  BY OrderAssumption
<1>3. PICK X : X = HaltedSteps("none")
  OBVIOUS
<1>4. \A i \in 0..n : g[i] \in [st : SoundState, out : SUBSET LifecycleCommands]
  BY <1>1, <1>2 DEF CancelsAlong, Reductions
<1>5. g[0] \in X
  <2>1. g[0].st = lifecycle
    BY <1>1, StepFields DEF CancelsAlong, Ignored
  <2>2. StaysOut(lifecycle, lifecycle) /\ HaltsOn(lifecycle, lifecycle, Services)
    BY StillHalts, SameStayOut
  <2> QED
    BY <1>3, <1>4, <2>1, <2>2 DEF HaltedSteps
<1>6. ASSUME NEW i \in 1..n, g[i - 1] \in X
      PROVE  g[i] \in X
  <2>1. CASE Order[i] \notin WaitIds(call)
    BY <1>1, <1>2, <1>6, <2>1 DEF CancelsAlong
  <2>2. CASE Order[i] \in WaitIds(call)
    <3>1. PICK s \in Services : s = Order[i]
      BY <1>2, OrderAssumption
    <3>2. PICK st \in SoundState : st = g[i - 1].st
      BY <1>3, <1>6 DEF HaltedSteps
    <3>3. PICK out : out = g[i - 1].out
      OBVIOUS
    <3>4. PICK step : step = WaiterCancelled(st, s, c)
      OBVIOUS
    <3>5. step = Step(step.st, step.out)
      BY <3>4, StepFields DEF WaiterCancelled
    <3>6. step.st \in SoundState /\ step.st.members = st.members
      BY <3>4, WaiterCancelledQuiet DEF QuietStep, Quiet, Leads, LeavesStorage
    <3>7. HaltsOn(st, step.st, Services)
      BY <3>4, ClosedHalts
    <3>8. PICK whole : whole = Also(step, out)
      OBVIOUS
    <3>9. whole.st = step.st
      <4>1. Also(Step(step.st, step.out), out) = Step(step.st, step.out \union out)
        BY AlsoFields
      <4> QED
        BY <3>5, <3>8, <4>1, StepFields
    <3>10. PICK op : op = "none"
      OBVIOUS
    <3>11. StaysOut(lifecycle, st) /\ (op \notin Starters => HaltsOn(lifecycle, st, Services))
      BY <1>3, <1>6, <3>2, <3>10 DEF HaltedSteps
    <3>12. /\ StaysOut(lifecycle, settle(whole).st)
           /\ op \notin Starters => HaltsOn(lifecycle, settle(whole).st, Services)
      <4>1. whole.st \in SoundState /\ whole.st.members = st.members /\ HaltsOn(st, whole.st, Services)
        BY <3>6, <3>7, <3>9
      <4> QED
        BY <3>11, <4>1, HaltsMore
    <3>13. g[i] = settle(whole)
      BY <1>1, <1>2, <2>2, <3>1, <3>2, <3>3, <3>4, <3>8 DEF CancelsAlong
    <3>14. i \in 0..n
      OBVIOUS
    <3> QED
      BY <1>3, <1>4, <3>10, <3>12, <3>13, <3>14 DEF HaltedSteps
  <2> QED
    BY <2>1, <2>2
<1>7. \A i \in 0..n : g[i] \in X
  BY <1>5, <1>6, Along
<1> QED
  BY <1>1, <1>2, <1>3, <1>7

-----------------------------------------------------------------------------
(* The steps of the services and their callers.                            *)

\* What an event leaves once it is settled.
LEMMA SettledStays ==
  ASSUME NEW st \in SoundState, NEW event, event.st \in SoundState,
         event.st.members = st.members, HaltsOn(st, event.st, Services)
  PROVE  StaysOut(st, settle(event).st) /\ HaltsOn(st, settle(event).st, Services)
<1>1. StaysOut(st, event.st)
  BY DEF StaysOut, HaltsOn
<1> QED
  BY <1>1, SettledHalts

\* An outcome.
LEMMA EventHalts ==
  ASSUME lifecycle \in SoundState, NEW f \in Fiber, Reports(f), NEW quiet
  PROVE  HaltsOn(lifecycle, EventOf(f, quiet, lifecycle).st, Services)
<1>1. f.generation \in Nat \ {0} /\ f.id \in Services
  BY DEF Fiber, Generation
<1>2. f.at \in {"available", "succeeded", "recovered", "unready", "failed", "lost", "exited",
                "retained", "stopFailed"}
  BY DEF Fiber, Kinds, Reports, Reporting
<1>3. PICK s \in Services : s = f.id
  BY <1>1
<1>4. PICK g \in Nat \ {0} : g = f.generation
  BY <1>1
<1>5. PICK step : step = EventOf(f, quiet, lifecycle)
  OBVIOUS
<1>6. CASE f.at = "available"
  <2>1. step = SessionAvailable(lifecycle, s, g)
    BY <1>3, <1>4, <1>5, <1>6 DEF EventOf, OutcomeOf
  <2> QED
    BY <1>5, <2>1, CheckedHalts
<1>7. CASE f.at = "succeeded"
  <2>1. step = LaunchSucceeded(lifecycle, s, g)
    BY <1>3, <1>4, <1>5, <1>7 DEF EventOf, OutcomeOf
  <2> QED
    BY <1>5, <2>1, CheckedHalts
<1>8. CASE f.at = "recovered"
  <2>1. step = ReadinessRecovered(lifecycle, s, g)
    BY <1>3, <1>4, <1>5, <1>8 DEF EventOf, OutcomeOf
  <2> QED
    BY <1>5, <2>1, CheckedHalts
<1>9. CASE f.at = "unready"
  <2>1. step = ReadinessLost(lifecycle, s, g)
    BY <1>3, <1>4, <1>5, <1>9 DEF EventOf, OutcomeOf
  <2> QED
    BY <1>5, <2>1, ReadinessLostHalts
<1>10. CASE f.at = "failed"
  <2>1. step = LaunchFailed(lifecycle, s, g, quiet)
    BY <1>3, <1>4, <1>5, <1>10 DEF EventOf, OutcomeOf
  <2> QED
    BY <1>5, <2>1, LaunchFailedHalts
<1>11. CASE f.at = "lost"
  <2>1. step = SessionLost(lifecycle, s, g, quiet)
    BY <1>3, <1>4, <1>5, <1>11 DEF EventOf, OutcomeOf
  <2> QED
    BY <1>5, <2>1, SessionLostHalts
<1>12. CASE f.at = "exited"
  <2>1. PICK requested : requested = (f.kind = "stop")
    OBVIOUS
  <2>2. step = Exited(lifecycle, s, g, requested)
    BY <1>3, <1>4, <1>5, <1>12, <2>1 DEF EventOf, OutcomeOf
  <2> QED
    BY <1>5, <2>2, ExitedHalts
<1>13. CASE f.at \in {"retained", "stopFailed"}
  <2>1. PICK failure : failure = (f.kind # "stop")
    OBVIOUS
  <2>2. step = StopFailed(lifecycle, s, g, failure, quiet)
    BY <1>3, <1>4, <1>5, <1>13, <2>1 DEF EventOf, OutcomeOf
  <2> QED
    BY <1>5, <2>2, StopFailedHalts
<1> QED
  BY <1>2, <1>5, <1>6, <1>7, <1>8, <1>9, <1>10, <1>11, <1>12, <1>13

\* An outcome is delivered.
LEMMA DeliverHalts ==
  ASSUME OwnerInv, NEW f \in fibers, Deliver(f)
  PROVE  StaysOut(lifecycle, lifecycle') /\ HaltsOn(lifecycle, lifecycle', Services)
<1>1. lifecycle \in SoundState /\ f \in Fiber
  BY OwnerParts DEF BoundaryInv, TypeOK
<1>2. Reports(f)
  BY DEF Deliver, Delivered
<1>3. PICK quiet \in MayBeQuiet(f) :
        Publish(settle(EventOf(f, quiet, lifecycle)), commands, timers, client)
  BY DEF Deliver
<1>4. PICK event : event = EventOf(f, quiet, lifecycle)
  OBVIOUS
<1>5. event.st \in SoundState /\ event.st.members = lifecycle.members
  BY <1>1, <1>2, <1>4, EventQuiet DEF QuietStep, Quiet, Leads, LeavesStorage
<1>6. HaltsOn(lifecycle, event.st, Services)
  BY <1>1, <1>2, <1>4, EventHalts
<1>7. lifecycle' = settle(event).st
  BY <1>3, <1>4 DEF Publish
<1> QED
  BY <1>1, <1>5, <1>6, <1>7, SettledStays

\* A timer fires.
LEMMA TimerHalts ==
  ASSUME OwnerInv,
         \/ \E s \in Services : IdleTimerFires(s)
         \/ \E x \in timers.cooldown : CooldownTimerFires(x[1], x[2])
  PROVE  StaysOut(lifecycle, lifecycle') /\ HaltsOn(lifecycle, lifecycle', Services)
<1>1. lifecycle \in SoundState /\ timers \in TimersType
  BY OwnerParts
<1>2. ASSUME NEW s \in Services, IdleTimerFires(s)
      PROVE  StaysOut(lifecycle, lifecycle') /\ HaltsOn(lifecycle, lifecycle', Services)
  <2>1. PICK g : g = timers.idle[s].generation
    OBVIOUS
  <2>2. PICK epoch : epoch = timers.idle[s].epoch
    OBVIOUS
  <2>3. PICK event : event = IdleElapsed(lifecycle, s, g, epoch)
    OBVIOUS
  <2>4. lifecycle' = settle(event).st
    BY <1>2, <2>1, <2>2, <2>3 DEF IdleTimerFires, Dispatch, Publish
  <2>5. event.st \in SoundState /\ event.st.members = lifecycle.members
    BY <1>1, <2>3, IdleElapsedQuiet DEF QuietStep, Quiet, Leads, LeavesStorage
  <2>6. HaltsOn(lifecycle, event.st, Services)
    BY <1>1, <2>3, TimersHalt
  <2> QED
    BY <1>1, <2>4, <2>5, <2>6, SettledStays
<1>3. ASSUME NEW x \in timers.cooldown, CooldownTimerFires(x[1], x[2])
      PROVE  StaysOut(lifecycle, lifecycle') /\ HaltsOn(lifecycle, lifecycle', Services)
  <2>1. PICK s : s = x[1]
    OBVIOUS
  <2>2. PICK g : g = x[2]
    OBVIOUS
  <2>3. PICK event : event = CooldownElapsed(lifecycle, s, g)
    OBVIOUS
  <2>4. lifecycle' = settle(event).st
    BY <1>3, <2>1, <2>2, <2>3 DEF CooldownTimerFires, Dispatch, Publish
  <2>5. s \in Services
    BY <1>1, <2>1 DEF TimersType
  <2>6. event.st \in SoundState /\ event.st.members = lifecycle.members
    BY <1>1, <2>3, <2>5, CooldownElapsedQuiet DEF QuietStep, Quiet, Leads, LeavesStorage
  <2>7. HaltsOn(lifecycle, event.st, Services)
    BY <1>1, <2>3, <2>5, TimersHalt
  <2> QED
    BY <1>1, <2>4, <2>6, <2>7, SettledStays
<1> QED
  BY <1>2, <1>3

\* A lease is given back.
LEMMA CloseHalts ==
  ASSUME OwnerInv, NEW c \in Clients, Close(c)
  PROVE  StaysOut(lifecycle, lifecycle') /\ HaltsOn(lifecycle, lifecycle', Services)
<1>1. lifecycle \in SoundState
  BY OwnerParts
<1>2. PICK s \in Services : s = client[c].call.id
  BY CallOf DEF Close
<1>3. PICK event : event = ConnectionClosed(lifecycle, s)
  OBVIOUS
<1>4. event.st \in SoundState /\ event.st.members = lifecycle.members
  BY <1>1, <1>3, ConnectionClosedQuiet DEF QuietStep, Quiet, Leads, LeavesStorage
<1>5. HaltsOn(lifecycle, event.st, Services)
  BY <1>1, <1>3, ClosedHalts
<1>6. lifecycle' = settle(event).st
  BY <1>2, <1>3 DEF Close, Dispatch, Publish
<1> QED
  BY <1>1, <1>4, <1>5, <1>6, SettledStays

\* The end of a reservation leaves the members alone.
LEMMA ReleasedMembers ==
  ASSUME NEW st \in SoundState, NEW s \in Services
  PROVE  /\ DestroyReleased(st, s).st.members = st.members
         /\ StorageReleased(st, s).st.members = st.members
<1>1. st \in LifecycleState
  BY SoundFields
<1>2. PICK q : q = [st.services[s] EXCEPT !.destroy = "none",
                      !.storageReserved = @ /\ st.services[s].destroy # "reserved"]
  OBVIOUS
<1>3. DestroyReleased(st, s).st = Put(st, s, q)
  BY <1>2, StepFields DEF DestroyReleased
<1>4. StorageReleased(st, s).st
        = [st EXCEPT !.services[s].storageReserved = @ /\ st.services[s].destroy = "reserved"]
  BY StepFields DEF StorageReleased
<1> QED
  BY <1>1, <1>3, <1>4 DEF Put, LifecycleState

\* A reservation ends.
LEMMA ReleaseHalts ==
  ASSUME OwnerInv, NEW c \in Clients, Release(c)
  PROVE  StaysOut(lifecycle, lifecycle') /\ HaltsOn(lifecycle, lifecycle', Services)
<1>1. lifecycle \in SoundState
  BY OwnerParts
<1>2. PICK s \in Services : s = client[c].call.id
  BY CallOf DEF Release
<1>3. PICK event : event = IF client[c].call.op = "destroy" THEN DestroyReleased(lifecycle, s)
                                                            ELSE StorageReleased(lifecycle, s)
  OBVIOUS
<1>4. event.st \in SoundState /\ event.st.members = lifecycle.members
      /\ HaltsOn(lifecycle, event.st, Services)
  <2>1. CASE event = DestroyReleased(lifecycle, s)
    BY <1>1, <2>1, DestroyReleasedStep, ReleasedMembers, StorageHalts DEF StorageStep, Leads
  <2>2. CASE event = StorageReleased(lifecycle, s)
    BY <1>1, <2>2, StorageReleasedStep, ReleasedMembers, StorageHalts DEF StorageStep, Leads
  <2> QED
    BY <1>3, <2>1, <2>2
<1>5. lifecycle' = settle(event).st
  BY <1>2, <1>3 DEF Release, Dispatch, Publish
<1> QED
  BY <1>1, <1>4, <1>5, SettledStays

\* A service leaves the graph: it is halted from then on.
LEMMA UnregisterHalts ==
  ASSUME OwnerInv, NEW c \in Clients, Unregister(c)
  PROVE  StaysOut(lifecycle, lifecycle') /\ HaltsOn(lifecycle, lifecycle', Services)
<1>1. lifecycle \in SoundState
  BY OwnerParts
<1>2. PICK s \in Services : s = client[c].call.id
  BY CallOf DEF Unregister
<1>3. PICK event : event = GraphUpdated(lifecycle, s)
  OBVIOUS
<1>4. event.st \in SoundState /\ event.st.members \subseteq lifecycle.members
  BY <1>1, <1>3, GraphUpdatedStep DEF StorageStep, Leads
<1>5. HaltsOn(lifecycle, event.st, Services) /\ StaysOut(lifecycle, event.st)
  BY <1>1, <1>3, <1>4, GraphUpdatedHalts, SoundMembers DEF StaysOut, HaltsOn
<1>6. PICK removed : removed = settle(event)
  OBVIOUS
<1>7. PICK st : st = removed.st
  OBVIOUS
<1>8. HaltsOn(lifecycle, st, Services) /\ StaysOut(lifecycle, st)
  BY <1>1, <1>4, <1>5, <1>6, <1>7, SettledHalts
<1>9. st \in SoundState
  BY <1>4, <1>6, <1>7, SettleAdvances DEF Advances
<1>10. PICK release : release = DestroyReleased(st, s)
  OBVIOUS
<1>11. release.st \in SoundState /\ release.st.members = st.members
       /\ HaltsOn(st, release.st, Services)
  BY <1>9, <1>10, DestroyReleasedStep, ReleasedMembers, StorageHalts DEF StorageStep, Leads
<1>12. PICK whole : whole = Also(release, removed.out)
  OBVIOUS
<1>13. whole.st = release.st
  BY <1>12 DEF Also, Step
<1>14. StaysOut(st, settle(whole).st) /\ HaltsOn(st, settle(whole).st, Services)
  BY <1>9, <1>11, <1>13, SettledStays
<1>15. lifecycle' = settle(whole).st
  BY <1>2, <1>3, <1>6, <1>7, <1>10, <1>12 DEF Unregister, Dispatch, Publish
<1> QED
  BY <1>1, <1>8, <1>14, <1>15, StayOutOn, HaltsOnwards

\* A call enters, and starts something only if the gate is not draining; or it withdraws.
LEMMA WalksHalt ==
  ASSUME OwnerInv, NEW c \in Clients, Enter(c) \/ Withdraw(c)
  PROVE  /\ StaysOut(lifecycle, lifecycle')
         /\ Withdraw(c) \/ client[c].call.op \notin Starters => HaltsOn(lifecycle, lifecycle', Services)
<1>1. lifecycle \in SoundState
  BY OwnerParts
<1>2. PICK call \in Operation : call = client[c].call
  BY CallOf DEF Enter, Withdraw
<1>3. CASE Enter(c)
  <2>1. PICK step : step = Reduced(c, call)
    OBVIOUS
  <2>2. lifecycle' = step.st
    BY <1>2, <1>3, <2>1 DEF Enter, Dispatch, Publish
  <2>3. step \in HaltedSteps(call.op)
    BY <1>1, <2>1, ReducedHalts
  <2>4. client[c].at = "gate" /\ ~Withdraw(c)
    BY <1>3 DEF Enter, Withdraw
  <2> QED
    BY <1>2, <2>2, <2>3, <2>4 DEF HaltedSteps
<1>4. CASE Withdraw(c)
  <2>1. PICK step : step = Withdrawn(c, call)
    OBVIOUS
  <2>2. lifecycle' = step.st
    BY <1>2, <1>4, <2>1 DEF Withdraw, Dispatch, Publish
  <2>3. PICK op : op = "none"
    OBVIOUS
  <2>4. step \in HaltedSteps(op)
    BY <1>1, <2>1, <2>3, WithdrawnHalts
  <2> QED
    BY <2>2, <2>3, <2>4 DEF HaltedSteps, Starters
<1> QED
  BY <1>3, <1>4

\* Nothing at all.
LEMMA UnmovedHalts ==
  ASSUME lifecycle' = lifecycle
  PROVE  StaysOut(lifecycle, lifecycle') /\ HaltsOn(lifecycle, lifecycle', Services)
BY StillHalts DEF StaysOut, HaltsOn

\* A step of the services and their callers: what is not registered stays halted, and while
\* the owner drains, whatever is halted.
LEMMA ServicesStepHalts ==
  ASSUME OwnerInv, ServicesStep
  PROVE  StaysOut(lifecycle, lifecycle') /\ (Draining => HaltsOn(lifecycle, lifecycle', Services))
<1>1. CASE UNCHANGED lifecycle
  BY <1>1, UnmovedHalts
<1>2. CASE \/ \E x \in commands : Begin(x) /\ UNCHANGED lifecycleVars
           \/ \E f \in fibers : Run(f) /\ UNCHANGED lifecycleVars
           \/ \E s \in Services : RuntimeExits(s) /\ UNCHANGED lifecycleVars
  BY <1>1, <1>2 DEF lifecycleVars
<1>3. CASE \E f \in fibers : Deliver(f)
  BY <1>3, DeliverHalts
<1>4. CASE \/ \E s \in Services : IdleTimerFires(s)
           \/ \E x \in timers.cooldown : CooldownTimerFires(x[1], x[2])
  BY <1>4, TimerHalts
<1>5. ASSUME NEW c \in Clients, CallersStep(c)
      PROVE  StaysOut(lifecycle, lifecycle') /\ (Draining => HaltsOn(lifecycle, lifecycle', Services))
  <2>1. \/ UNCHANGED lifecycle
        \/ Admits(c) /\ Enter(c)
        \/ Withdraw(c) \/ Unregister(c) \/ Release(c) \/ Close(c)
    BY <1>5 DEF CallersStep, OwnerStep, CallerStep, Refuse, Call, Expires, Observe, Admitted, Fails,
                DataWork, DataWorkEnds, Moved
  <2>2. CASE Admits(c) /\ Enter(c)
    <3>1. Draining => client[c].call.op \notin Starters
      BY <2>2 DEF Admits, Enter, Starters
    <3> QED
      BY <2>2, <3>1, WalksHalt
  <2>3. CASE Withdraw(c)
    BY <2>3, WalksHalt
  <2>4. CASE Unregister(c) \/ Release(c) \/ Close(c)
    BY <2>4, UnregisterHalts, ReleaseHalts, CloseHalts
  <2> QED
    BY <1>1, <2>1, <2>2, <2>3, <2>4
<1> QED
  BY <1>2, <1>3, <1>4, <1>5 DEF ServicesStep

-----------------------------------------------------------------------------
(* What a step leaves of a call.                                           *)

\* Across a step a caller keeps its call, or ends it.
SameCall(k, r) == r.call = k.call \/ (r.call = NoOperation /\ r.at = "done")

\* What a step that is not its own does to a caller.
Untouched(c) ==
  \/ client'[c] = client[c]
  \/ \E step : client'[c] = Resolved(client[c], c, step) /\ lifecycle' = step.st

\* The generation that a stop waits for is gone, or its cleanup has failed.
StopSeen(caller, st) ==
  LET service == st.services[caller.call.id]
  IN \/ service.cleanupFailure
     \/ ~(service.phase.tag = "Stopping" /\ service.phase.generation = caller.generation)

\* A watcher of a stop.
LEMMA SeenStop ==
  ASSUME NEW k \in Caller, k.at = "stopping", NEW st, NEW r, r = Seen(k, st)
  PROVE  \/ r.call = k.call /\ r.at = k.at /\ r.generation = k.generation
         \/ r.at = "done" /\ r.call = NoOperation /\ StopSeen(k, st)
<1>1. \/ r = [k EXCEPT !.awaiting = {k.call.id}]
      \/ r = Arrive(k, "done") /\ StopSeen(k, st)
  BY DEF Seen, StopSeen
<1> QED
  BY <1>1, DoneCaller DEF Caller

\* Any watcher keeps its call, or ends it.
LEMMA SeenSame ==
  ASSUME NEW k \in Caller, NEW st
  PROVE  SameCall(k, Seen(k, st))
<1>1. \/ Seen(k, st) = Arrive(k, "done")
      \/ Seen(k, st).call = k.call
  BY DEF Seen, Caller
<1> QED
  BY <1>1, DoneCaller DEF SameCall

\* An answer.
LEMMA ResolvedSame ==
  ASSUME NEW k \in Caller, NEW c, NEW step, NEW r, r = Resolved(k, c, step)
  PROVE  /\ SameCall(k, r)
         /\ ~Observes(k) => r.call = k.call /\ r.at = k.at /\ r.generation = k.generation
         /\ k.at = "stopping" =>
              \/ r.call = k.call /\ r.at = k.at /\ r.generation = k.generation
              \/ r.at = "done" /\ r.call = NoOperation /\ StopSeen(k, step.st)
<1>1. CASE Observes(k)
  <2>1. r = k \/ r = Seen(k, step.st)
    BY <1>1 DEF Resolved
  <2> QED
    BY <1>1, <2>1, SeenStop, SeenSame DEF SameCall
<1>2. CASE ~Observes(k)
  <2>1. r.call = k.call /\ r.at = k.at /\ r.generation = k.generation
    BY <1>2 DEF Resolved, Caller
  <2> QED
    BY <1>2, <2>1 DEF SameCall, Observes
<1> QED
  BY <1>1, <1>2

\* Who does not step.
LEMMA UntouchedSame ==
  ASSUME NEW c, client[c] \in Caller, Untouched(c)
  PROVE  /\ SameCall(client[c], client'[c])
         /\ ~Observes(client[c]) =>
              /\ client'[c].call = client[c].call /\ client'[c].at = client[c].at
              /\ client'[c].generation = client[c].generation
         /\ client[c].at = "stopping" =>
              \/ /\ client'[c].call = client[c].call /\ client'[c].at = client[c].at
                 /\ client'[c].generation = client[c].generation
              \/ client'[c].at = "done" /\ client'[c].call = NoOperation /\ StopSeen(client[c], lifecycle')
<1>1. CASE client'[c] = client[c]
  BY <1>1 DEF SameCall
<1>2. CASE \E step : client'[c] = Resolved(client[c], c, step) /\ lifecycle' = step.st
  <2>1. PICK step : client'[c] = Resolved(client[c], c, step) /\ lifecycle' = step.st
    BY <1>2
  <2> QED
    BY <2>1, ResolvedSame
<1> QED
  BY <1>1, <1>2 DEF Untouched

\* What the gate publishes concerns the others only so.
LEMMA PublishUntouched ==
  ASSUME NEW step, NEW pending, NEW running, NEW callers, Publish(step, pending, running, callers),
         NEW c \in Clients, callers[c] = client[c]
  PROVE  Untouched(c)
BY DEF Publish, Untouched

\* What a caller does leaves the others alone.
LEMMA OthersUntouched ==
  ASSUME OwnerInv, NEW c \in Clients, NEW d \in Clients \ {c}, CallersStep(d)
  PROVE  Untouched(c)
<1>1. client \in [Clients -> Caller]
  BY OwnerParts
<1>2. ASSUME NEW r, client' = [client EXCEPT ![d] = r]
      PROVE  Untouched(c)
  BY <1>1, <1>2 DEF Untouched
<1>3. ASSUME NEW step, NEW r, Dispatch(step, timers, [client EXCEPT ![d] = r])
      PROVE  Untouched(c)
  <2>1. PICK callers : callers = [client EXCEPT ![d] = r]
    OBVIOUS
  <2>2. callers[c] = client[c]
    BY <1>1, <2>1
  <2>3. Publish(step, commands, timers, callers)
    BY <1>3, <2>1 DEF Dispatch
  <2> QED
    BY <2>2, <2>3, PublishUntouched
<1>4. ASSUME NEW at, client' = Goes(d, at)
      PROVE  Untouched(c)
  BY <1>2, <1>4 DEF Goes
<1>5. ASSUME NEW step, NEW at, Dispatch(step, timers, Goes(d, at))
      PROVE  Untouched(c)
  BY <1>3, <1>5 DEF Goes
<1>6. CASE Call(d)
  <2>1. PICK call \in Operations[d] :
          \/ client' = Goes(d, "done")
          \/ client' = [client EXCEPT ![d] = [NewCaller EXCEPT !.call = call, !.at = "gate"]]
    BY <1>6 DEF Call, Moved
  <2> QED
    BY <1>2, <1>4, <2>1
<1>7. CASE Refuse(d) \/ Admitted(d) \/ Expires(d) \/ Fails(d)
  <2>1. PICK at : client' = Goes(d, at)
    BY <1>7 DEF Refuse, Admitted, Expires, Fails, Moved
  <2> QED
    BY <1>4, <2>1
<1>8. CASE DataWork(d) \/ DataWorkEnds(d)
  <2>1. PICK at : client' = Goes(d, at)
    BY <1>8 DEF DataWork, DataWorkEnds
  <2> QED
    BY <1>4, <2>1
<1>9. CASE Withdraw(d) \/ Close(d) \/ Unregister(d) \/ Release(d)
  <2>1. PICK at, step : Dispatch(step, timers, Goes(d, at))
    BY <1>9 DEF Withdraw, Close, Unregister, Release
  <2> QED
    BY <1>5, <2>1
<1>10. CASE Observe(d)
  BY <1>2, <1>10 DEF Observe, Moved
<1>11. CASE Enter(d)
  <2>1. PICK step, stage, r : Dispatch(step, timers,
          IF stage = "done" THEN Goes(d, "done") ELSE [client EXCEPT ![d] = r])
    BY <1>11 DEF Enter
  <2>2. CASE stage = "done"
    BY <1>5, <2>1, <2>2
  <2>3. CASE stage # "done"
    BY <1>3, <2>1, <2>3
  <2> QED
    BY <2>2, <2>3
<1> QED
  BY <1>6, <1>7, <1>8, <1>9, <1>10, <1>11 DEF CallersStep, OwnerStep, CallerStep

\* Every step of the services and their callers is a caller's own, or leaves it so.
LEMMA ServicesUntouched ==
  ASSUME OwnerInv, ServicesStep, NEW c \in Clients, ~CallersStep(c)
  PROVE  Untouched(c)
<1>1. client \in [Clients -> Caller]
  BY OwnerParts
<1>2. CASE \/ \E x \in commands : Begin(x) /\ UNCHANGED lifecycleVars
           \/ \E f \in fibers : Run(f) /\ UNCHANGED lifecycleVars
           \/ \E s \in Services : RuntimeExits(s) /\ UNCHANGED lifecycleVars
  BY <1>2 DEF lifecycleVars, Untouched
<1>3. CASE \/ \E f \in fibers : Deliver(f)
           \/ \E s \in Services : IdleTimerFires(s)
           \/ \E x \in timers.cooldown : CooldownTimerFires(x[1], x[2])
  <2>1. PICK step, pending, running : Publish(step, pending, running, client)
    BY <1>3 DEF Deliver, IdleTimerFires, CooldownTimerFires, Dispatch
  <2> QED
    BY <2>1, PublishUntouched
<1>4. ASSUME NEW d \in Clients, CallersStep(d)
      PROVE  Untouched(c)
  BY <1>4, OthersUntouched
<1> QED
  BY <1>2, <1>3, <1>4 DEF ServicesStep

\* Who moves on keeps its call, or ends it.
LEMMA ArriveSame ==
  ASSUME NEW k \in Caller, NEW at \in Stages
  PROVE  SameCall(k, Arrive(k, at))
<1>1. CASE at = "done"
  BY <1>1, DoneCaller DEF SameCall
<1>2. CASE at # "done"
  BY <1>2, ArriveFields DEF SameCall
<1> QED
  BY <1>1, <1>2

\* After the gate, too.
LEMMA PublishSame ==
  ASSUME client \in [Clients -> Caller], NEW c \in Clients, NEW r \in Caller, SameCall(client[c], r),
         NEW step, Dispatch(step, timers, [client EXCEPT ![c] = r])
  PROVE  SameCall(client[c], client'[c])
<1>1. PICK callers : callers = [client EXCEPT ![c] = r]
  OBVIOUS
<1>2. callers[c] = r
  BY <1>1
<1>3. client'[c] = Resolved(r, c, step)
  BY <1>1, <1>2 DEF Dispatch, Publish
<1>4. PICK q : q = Resolved(r, c, step)
  OBVIOUS
<1>5. SameCall(r, q) /\ (r.at = "done" => q.call = r.call /\ q.at = r.at)
  BY <1>4, ResolvedSame DEF Observes
<1> QED
  BY <1>3, <1>4, <1>5 DEF SameCall

\* A caller's own step: it keeps its call, or ends it, unless it is a call it makes.
LEMMA OwnSame ==
  ASSUME OwnerInv, NEW c \in Clients, CallersStep(c)
  PROVE  \/ SameCall(client[c], client'[c])
         \/ Call(c) /\ MayCall(c)
<1>1. client \in [Clients -> Caller] /\ client[c] \in Caller /\ lifecycle \in SoundState
  BY OwnerParts
<1>2. ASSUME NEW r, SameCall(client[c], r), client' = [client EXCEPT ![c] = r]
      PROVE  SameCall(client[c], client'[c])
  BY <1>1, <1>2
<1>3. ASSUME NEW at \in Stages, client' = Goes(c, at)
      PROVE  SameCall(client[c], client'[c])
  BY <1>1, <1>2, <1>3, ArriveSame DEF Goes
<1>4. ASSUME NEW at \in Stages, NEW step, Dispatch(step, timers, Goes(c, at))
      PROVE  SameCall(client[c], client'[c])
  <2>1. PICK r : r = Arrive(client[c], at)
    OBVIOUS
  <2>2. SameCall(client[c], r) /\ r \in Caller
    BY <1>1, <2>1, ArriveSame, ArriveFields, DoneCaller
  <2>3. Dispatch(step, timers, [client EXCEPT ![c] = r])
    BY <1>4, <2>1 DEF Goes
  <2> QED
    BY <1>1, <2>2, <2>3, PublishSame
<1>5. CASE Refuse(c) \/ Admitted(c) \/ Expires(c) \/ Fails(c)
  <2>1. PICK at : at \in Stages /\ client' = Goes(c, at)
    BY <1>5 DEF Refuse, Admitted, Expires, Fails, Moved, Stages
  <2> QED
    BY <1>3, <2>1
<1>6. CASE DataWork(c) \/ DataWorkEnds(c)
  <2>1. PICK at : at \in Stages /\ client' = Goes(c, at)
    BY <1>6 DEF DataWork, DataWorkEnds, Stages
  <2> QED
    BY <1>3, <2>1
<1>7. CASE Withdraw(c) \/ Close(c) \/ Unregister(c) \/ Release(c)
  <2>1. PICK at, step : at \in Stages /\ Dispatch(step, timers, Goes(c, at))
    BY <1>7 DEF Withdraw, Close, Unregister, Release, Stages
  <2> QED
    BY <1>4, <2>1
<1>8. CASE Observe(c)
  <2>1. PICK r : r = Seen(client[c], lifecycle)
    OBVIOUS
  <2>2. client' = [client EXCEPT ![c] = r]
    BY <1>8, <2>1 DEF Observe, Moved
  <2> QED
    BY <1>1, <1>2, <2>1, <2>2, SeenSame
<1>9. CASE Enter(c)
  <2>1. PICK call \in Operation : call = client[c].call /\ call.id \in Services
    BY <1>9, CallOf DEF Enter
  <2>2. PICK step : step = Reduced(c, call)
    OBVIOUS
  <2>3. PICK stage : stage = NextStage(call, step)
    OBVIOUS
  <2>4. stage \in Stages
    BY <2>3, NextStages DEF Stages
  <2>5. CASE stage = "done"
    <3>1. Dispatch(step, timers, Goes(c, "done"))
      BY <1>9, <2>1, <2>2, <2>3, <2>5 DEF Enter
    <3> QED
      BY <1>4, <2>4, <2>5, <3>1
  <2>6. CASE stage # "done"
    <3>1. PICK A \in SUBSET Services : A = WaitIds(call)
      <4>1. WaitIds(call) \subseteq Services
        BY <2>1 DEF WaitIds, prerequisiteClosure
      <4> QED
        BY <4>1
    <3>2. PICK b \in BOOLEAN : b = (Rejected(call.id) \in step.out)
      <4>1. (Rejected(call.id) \in step.out) \in BOOLEAN
        OBVIOUS
      <4> QED
        BY <4>1, Zenon
    <3>3. PICK g \in Nat : g = IF stage = "stopping" THEN step.st.services[call.id].phase.generation ELSE 0
      <4>1. step.st \in SoundState
        BY <1>1, <2>1, <2>2, ReducedReduces DEF Reductions
      <4> QED
        BY <2>1, <4>1, SoundFields
    <3>4. PICK r : r = [client[c] EXCEPT !.at = stage, !.awaiting = A, !.failed = b, !.generation = g]
      OBVIOUS
    <3>5. r \in Caller /\ r.call = client[c].call
      BY <1>1, <2>4, <3>4 DEF Caller
    <3>6. Dispatch(step, timers, [client EXCEPT ![c] = r])
      BY <1>9, <2>1, <2>2, <2>3, <2>6, <3>1, <3>2, <3>3, <3>4 DEF Enter
    <3>7. SameCall(client[c], r)
      BY <3>5 DEF SameCall
    <3> QED
      BY <1>1, <3>5, <3>6, <3>7, PublishSame
  <2> QED
    BY <2>5, <2>6
<1> QED
  BY <1>5, <1>6, <1>7, <1>8, <1>9 DEF CallersStep, OwnerStep, CallerStep

\* Nobody but a client with operations of its own makes a call, and no destroy while
\* the owner drains.
LEMMA ServicesStepCalls ==
  ASSUME OwnerInv, ServicesStep, NEW c \in Clients
  PROVE  \/ SameCall(client[c], client'[c])
         \/ c # Host /\ client[c].at = "new" /\ (Draining => client'[c].call.op # "destroy")
<1>1. client[c] \in Caller
  BY OwnerParts
<1>2. CASE ~CallersStep(c)
  BY <1>1, <1>2, ServicesUntouched, UntouchedSame
<1>3. CASE CallersStep(c)
  <2>1. Call(c) => client[c].at = "new" /\ Operations[c] # {}
    BY DEF Call
  <2> QED
    BY <1>3, <2>1, OwnSame, ShutdownAssumption DEF MayCall
<1> QED
  BY <1>2, <1>3

-----------------------------------------------------------------------------
(* The owner's own stops.                                                  *)

\* A stop of a member that nothing depends on is not rejected.
LEMMA StopAccepted ==
  ASSUME NEW st, NEW s \in st.members, activeDependents(st, s) = {}
  PROVE  Rejected(s) \notin StopRequested(st, s).out
<1>1. PICK p : p = st.services[s]
  OBVIOUS
<1>2. PICK a : StopRequested(st, s) = Also(retryCleanups(a, {s}), failAllWaiters(s, p) \union StopNow(s, p))
  BY <1>1 DEF StopRequested
<1>3. PICK Ss : retryCleanups(a, {s}).out = {Stop(t, a.services[t].phase.generation) : t \in Ss}
  BY StepFields DEF retryCleanups
<1>4. PICK retried : retried = retryCleanups(a, {s})
  OBVIOUS
<1>5. retried = Step(retried.st, retried.out)
  BY <1>4 DEF retryCleanups, Step
<1>6. StopRequested(st, s).out = retried.out \union (failAllWaiters(s, p) \union StopNow(s, p))
  <2>1. PICK more : more = failAllWaiters(s, p) \union StopNow(s, p)
    OBVIOUS
  <2>2. PICK stopped : stopped = StopRequested(st, s)
    OBVIOUS
  <2>3. stopped = Also(Step(retried.st, retried.out), more)
    <3>1. stopped = Also(retried, more)
      BY <1>2, <1>4, <2>1, <2>2
    <3> QED
      BY <1>5, <3>1
  <2>4. stopped = Step(retried.st, retried.out \union more)
    BY <2>3, AlsoFields
  <2>5. stopped.out = retried.out \union more
    BY <2>4, StepFields
  <2> QED
    BY <2>1, <2>2, <2>5
<1>7. ASSUME NEW x \in StopRequested(st, s).out
      PROVE  x.tag \in {"Stop", "FailConnection"}
  <2>1. CASE x \in retried.out
    BY <1>3, <1>4, <2>1 DEF Stop, LifecycleCommand
  <2>2. CASE x \in failAllWaiters(s, p)
    BY <2>2 DEF failAllWaiters, Fail, WaiterCommand
  <2>3. CASE x \in StopNow(s, p)
    BY <2>3 DEF StopNow, Stop, LifecycleCommand
  <2> QED
    BY <1>6, <1>7, <2>1, <2>2, <2>3
<1>8. Rejected(s).tag = "RequestRejected"
  BY DEF Rejected
<1> QED
  BY <1>7, <1>8

\* What a stop leaves, once it is settled.
LEMMA StopReduced ==
  ASSUME lifecycle \in SoundState, NEW c, NEW call \in Operation, call.op = "stop",
         NEW step, step = Reduced(c, call)
  PROVE  /\ step.st \in SoundState
         /\ StaysOut(lifecycle, step.st)
         /\ call.id \in lifecycle.members /\ activeDependents(lifecycle, call.id) = {} =>
              /\ Rejected(call.id) \notin step.out
              /\ \E g \in Nat : Halting(step.st.services[call.id], g)
<1>1. PICK s \in Services : s = call.id
  BY DEF Operation
<1>2. WaitIds(call) = {}
  BY DEF WaitIds, Waiting, Traffic
<1>3. step = FirstReduced(call)
  BY <1>2, ReducedRequest
<1>4. PICK event : event = StopRequested(lifecycle, s)
  OBVIOUS
<1>5. Requested(lifecycle, call) = event
  BY <1>1, <1>4 DEF Requested
<1>6. step = settle(event)
  BY <1>3, <1>5 DEF FirstReduced, Traffic
<1>7. event.st \in SoundState /\ StaysOut(lifecycle, event.st)
  BY <1>5, RequestedReduces, RequestHalts DEF StorageStep, Leads
<1>8. step.st \in SoundState
  BY <1>6, <1>7, SettleAdvances DEF Advances
<1>9. StaysOut(lifecycle, step.st)
  BY <1>6, <1>7, SettledHalts
<1>10. ASSUME s \in lifecycle.members, activeDependents(lifecycle, s) = {}
       PROVE  /\ Rejected(s) \notin step.out
              /\ \E g \in Nat : Halting(step.st.services[s], g)
  <2>1. Rejected(s) \notin event.out
    BY <1>4, <1>10, StopAccepted
  <2>2. step.out = event.out \union Turns(event.st) /\ Unrefusing(Turns(event.st))
    BY <1>6, <1>7, SettleAdvances, SettleServes
  <2>3. Rejected(s).tag = "RequestRejected"
    BY DEF Rejected
  <2>4. PICK g \in Nat : Halting(event.st.services[s], g)
    BY <1>4, <1>10, StopRequestedHalts
  <2>5. HaltsOn(event.st, step.st, Services)
    BY <1>6, <1>7, SettleHalts
  <2>6. Halting(step.st.services[s], g)
    BY <2>4, <2>5 DEF HaltsOn, Halts
  <2> QED
    BY <2>1, <2>2, <2>3, <2>6 DEF Unrefusing
<1> QED
  BY <1>1, <1>8, <1>9, <1>10

\* The owner's stop enters: it watches the generation it has halted, or there is none.
LEMMA StopEnters ==
  ASSUME OwnerInv, Enter(Host), client[Host].call.op = "stop",
         \A s \in Services \ lifecycle.members : Halted(s),
         NEW s, s = client[Host].call.id
  PROVE  \/ /\ client'[Host].call = client[Host].call /\ client'[Host].at = "stopping"
            /\ Halting(lifecycle'.services[s], client'[Host].generation)
         \/ /\ client'[Host].call = NoOperation /\ client'[Host].at = "done"
            /\ activeDependents(lifecycle, s) # {} \/ Halting(lifecycle'.services[s], 0)
<1>1. /\ client \in [Clients -> Caller] /\ client[Host] \in Caller /\ lifecycle \in SoundState
      /\ Host \in Clients
  BY OwnerParts, ShutdownAssumption
<1>2. PICK call \in Operation : call = client[Host].call /\ call.id = s /\ s \in Services
  BY <1>1, CallOf DEF Enter
<1>3. PICK step : step = Reduced(Host, call)
  OBVIOUS
<1>4. PICK stage : stage = NextStage(call, step)
  OBVIOUS
<1>5. lifecycle' = step.st
  BY <1>2, <1>3 DEF Enter, Dispatch, Publish
<1>6. /\ step.st \in SoundState
      /\ StaysOut(lifecycle, step.st)
      /\ s \in lifecycle.members /\ activeDependents(lifecycle, s) = {} =>
           /\ Rejected(s) \notin step.out
           /\ \E g \in Nat : Halting(step.st.services[s], g)
  BY <1>1, <1>2, <1>3, StopReduced
<1>7. s \notin lifecycle.members => Halting(step.st.services[s], 0)
  <2>1. ASSUME s \notin lifecycle.members
        PROVE  Halting(step.st.services[s], 0)
    <3>1. Halting(lifecycle.services[s], 0)
      BY <1>2, <2>1 DEF Halted
    <3>2. Halts(lifecycle.services[s], step.st.services[s])
      BY <1>2, <1>6, <2>1 DEF StaysOut, HaltsOn
    <3> QED
      BY <3>1, <3>2 DEF Halts
  <2> QED
    BY <2>1
<1>8. /\ stage \in {"stopping", "done"}
      /\ stage = "stopping" <=> /\ Rejected(s) \notin step.out
                                /\ step.st.services[s].phase.tag = "Stopping"
  BY <1>2, <1>4 DEF NextStage, Waiting, Traffic
<1>9. CASE stage = "done"
  <2>1. PICK r : r = Arrive(client[Host], "done")
    OBVIOUS
  <2>2. r \in Caller /\ r.at = "done" /\ r.call = NoOperation
    BY <1>1, <2>1, DoneCaller
  <2>3. Dispatch(step, timers, [client EXCEPT ![Host] = r])
    BY <1>2, <1>3, <1>4, <1>9, <2>1 DEF Enter, Goes
  <2>4. client'[Host] = Resolved(r, Host, step)
    BY <1>1, <2>3 DEF Dispatch, Publish
  <2>5. client'[Host].call = NoOperation /\ client'[Host].at = "done"
    BY <2>2, <2>4, ResolvedSame DEF Observes
  <2>6. activeDependents(lifecycle, s) # {} \/ Halting(step.st.services[s], 0)
    <3>1. CASE s \in lifecycle.members /\ activeDependents(lifecycle, s) = {}
      BY <1>6, <1>8, <1>9, <3>1 DEF Halting
    <3>2. CASE s \notin lifecycle.members
      BY <1>7, <3>2
    <3> QED
      BY <3>1, <3>2
  <2> QED
    BY <1>5, <2>5, <2>6
<1>10. CASE stage = "stopping"
  <2>1. PICK A : A = WaitIds(call)
    OBVIOUS
  <2>2. A = {}
    BY <1>2, <2>1 DEF WaitIds, Waiting, Traffic
  <2>3. PICK b \in BOOLEAN : b = (Rejected(call.id) \in step.out)
    <3>1. (Rejected(call.id) \in step.out) \in BOOLEAN
      OBVIOUS
    <3> QED
      BY <3>1, Zenon
  <2>4. PICK g \in Nat : g = step.st.services[s].phase.generation
    BY <1>2, <1>6, SoundFields
  <2>5. PICK r : r = [client[Host] EXCEPT !.at = stage, !.awaiting = A, !.failed = b, !.generation = g]
    OBVIOUS
  <2>6. r \in Caller /\ r.call = call /\ r.at = "stopping" /\ r.awaiting = {} /\ r.generation = g
    BY <1>1, <1>2, <1>10, <2>2, <2>5 DEF Caller, Stages
  <2>7. Dispatch(step, timers, [client EXCEPT ![Host] = r])
    BY <1>2, <1>3, <1>4, <1>10, <2>1, <2>3, <2>4, <2>5 DEF Enter
  <2>8. client'[Host] = Resolved(r, Host, step)
    BY <1>1, <2>7 DEF Dispatch, Publish
  <2>9. client'[Host] = r
    BY <2>6, <2>8 DEF Resolved, Observes
  <2>10. Halting(step.st.services[s], g)
    <3>1. CASE s \in lifecycle.members /\ activeDependents(lifecycle, s) = {}
      BY <1>6, <1>8, <1>10, <2>4, <3>1 DEF Halting
    <3>2. CASE s \notin lifecycle.members
      BY <1>7, <1>8, <1>10, <2>4, <3>2 DEF Halting
    <3>3. CASE s \in lifecycle.members /\ activeDependents(lifecycle, s) # {}
      <4>1. Rejected(s) \in step.out
        <5>1. WaitIds(call) = {}
          BY <2>1, <2>2
        <5>2. step = FirstReduced(call)
          BY <1>3, <5>1, ReducedRequest
        <5>3. PICK event : event = Refused(lifecycle, s)
          OBVIOUS
        <5>4. Requested(lifecycle, call) = event
          BY <1>2, <3>3, <5>3 DEF Requested, StopRequested
        <5>5. step = settle(event)
          BY <1>2, <5>2, <5>4 DEF FirstReduced, Traffic
        <5>6. event.st = lifecycle /\ Rejected(s) \in event.out
          BY <5>3, StepFields DEF Refused
        <5> QED
          BY <1>1, <5>5, <5>6, SettleAdvances
      <4> QED
        BY <1>8, <1>10, <4>1
    <3> QED
      BY <3>1, <3>2, <3>3
  <2> QED
    BY <1>2, <1>5, <2>6, <2>9, <2>10
<1> QED
  BY <1>8, <1>9, <1>10

\* The owner's stop: until it ends, what it watches is halted, and when it has ended
\* without a failure, it is over.
LEMMA HostStops ==
  ASSUME OwnerInv, ServicesStep, Draining, client[Host].call.op = "stop",
         client[Host].at \in {"gate", "stopping"},
         \A s \in Services \ lifecycle.members : Halted(s),
         NEW s, s = client[Host].call.id,
         client[Host].at = "stopping" => Halting(lifecycle.services[s], client[Host].generation)
  PROVE  \/ /\ client'[Host].call = client[Host].call /\ client'[Host].at \in {"gate", "stopping"}
            /\ client'[Host].at = "stopping" => Halting(lifecycle'.services[s], client'[Host].generation)
         \/ /\ client'[Host].call = NoOperation /\ client'[Host].at = "done"
            /\ CallFails \/ Halting(lifecycle'.services[s], 0)
<1>1. client[Host] \in Caller /\ Host \in Clients /\ client[Host].call.id \in Services
  BY OwnerParts, CallOf, ShutdownAssumption
<1>2. HaltsOn(lifecycle, lifecycle', Services)
  BY ServicesStepHalts
<1>3. ASSUME client[Host].at = "stopping", client'[Host].at = "done", StopSeen(client[Host], lifecycle')
      PROVE  CallFails \/ Halting(lifecycle'.services[s], 0)
  <2>1. Halting(lifecycle'.services[s], client[Host].generation)
    BY <1>1, <1>2, <1>3 DEF HaltsOn, Halts, Caller
  <2>2. CASE lifecycle'.services[s].cleanupFailure
    BY <1>3, <2>2 DEF CallFails, CallEnds
  <2>3. CASE ~lifecycle'.services[s].cleanupFailure
    BY <1>3, <2>1, <2>3 DEF StopSeen, Halting
  <2> QED
    BY <2>2, <2>3
<1>4. CASE ~CallersStep(Host)
  <2>1. Untouched(Host)
    BY <1>1, <1>4, ServicesUntouched
  <2>2. CASE client[Host].at = "gate"
    BY <1>1, <2>1, <2>2, UntouchedSame DEF Observes
  <2>3. CASE client[Host].at = "stopping"
    <3>1. Halting(lifecycle'.services[s], client[Host].generation)
      BY <1>1, <1>2, <2>3 DEF HaltsOn, Halts, Caller
    <3> QED
      BY <1>1, <1>3, <2>1, <2>3, <3>1, UntouchedSame
  <2> QED
    BY <2>2, <2>3
<1>5. CASE CallersStep(Host)
  <2>1. Enter(Host) \/ Observe(Host)
    <3>1. Admits(Host) /\ ~Traffic(client[Host].call)
      BY DEF Admits, Traffic
    <3> QED
      BY <1>5, <3>1 DEF CallersStep, OwnerStep, CallerStep, Refuse, Call, Expires, Close, Admitted, Fails,
                        Withdraw, DataWork, DataWorkEnds, Unregister, Release
  <2>2. CASE Enter(Host)
    <3>1. client[Host].at = "gate"
      BY <2>2 DEF Enter
    <3>2. client'[Host].at = "done" /\ activeDependents(lifecycle, s) # {} => CallFails
      BY <3>1 DEF CallFails, CallEnds
    <3> QED
      BY <2>2, <3>2, StopEnters
  <2>3. CASE Observe(Host)
    <3>1. client[Host].at = "stopping" /\ lifecycle' = lifecycle
          /\ client'[Host] = Seen(client[Host], lifecycle)
      <4>1. client' = [client EXCEPT ![Host] = Seen(client[Host], lifecycle)]
            /\ lifecycle' = lifecycle /\ Observes(client[Host])
        BY <2>3 DEF Observe, Moved
      <4>2. client \in [Clients -> Caller]
        BY OwnerParts
      <4> QED
        BY <1>1, <4>1, <4>2 DEF Observes
    <3>2. \/ /\ client'[Host].call = client[Host].call /\ client'[Host].at = client[Host].at
             /\ client'[Host].generation = client[Host].generation
          \/ client'[Host].at = "done" /\ client'[Host].call = NoOperation /\ StopSeen(client[Host], lifecycle)
      BY <1>1, <3>1, SeenStop
    <3> QED
      BY <1>3, <3>1, <3>2
  <2> QED
    BY <2>1, <2>2, <2>3
<1> QED
  BY <1>4, <1>5

-----------------------------------------------------------------------------
(* The shutdown accounts for its services.                                 *)

\* A call of the shutdown that ends and does not fail leaves its service halted.
LEMMA EndedHalts ==
  ASSUME OwnerInv, OwnerInv', ServicesHalt, ServicesStep, Draining, CallEnds, ~CallFails,
         \A s \in Services \ lifecycle'.members : Halting(lifecycle'.services[s], 0)
  PROVE  Halting(lifecycle'.services[client[Host].call.id], 0)
<1>1. Host \in Clients /\ client[Host].at \notin {"new", "done"} /\ client'[Host].at = "done"
  BY ShutdownAssumption DEF CallEnds
<1>2. PICK s \in Services : s = client[Host].call.id
  BY <1>1, CallOf
<1>3. client[Host].call.op \in {"stop", "destroy"}
  BY <1>1 DEF ServicesHalt, HostIdle
<1>4. CASE client[Host].call.op = "stop"
  <2>1. /\ client[Host].at \in {"gate", "stopping"}
        /\ client[Host].at = "stopping" => Halting(lifecycle.services[s], client[Host].generation)
        /\ \A t \in Services \ lifecycle.members : Halted(t)
    BY <1>2, <1>4 DEF ServicesHalt
  <2>2. client'[Host].at \notin {"gate", "stopping"}
    BY <1>1
  <2> QED
    BY <1>2, <1>4, <2>1, <2>2, HostStops
<1>5. CASE client[Host].call.op = "destroy"
  <2>1. s \notin lifecycle'.members
    BY <1>2, <1>5 DEF CallFails
  <2> QED
    BY <1>2, <2>1
<1> QED
  BY <1>3, <1>4, <1>5

\* What the owner serves leaves its services halted, while its shutdown goes on.
LEMMA ServesHalts ==
  ASSUME OwnerInv, OwnerInv', ServicesHalt, HostFields, OwnerServes
  PROVE  ServicesHalt'
<1>1. ServicesStep /\ Host \in Clients
  BY ShutdownAssumption DEF OwnerServes
<1>2. PICK fails \in BOOLEAN : fails = CallFails
  <2>1. CallFails \in BOOLEAN
    BY DEF CallFails
  <2> QED
    BY <2>1
<1>3. /\ host'.at = host.at /\ host'.left = host.left
      /\ ~host'.failed => ~host.failed /\ ~CallFails
  <2>1. host' = [host EXCEPT !.failed = host.failed \/ fails]
    BY <1>2 DEF OwnerServes
  <2> QED
    BY <1>2, <2>1 DEF HostFields
<1>4. StaysOut(lifecycle, lifecycle') /\ (Draining => HaltsOn(lifecycle, lifecycle', Services))
  BY <1>1, ServicesStepHalts
<1>5. lifecycle \in SoundState /\ lifecycle.members \subseteq Services
  BY OwnerParts, SoundMembers
<1>6. \A s \in Services \ lifecycle'.members : Halting(lifecycle'.services[s], 0)
  <2>1. ASSUME NEW s \in Services \ lifecycle'.members
        PROVE  Halting(lifecycle'.services[s], 0)
    <3>1. CASE s \in lifecycle.members
      BY <1>4, <2>1, <3>1 DEF StaysOut
    <3>2. CASE s \notin lifecycle.members
      <4>1. Halting(lifecycle.services[s], 0)
        BY <2>1, <3>2 DEF ServicesHalt, Halted
      <4>2. Halts(lifecycle.services[s], lifecycle'.services[s])
        BY <1>4, <2>1, <3>2 DEF StaysOut, HaltsOn
      <4> QED
        BY <4>1, <4>2 DEF Halts
    <3> QED
      BY <3>1, <3>2
  <2> QED
    BY <2>1
<1>7. \A c \in Clients : /\ client[c].call.op = "none" <=> client[c].at \in {"new", "done"}
                         /\ client'[c].call.op = "none" <=> client'[c].at \in {"new", "done"}
  <2>1. (\A c \in Clients : Orderly(client[c])) /\ (\A c \in Clients : Orderly(client'[c]))
    BY DEF OwnerInv, CallsAreOrderly
  <2> QED
    BY <2>1 DEF Orderly
<1>8. SameCall(client[Host], client'[Host])
  BY <1>1, ServicesStepCalls
<1>9. HostIdle => HostIdle'
  BY <1>1, <1>7, <1>8 DEF HostIdle, SameCall
<1>10. HostIdle' \/ (host'.at = "namespace" /\ client'[Host].call.op \in {"stop", "destroy"})
  BY <1>1, <1>3, <1>8, <1>9 DEF HostIdle, SameCall, ServicesHalt
<1>11. ASSUME host.at = "namespace", NEW c \in Clients \ {Host}
       PROVE  ~Destroying(c)'
  <2>1. ~Destroying(c) /\ Draining
    BY <1>11 DEF ServicesHalt, Draining
  <2>2. \/ SameCall(client[c], client'[c])
        \/ client[c].at = "new" /\ client'[c].call.op # "destroy"
    BY <1>1, <2>1, ServicesStepCalls
  <2> QED
    BY <1>7, <2>1, <2>2 DEF Destroying, SameCall
<1>12. ASSUME client'[Host].call.op = "stop"
       PROVE  /\ client'[Host].at \in {"gate", "stopping"}
              /\ client'[Host].at = "stopping" =>
                   Halting(lifecycle'.services[client'[Host].call.id], client'[Host].generation)
  <2>1. client'[Host].call = client[Host].call /\ client[Host].call.op = "stop"
    BY <1>8, <1>12 DEF SameCall, NoOperation
  <2>2. Draining
    BY <1>1, <1>7, <2>1 DEF ServicesHalt, HostIdle, Draining
  <2>3. PICK s : s = client[Host].call.id
    OBVIOUS
  <2>4. /\ client[Host].at \in {"gate", "stopping"}
        /\ client[Host].at = "stopping" => Halting(lifecycle.services[s], client[Host].generation)
        /\ \A t \in Services \ lifecycle.members : Halted(t)
    BY <2>1, <2>3 DEF ServicesHalt
  <2>5. client'[Host].call # NoOperation
    BY <1>12 DEF NoOperation
  <2> QED
    BY <1>1, <2>1, <2>2, <2>3, <2>4, <2>5, HostStops
<1>13. ASSUME host.at \in AfterPermit, ~host'.failed, NEW s \in Services, Handled(s)'
       PROVE  Halting(lifecycle'.services[s], 0)
  <2>1. Draining /\ ~host.failed /\ ~CallFails
    BY <1>3, <1>13 DEF Draining, AfterPermit
  <2>2. CASE Handled(s)
    <3>1. Halting(lifecycle.services[s], 0)
      BY <1>13, <2>1, <2>2 DEF ServicesHalt, Halted
    <3>2. Halts(lifecycle.services[s], lifecycle'.services[s])
      BY <1>4, <2>1 DEF HaltsOn
    <3> QED
      BY <3>1, <3>2 DEF Halts
  <2>3. CASE ~Handled(s)
    <3>1. ~HostIdle /\ client[Host].call.id = s
      BY <1>3, <1>13, <2>3 DEF Handled
    <3>2. client[Host].call.op # "none"
      BY <1>1, <1>7, <3>1 DEF HostIdle
    <3>3. client'[Host].at = "done"
      <4>1. CASE client'[Host].call = client[Host].call
        <5>1. ~HostIdle'
          BY <1>1, <1>7, <3>2, <4>1 DEF HostIdle
        <5> QED
          BY <1>13, <3>1, <4>1, <5>1 DEF Handled
      <4>2. CASE client'[Host].call # client[Host].call
        BY <1>8, <4>2 DEF SameCall
      <4> QED
        BY <4>1, <4>2
    <3>4. CallEnds
      BY <3>1, <3>3 DEF CallEnds, HostIdle
    <3> QED
      BY <1>1, <1>6, <2>1, <3>1, <3>4, EndedHalts
  <2> QED
    BY <2>2, <2>3
<1>14. host.at \in AfterNamespace /\ ~host'.failed => host'.left = {}
  BY <1>3 DEF ServicesHalt
<1> QED
  BY <1>3, <1>6, <1>10, <1>11, <1>12, <1>13, <1>14 DEF ServicesHalt, Halted

\* Where no service and no caller moves, the shutdown accounts for what it moves on to.
LEMMA HostMoves ==
  ASSUME ServicesHalt, UNCHANGED <<lifecycle, client>>,
         HostIdle \/ (host.at = "namespace" => host'.at = "namespace"),
         host'.at = "namespace" => \A c \in Clients \ {Host} : ~Destroying(c),
         host'.at \in AfterPermit /\ ~host'.failed => \A s \in Services : Handled(s)' => Halted(s),
         host'.at \in AfterNamespace /\ ~host'.failed => host'.left = {}
  PROVE  ServicesHalt'
<1>1. \A s \in Services : Halted(s)' <=> Halted(s)
  BY DEF Halted
<1>2. \A s \in Services \ lifecycle'.members : Halted(s)'
  BY <1>1 DEF ServicesHalt
<1>3. HostIdle' \/ (host'.at = "namespace" /\ client'[Host].call.op \in {"stop", "destroy"})
  BY DEF ServicesHalt, HostIdle
<1>4. host'.at = "namespace" => \A c \in Clients \ {Host} : ~Destroying(c)'
  BY DEF Destroying
<1>5. client'[Host].call.op = "stop" =>
        /\ client'[Host].at \in {"gate", "stopping"}
        /\ client'[Host].at = "stopping" =>
             Halting(lifecycle'.services[client'[Host].call.id], client'[Host].generation)
  BY DEF ServicesHalt
<1>6. host'.at \in AfterPermit /\ ~host'.failed => \A s \in Services : Handled(s)' => Halted(s)'
  BY <1>1
<1> QED
  BY <1>2, <1>3, <1>4, <1>5, <1>6 DEF ServicesHalt

\* Where the shutdown does not move either.
LEMMA HostStays ==
  ASSUME ServicesHalt, UNCHANGED <<lifecycle, client>>, host'.at = host.at, host'.left = host.left,
         ~host'.failed => ~host.failed
  PROVE  ServicesHalt'
<1>1. \A s : Handled(s)' <=> Handled(s)
  BY DEF Handled, HostIdle
<1> QED
  BY <1>1, HostMoves DEF ServicesHalt

\* Before the permit, no instance has had its turn.
LEMMA HostBefore ==
  ASSUME ServicesHalt, UNCHANGED <<lifecycle, client>>, host.at # "namespace",
         host'.at \notin AfterPermit \/ (host'.at # "namespace" /\ host'.failed)
  PROVE  ServicesHalt'
BY HostMoves DEF AfterPermit, AfterNamespace

\* After the namespace, nothing is left.
LEMMA HostAfter ==
  ASSUME ServicesHalt, UNCHANGED <<lifecycle, client>>, HostIdle, host.at \in AfterPermit,
         host'.at \in AfterNamespace, host'.left = host.left, ~host'.failed => ~host.failed,
         host.at = "namespace" => host.left = {}
  PROVE  ServicesHalt'
<1>1. \A s : Handled(s)' <=> Handled(s)
  BY DEF Handled, HostIdle
<1>2. ~host'.failed => host'.left = {}
  BY DEF ServicesHalt, AfterPermit, AfterNamespace
<1> QED
  BY <1>1, <1>2, HostMoves DEF ServicesHalt, AfterNamespace

\* An instance has its turn.
LEMMA TurnIsTaken ==
  ASSUME OwnerInv, ServicesHalt, HostFields, NextInstance
  PROVE  ServicesHalt'
<1>1. PICK s \in host.left :
        LET op == IF host.mode = "destroy" THEN "destroy" ELSE "stop"
            blocked == op = "destroy" /\ DependentsConfigured(s) # {}
        IN /\ Moved(IF blocked THEN client ELSE [client EXCEPT ![Host] = Called(op, s)])
           /\ host' = [host EXCEPT !.left = host.left \ {s}, !.failed = host.failed \/ blocked]
  BY DEF NextInstance
<1>2. PICK op \in {"stop", "destroy"} : op = IF host.mode = "destroy" THEN "destroy" ELSE "stop"
  OBVIOUS
<1>3. PICK blocked \in BOOLEAN : blocked = (op = "destroy" /\ DependentsConfigured(s) # {})
  OBVIOUS
<1>4. /\ Moved(IF blocked THEN client ELSE [client EXCEPT ![Host] = Called(op, s)])
      /\ host' = [host EXCEPT !.left = host.left \ {s}, !.failed = host.failed \/ blocked]
  BY <1>1, <1>2, <1>3
<1>5. /\ host'.at = "namespace" /\ host'.left = host.left \ {s}
      /\ host'.failed = (host.failed \/ blocked)
  BY <1>4 DEF HostFields, NextInstance
<1>6. host.at = "namespace" /\ HostIdle /\ UNCHANGED lifecycle
  BY <1>4 DEF NextInstance, Moved
<1>7. CASE blocked
  <2>1. UNCHANGED client /\ host'.failed
    BY <1>4, <1>5, <1>7 DEF Moved
  <2> QED
    BY <1>5, <1>6, <2>1, HostMoves DEF ServicesHalt, AfterNamespace
<1>8. CASE ~blocked
  <2>1. client' = [client EXCEPT ![Host] = Called(op, s)] /\ Host \in Clients
    BY <1>4, <1>8, ShutdownAssumption DEF Moved
  <2>2. PICK r : r = Called(op, s)
    OBVIOUS
  <2>3. r.call.op = op /\ r.call.id = s /\ r.at = "gate"
    BY <2>2 DEF Called, NewCaller
  <2>4. client'[Host] = r /\ \A c \in Clients \ {Host} : client'[c] = client[c]
    BY <2>1, <2>2, OwnerParts
  <2>5. ~HostIdle' /\ client'[Host].call.id = s
    BY <2>3, <2>4 DEF HostIdle
  <2>6. \A t \in Services : Halted(t)' <=> Halted(t)
    BY <1>6 DEF Halted
  <2>7. \A t \in Services \ lifecycle'.members : Halted(t)'
    BY <1>6, <2>6 DEF ServicesHalt
  <2>8. \A c \in Clients \ {Host} : ~Destroying(c)'
    BY <1>6, <2>4 DEF ServicesHalt, Destroying
  <2>9. ~host'.failed => \A t \in Services : Handled(t)' => Halted(t)'
    <3>1. ASSUME ~host'.failed, NEW t \in Services, Handled(t)'
          PROVE  Halted(t)'
      <4>1. Handled(t)
        BY <1>5, <1>6, <2>5, <3>1 DEF Handled
      <4>2. Halted(t)
        BY <1>5, <1>6, <3>1, <4>1 DEF ServicesHalt, AfterPermit
      <4> QED
        BY <2>6, <4>2
    <3> QED
      BY <3>1
  <2> QED
    BY <1>5, <2>3, <2>4, <2>7, <2>8, <2>9 DEF ServicesHalt, AfterNamespace
<1> QED
  BY <1>7, <1>8

-----------------------------------------------------------------------------
(* Every step of the shutdown, and of the commands attached to it.         *)

\* What the types say of the shutdown beyond its services and its answers.
HostTypes ==
  /\ host.at \in HostStages
  /\ host.response \in Requesters \union {"none"}
  /\ host.jobs \subseteq {a \in Attachments : job[a] # "admitting"}
  /\ host.left \subseteq Services
  /\ host.exit \in BOOLEAN
  /\ job \in [Attachments -> JobStages]
  /\ main \in {"exit", "join", "returned"}
  /\ registered \in BOOLEAN

\* They are the types, with those.
LEMMA TypesAre ==
  /\ ShutdownTypeOK => HostTypes
  /\ OwnerInv' /\ HostFields' /\ HostTypes' => ShutdownTypeOK'
BY DEF ShutdownTypeOK, HostTypes, HostFields, OwnerInv, Draining

\* The part of the invariant that is about the shutdown alone.
HostInv == HostTypes /\ JobsEnd /\ ServicesHalt

\* A step of an attached command.
LEMMA JobHosts ==
  ASSUME HostInv, NEW a \in Attachments, JobsStep(a)
  PROVE  HostInv'
<1>1. UNCHANGED <<lifecycle, client, host, main, registered>>
  BY DEF JobsStep, Attach, Register, Finish, JobIs, vars, lifecycleVars
<1>2. job \in [Attachments -> JobStages]
  BY DEF HostInv, HostTypes
<1>3. ServicesHalt'
  BY <1>1, HostStays DEF HostInv
<1>4. CASE Attach(a)
  <2>1. host.at = "serving" /\ host.jobs = {}
    BY <1>4 DEF Attach, Draining, HostInv, JobsEnd
  <2>2. job' = [job EXCEPT ![a] = "admitting"]
    BY <1>4 DEF Attach, JobIs
  <2>3. job' \in [Attachments -> JobStages]
    BY <1>2, <2>2 DEF JobStages
  <2>4. HostTypes'
    BY <1>1, <2>1, <2>3 DEF HostInv, HostTypes
  <2>5. JobsEnd'
    BY <1>1, <2>1 DEF JobsEnd, AfterPermit
  <2> QED
    BY <1>3, <2>4, <2>5 DEF HostInv
<1>5. CASE Register(a)
  <2>1. job[a] = "admitting" /\ job' = [job EXCEPT ![a] = "running"]
    BY <1>5 DEF Register, JobIs
  <2>2. host.at \in {"serving", "stopAll"} /\ host.jobs = {}
    BY <2>1 DEF HostInv, JobsEnd, AdmissionFree
  <2>3. job' \in [Attachments -> JobStages]
    BY <1>2, <2>1 DEF JobStages
  <2>4. HostTypes'
    BY <1>1, <2>2, <2>3 DEF HostInv, HostTypes
  <2>5. JobsEnd'
    BY <1>1, <2>2 DEF JobsEnd, AfterPermit
  <2> QED
    BY <1>3, <2>4, <2>5 DEF HostInv
<1>6. CASE Finish(a)
  <2>1. PICK at \in Cleaned : job' = [job EXCEPT ![a] = at]
    BY <1>6 DEF Finish, JobIs
  <2>2. job[a] = "running"
    BY <1>6 DEF Finish
  <2>3. job' \in [Attachments -> JobStages] /\ job'[a] = at
        /\ \A b \in Attachments \ {a} : job'[b] = job[b]
    BY <1>2, <2>1 DEF JobStages, Cleaned
  <2>4. \A b \in Attachments : job'[b] # "admitting" \/ job[b] = "admitting"
    BY <2>3 DEF Cleaned
  <2>5. HostTypes'
    BY <1>1, <2>3, <2>4 DEF HostInv, HostTypes
  <2>6. JobsEnd'
    <3>1. AdmissionFree => AdmissionFree'
      BY <2>4 DEF AdmissionFree
    <3>2. Attached' \subseteq Attached
      BY <2>3 DEF Attached, Cleaned
    <3>3. host.at \in {"permit"} \union AfterPermit /\ ~host.failed => FALSE
      BY <2>2 DEF HostInv, JobsEnd
    <3> QED
      BY <1>1, <3>1, <3>2, <3>3 DEF HostInv, JobsEnd
  <2> QED
    BY <1>3, <2>5, <2>6 DEF HostInv
<1> QED
  BY <1>4, <1>5, <1>6 DEF JobsStep

\* Where no command moves, the shutdown's own moves account for them.
LEMMA JobsStay ==
  ASSUME JobsEnd, UNCHANGED job, host'.jobs = {},
         host'.at \notin {"serving", "stopAll"} => host.at \notin {"serving", "stopAll"} \/ AdmissionFree,
         host'.at # "interrupt",
         host'.at \in {"permit"} \union AfterPermit /\ ~host'.failed =>
           host.at \in {"permit"} \union AfterPermit /\ ~host.failed
  PROVE  JobsEnd'
<1>1. AdmissionFree' <=> AdmissionFree
  BY DEF AdmissionFree
<1> QED
  BY <1>1 DEF JobsEnd

\* The steps of the body that leave the services and the commands alone: each goes on
\* from a stage to a later one.
LEMMA BodyHosts ==
  ASSUME HostInv, HostFields, lifecycle.members \subseteq Services,
         StopAll \/ TakePermit \/ NamespaceDone \/ RemoveStack \/ CloseConnections \/ Return
  PROVE  HostInv'
<1> USE DEF HostInv
<1>1. UNCHANGED <<lifecycle, client, job>>
  BY DEF StopAll, TakePermit, NamespaceDone, RemoveStack, CloseConnections, Return, vars, lifecycleVars
<1>2. CASE StopAll
  <2>1. host.at = "stopAll" /\ AdmissionFree /\ UNCHANGED <<main, registered>>
    BY <1>2 DEF StopAll
  <2>2. /\ host'.at = "interrupt" /\ host'.jobs = Attached /\ host'.left = host.left
        /\ host'.failed = host.failed /\ host'.response = host.response /\ host'.exit = host.exit
    BY <1>2 DEF StopAll, HostFields
  <2>3. HostTypes'
    BY <1>1, <2>1, <2>2 DEF HostTypes, HostStages, Attached
  <2>4. JobsEnd'
    BY <1>1, <2>1, <2>2 DEF JobsEnd, AdmissionFree, Attached, AfterPermit
  <2>5. ServicesHalt'
    BY <1>1, <2>1, <2>2, HostBefore DEF AfterPermit
  <2> QED
    BY <2>3, <2>4, <2>5
<1>3. CASE TakePermit
  <2>1. /\ host.at = "permit" /\ UNCHANGED <<main, registered>>
        /\ \A c \in Clients : ~Destroying(c)
    BY <1>3 DEF TakePermit
  <2>2. /\ host'.at = "namespace" /\ host'.jobs = host.jobs /\ host'.left = lifecycle.members
        /\ host'.failed = host.failed /\ host'.response = host.response /\ host'.exit = host.exit
    BY <1>3 DEF TakePermit, HostFields
  <2>3. HostTypes'
    BY <1>1, <2>1, <2>2 DEF HostTypes, HostStages
  <2>4. JobsEnd'
    BY <1>1, <2>1, <2>2, JobsStay DEF JobsEnd, AfterPermit
  <2>5. ServicesHalt'
    <3>1. \A s \in Services : Handled(s)' => Halted(s)
      BY <2>2 DEF Handled, ServicesHalt
    <3> QED
      BY <1>1, <2>1, <2>2, <3>1, HostMoves DEF AfterNamespace
  <2> QED
    BY <2>3, <2>4, <2>5
<1>4. CASE NamespaceDone
  <2>1. host.at = "namespace" /\ HostIdle /\ host.left = {} /\ UNCHANGED <<main, registered>>
    BY <1>4 DEF NamespaceDone
  <2>2. \/ host' = [host EXCEPT !.at = "remove"]
        \/ host' = [host EXCEPT !.at = "finish"]
        \/ host' = [host EXCEPT !.at = "finish", !.failed = TRUE]
    BY <1>4 DEF NamespaceDone, HostGoes
  <2>3. /\ host'.at \in {"remove", "finish"} /\ host'.jobs = host.jobs /\ host'.left = host.left
        /\ (~host'.failed => ~host.failed) /\ host'.response = host.response /\ host'.exit = host.exit
    BY <2>2 DEF HostFields
  <2>4. HostTypes'
    BY <1>1, <2>1, <2>3 DEF HostTypes, HostStages
  <2>5. JobsEnd'
    BY <1>1, <2>1, <2>3, JobsStay DEF JobsEnd, AfterPermit
  <2>6. ServicesHalt'
    BY <1>1, <2>1, <2>3, HostAfter DEF AfterPermit, AfterNamespace
  <2> QED
    BY <2>4, <2>5, <2>6
<1>5. CASE RemoveStack
  <2>1. host.at = "remove" /\ UNCHANGED main /\ registered' \in {FALSE, registered}
    BY <1>5 DEF RemoveStack
  <2>2. \/ host' = [host EXCEPT !.at = "finish"]
        \/ host' = [host EXCEPT !.at = "finish", !.failed = TRUE]
    BY <1>5 DEF RemoveStack, HostGoes
  <2>3. /\ host'.at = "finish" /\ host'.jobs = host.jobs /\ host'.left = host.left
        /\ (~host'.failed => ~host.failed) /\ host'.response = host.response /\ host'.exit = host.exit
    BY <2>2 DEF HostFields
  <2>4. HostTypes'
    BY <1>1, <2>1, <2>3 DEF HostTypes, HostStages
  <2>5. JobsEnd'
    BY <1>1, <2>1, <2>3, JobsStay DEF JobsEnd, AfterPermit
  <2>6. ServicesHalt'
    BY <1>1, <2>1, <2>3, HostAfter DEF AfterPermit, AfterNamespace, ServicesHalt
  <2> QED
    BY <2>4, <2>5, <2>6
<1>6. CASE CloseConnections
  <2>1. host.at = "finish" /\ UNCHANGED <<main, registered>>
    BY <1>6 DEF CloseConnections
  <2>2. /\ host'.at = "ended" /\ host'.jobs = host.jobs /\ host'.left = host.left
        /\ host'.failed = host.failed /\ host'.response = host.response /\ host'.exit = TRUE
    BY <1>6 DEF CloseConnections, HostFields
  <2>3. HostTypes'
    BY <1>1, <2>1, <2>2 DEF HostTypes, HostStages
  <2>4. JobsEnd'
    BY <1>1, <2>1, <2>2, JobsStay DEF JobsEnd, AfterPermit
  <2>5. ServicesHalt'
    BY <1>1, <2>1, <2>2, HostAfter DEF AfterPermit, AfterNamespace, ServicesHalt
  <2> QED
    BY <2>3, <2>4, <2>5
<1>7. CASE Return
  <2>1. UNCHANGED <<host, registered>> /\ main' = "returned"
    BY <1>7 DEF Return
  <2>2. HostTypes'
    BY <1>1, <2>1 DEF HostTypes
  <2>3. JobsEnd'
    BY <1>1, <2>1 DEF JobsEnd, AdmissionFree, Attached
  <2>4. ServicesHalt'
    BY <1>1, <2>1, HostStays
  <2> QED
    BY <2>2, <2>3, <2>4
<1> QED
  BY <1>2, <1>3, <1>4, <1>5, <1>6, <1>7

\* A command of the snapshot is interrupted: it ends, or is left to be killed.
LEMMA InterruptHosts ==
  ASSUME HostInv, HostFields, NEW a \in Attachments, Interrupt(a)
  PROVE  HostInv'
<1> USE DEF HostInv
<1>1. host.at = "interrupt" /\ UNCHANGED <<lifecycle, client, main, registered>>
  BY DEF Interrupt, vars, lifecycleVars
<1>2. /\ host'.at = "interrupt" /\ host'.jobs = host.jobs \ {a} /\ host'.left = host.left
      /\ host'.failed = host.failed /\ host'.response = host.response /\ host'.exit = host.exit
  <2>1. host' = [host EXCEPT !.jobs = host.jobs \ {a}]
    BY DEF Interrupt
  <2> QED
    BY <1>1, <2>1 DEF HostFields
<1>3. job \in [Attachments -> JobStages] /\ AdmissionFree /\ Attached \subseteq host.jobs
  BY <1>1 DEF HostTypes, JobsEnd
<1>4. PICK now : now = IF a \in Attached THEN "left" ELSE job[a]
  OBVIOUS
<1>5. job' \in [Attachments -> JobStages] /\ job'[a] # "running" /\ job'[a] # "admitting"
      /\ \A b \in Attachments \ {a} : job'[b] = job[b]
  <2>1. PICK at \in Cleaned : job' = [job EXCEPT ![a] = IF a \in Attached THEN at ELSE job[a]]
    BY DEF Interrupt
  <2>2. job[a] \in JobStages /\ job[a] # "admitting"
    BY <1>3 DEF AdmissionFree
  <2>3. PICK x \in JobStages \ {"admitting", "running"} : x = IF a \in Attached THEN at ELSE job[a]
    BY <2>2 DEF Attached, Cleaned, JobStages
  <2>4. job' = [job EXCEPT ![a] = x]
    BY <2>1, <2>3
  <2> QED
    BY <1>3, <2>3, <2>4
<1>6. AdmissionFree' /\ Attached' \subseteq host'.jobs
  BY <1>2, <1>3, <1>5 DEF AdmissionFree, Attached
<1>7. HostTypes'
  BY <1>1, <1>2, <1>5, <1>6 DEF HostTypes, HostStages, AdmissionFree
<1>8. JobsEnd'
  BY <1>2, <1>6 DEF JobsEnd, AfterPermit
<1>9. ServicesHalt'
  BY <1>1, <1>2, HostBefore DEF AfterPermit
<1> QED
  BY <1>7, <1>8, <1>9

\* What is left is killed, or the shutdown fails.
LEMMA CleanupHosts ==
  ASSUME HostInv, HostFields, Cleanup
  PROVE  HostInv'
<1> USE DEF HostInv
<1>1. host.at = "interrupt" /\ host.jobs = {} /\ UNCHANGED <<lifecycle, client, main, registered>>
  BY DEF Cleanup, vars, lifecycleVars
<1>2. job \in [Attachments -> JobStages] /\ AdmissionFree /\ Attached = {}
  BY <1>1 DEF HostTypes, JobsEnd
<1>3. PICK killed \in SUBSET Attachments :
        /\ job' = [a \in Attachments |-> IF a \in killed THEN "none" ELSE job[a]]
        /\ host' = IF \E a \in Attachments : job'[a] = "left"
                     THEN [host EXCEPT !.at = "finish", !.failed = TRUE] ELSE [host EXCEPT !.at = "permit"]
  BY DEF Cleanup
<1>4. job' \in [Attachments -> JobStages] /\ \A a \in Attachments : job'[a] \in {"none", "left"}
  <2>1. \A a \in Attachments : job[a] \in {"none", "left"}
    BY <1>2 DEF AdmissionFree, Attached, JobStages
  <2> QED
    BY <1>3, <2>1 DEF JobStages
<1>5. /\ host'.jobs = {} /\ host'.left = host.left
      /\ host'.response = host.response /\ host'.exit = host.exit
      /\ \/ host'.at = "finish" /\ host'.failed
         \/ host'.at = "permit" /\ \A a \in Attachments : job'[a] # "left"
  <2>1. CASE \E a \in Attachments : job'[a] = "left"
    <3>1. host' = [host EXCEPT !.at = "finish", !.failed = TRUE]
      BY <1>3, <2>1
    <3> QED
      BY <1>1, <3>1 DEF HostFields
  <2>2. CASE ~\E a \in Attachments : job'[a] = "left"
    <3>1. host' = [host EXCEPT !.at = "permit"]
      BY <1>3, <2>2
    <3> QED
      BY <1>1, <2>2, <3>1 DEF HostFields
  <2> QED
    BY <2>1, <2>2
<1>6. HostTypes'
  BY <1>1, <1>4, <1>5 DEF HostTypes, HostStages
<1>7. JobsEnd'
  BY <1>4, <1>5 DEF JobsEnd, AdmissionFree
<1>8. ServicesHalt'
  BY <1>1, <1>5, HostBefore DEF AfterPermit
<1> QED
  BY <1>6, <1>7, <1>8

\* A request or an event begins the shutdown, or joins the one under way.
LEMMA BegunHosts ==
  ASSUME HostInv, HostFields,
         \/ \E r \in Requesters, mode \in {"stop", "destroy"} : RequestShutdown(r, mode)
         \/ \E e \in HostEvents : TakeEvent(e)
  PROVE  HostInv'
<1> USE DEF HostInv
<1>1. /\ UNCHANGED <<lifecycle, client, job>>
      /\ registered' \in BOOLEAN /\ main' \in {"exit", "join", "returned"}
      /\ \/ UNCHANGED host
         \/ /\ ~Draining
            /\ \E mode : \E response \in Requesters \union {"none"} : host' = Begun(mode, response)
  <2>1. CASE \E r \in Requesters, mode \in {"stop", "destroy"} : RequestShutdown(r, mode)
    BY <2>1 DEF RequestShutdown, HostTypes, vars, lifecycleVars
  <2>2. CASE \E e \in HostEvents : TakeEvent(e)
    <3>1. PICK e \in HostEvents : TakeEvent(e)
      BY <2>2
    <3>2. registered' \in BOOLEAN
      BY <3>1 DEF TakeEvent, HostTypes
    <3>3. main' \in {"join", "returned"} /\ UNCHANGED <<lifecycle, client, job>>
      BY <3>1 DEF TakeEvent, vars, lifecycleVars
    <3>4. host' = IF Draining THEN host ELSE Begun(ModeOf[e], "none")
      BY <3>1 DEF TakeEvent
    <3> QED
      BY <3>2, <3>3, <3>4
  <2> QED
    BY <2>1, <2>2
<1>2. CASE UNCHANGED host
  <2>1. HostTypes'
    BY <1>1, <1>2 DEF HostTypes
  <2>2. JobsEnd'
    BY <1>1, <1>2 DEF JobsEnd, AdmissionFree, Attached
  <2>3. ServicesHalt'
    BY <1>1, <1>2, HostStays
  <2> QED
    BY <2>1, <2>2, <2>3
<1>3. ASSUME ~Draining, NEW mode, NEW response \in Requesters \union {"none"}, host' = Begun(mode, response)
      PROVE  HostInv'
  <2>1. host.at = "serving"
    BY <1>3 DEF Draining
  <2>2. /\ host'.at = "stopAll" /\ host'.jobs = host.jobs /\ host'.left = host.left
        /\ host'.failed = host.failed /\ host'.response = response /\ host'.exit = host.exit
    BY <1>3 DEF Begun, HostFields
  <2>3. HostTypes'
    BY <1>1, <2>2 DEF HostTypes, HostStages
  <2>4. JobsEnd'
    BY <1>1, <2>1, <2>2 DEF JobsEnd, AfterPermit
  <2>5. ServicesHalt'
    BY <1>1, <2>1, <2>2, HostBefore DEF AfterPermit
  <2> QED
    BY <2>3, <2>4, <2>5
<1> QED
  BY <1>1, <1>2, <1>3

\* What moves neither the shutdown, nor a command, nor a service.
LEMMA UnmovedHosts ==
  ASSUME HostInv, UNCHANGED <<lifecycle, client, host, job, main, registered>>
  PROVE  HostInv'
<1>1. HostTypes'
  BY DEF HostInv, HostTypes
<1>2. JobsEnd'
  BY DEF HostInv, JobsEnd, AdmissionFree, Attached
<1>3. ServicesHalt'
  BY HostStays DEF HostInv
<1> QED
  BY <1>1, <1>2, <1>3 DEF HostInv

\* What the owner serves, and an instance's turn.
LEMMA ServedHosts ==
  ASSUME HostInv, HostFields, OwnerInv, OwnerInv', OwnerServes \/ NextInstance
  PROVE  HostInv'
<1> USE DEF HostInv
<1>1. UNCHANGED <<job, main, registered>>
  BY DEF OwnerServes, NextInstance
<1>2. /\ host'.at = host.at /\ host'.jobs = host.jobs /\ host'.left \subseteq host.left
      /\ (~host'.failed => ~host.failed) /\ host'.response = host.response /\ host'.exit = host.exit
  <2>1. CASE OwnerServes
    <3>1. PICK fails \in BOOLEAN : fails = CallFails
      <4>1. CallFails \in BOOLEAN
        BY DEF CallFails
      <4> QED
        BY <4>1
    <3>2. host' = [host EXCEPT !.failed = host.failed \/ fails]
      BY <2>1, <3>1 DEF OwnerServes
    <3> QED
      BY <3>2 DEF HostFields
  <2>2. CASE NextInstance
    <3>1. PICK s \in host.left, blocked \in BOOLEAN :
            host' = [host EXCEPT !.left = host.left \ {s}, !.failed = host.failed \/ blocked]
      BY <2>2 DEF NextInstance
    <3> QED
      BY <3>1 DEF HostFields
  <2> QED
    BY <2>1, <2>2
<1>3. HostTypes'
  BY <1>1, <1>2 DEF HostTypes
<1>4. JobsEnd'
  BY <1>1, <1>2 DEF JobsEnd, AdmissionFree, Attached
<1>5. ServicesHalt'
  BY ServesHalts, TurnIsTaken
<1> QED
  BY <1>3, <1>4, <1>5

-----------------------------------------------------------------------------
(* The owner's invariant.                                                  *)

\* A client asks something: nobody else destroys if that is what it asks.
LEMMA AsksOwner ==
  ASSUME OwnerInv, NEW c \in Clients, NEW call \in Operation,
         NEW r, r = [NewCaller EXCEPT !.call = call, !.at = "gate"],
         client' = [client EXCEPT ![c] = r], UNCHANGED <<lifecycle, timers>>, UNCHANGED serviceVars,
         call.op = "destroy" => \A d \in Clients \ {c} : ~Destroying(d)
  PROVE  OwnerInv'
<1>1. r \in Caller /\ r.call = call /\ r.at = "gate"
  BY DEF NewCaller, Caller, Stages
<1>2. Orderly(r) /\ \A s : ~Removing(r, s) /\ ~Storing(r, s)
  BY <1>1 DEF Orderly, Operation, Removing, Storing
<1>3. /\ lifecycle \in SoundState /\ client \in [Clients -> Caller] /\ CallsInv
      /\ timers \in TimersType /\ lifecycle.members \subseteq Services
  BY OwnerParts, SoundMembers
<1>4. client'[c] = r /\ \A d \in Clients \ {c} : client'[d] = client[d]
  BY <1>3
<1>5. \A d \in Clients \ {c} : GoesOn(client[d], client'[d], lifecycle')
  <2>1. \A d \in Clients : Orderly(client[d])
    BY <1>3 DEF CallsInv, CallsAreOrderly
  <2> QED
    BY <1>3, <1>4, <2>1, SameGoesOn
<1>6. Destroying(c)' => \A d \in Clients \ {c} : ~Destroying(d)
  BY <1>1, <1>4 DEF Destroying
<1>7. \A s \in Services : ~Removing(client'[c], s) /\ ~Storing(client'[c], s)
  BY <1>2, <1>4
<1>8. \A s \in lifecycle'.members : ~Storing(client'[c], s)
  BY <1>3, <1>7
<1>9. \A s \in Services : KeptStorage(s)
  BY DEF KeptStorage, KeepsStorage
<1>10. Orderly(client'[c])
  BY <1>2, <1>4
<1>11. lifecycle' \in SoundState /\ lifecycle'.members \subseteq lifecycle.members
  BY <1>3
<1>12. CallsInv'
  BY <1>3, <1>5, <1>6, <1>7, <1>8, <1>9, <1>10, <1>11, CallsStep
<1>13. client' \in [Clients -> Caller]
  BY <1>1, <1>3
<1>14. Bounded
  BY OwnBounded
<1> QED
  BY <1>3, <1>12, <1>13, <1>14, OwnerParts DEF Bounded

\* The owner's services, requests and traffic go on as they would without a shutdown,
\* but for those that are refused.
LEMMA ServesOwner ==
  ASSUME OwnerInv, ServicesStep
  PROVE  OwnerInv'
<1>1. ASSUME NEW c \in Clients, Refuse(c)
      PROVE  OwnerInv'
  <2>1. client' = Goes(c, "done") /\ UNCHANGED <<lifecycle, timers>> /\ UNCHANGED serviceVars
    BY <1>1 DEF Refuse, Moved
  <2> QED
    BY <2>1, GoesOwner
<1>2. Next \/ \E c \in Clients : Refuse(c)
  BY DEF ServicesStep, CallersStep, OwnerStep, Next, ClientStep
<1> QED
  BY <1>1, <1>2, NextOwner

\* So they do when an instance has its turn, which is a call like any other.
LEMMA TurnOwner ==
  ASSUME OwnerInv, ServicesHalt, host.left \subseteq Services, NextInstance
  PROVE  OwnerInv'
<1>1. PICK s \in host.left :
        LET op == IF host.mode = "destroy" THEN "destroy" ELSE "stop"
            blocked == op = "destroy" /\ DependentsConfigured(s) # {}
        IN Moved(IF blocked THEN client ELSE [client EXCEPT ![Host] = Called(op, s)])
  BY DEF NextInstance
<1>2. PICK op \in {"stop", "destroy"} : op = IF host.mode = "destroy" THEN "destroy" ELSE "stop"
  OBVIOUS
<1>3. \/ Moved(client)
      \/ Moved([client EXCEPT ![Host] = Called(op, s)])
  BY <1>1, <1>2
<1>4. CASE Moved(client)
  <2>1. UNCHANGED vars
    BY <1>4 DEF Moved, vars, lifecycleVars
  <2> QED
    BY <2>1, NextOwner
<1>5. CASE Moved([client EXCEPT ![Host] = Called(op, s)])
  <2>1. PICK call \in Operation : call = [op |-> op, id |-> s]
    BY DEF Operation
  <2>2. PICK r : r = [NewCaller EXCEPT !.call = call, !.at = "gate"]
    OBVIOUS
  <2>3. r = Called(op, s)
    BY <2>1, <2>2 DEF Called
  <2>4. client' = [client EXCEPT ![Host] = r] /\ UNCHANGED <<lifecycle, timers>> /\ UNCHANGED serviceVars
    BY <1>5, <2>3 DEF Moved
  <2>5. \A d \in Clients \ {Host} : ~Destroying(d)
    BY DEF NextInstance, ServicesHalt
  <2> QED
    BY <2>2, <2>4, <2>5, AsksOwner, ShutdownAssumption
<1> QED
  BY <1>3, <1>4, <1>5

-----------------------------------------------------------------------------
(* A destroy removes every instance, or fails.                             *)

\* What the owner serves: an instance whose destroy has ended is gone, unless that failed.
LEMMA ServesInstances ==
  ASSUME OwnerInv, OwnerInv', HostFields, InstancesGo, OwnerServes
  PROVE  InstancesGo'
<1>1. ServicesStep /\ Host \in Clients /\ UNCHANGED request
  BY ShutdownAssumption DEF OwnerServes
<1>2. PICK fails \in BOOLEAN : fails = CallFails
  <2>1. CallFails \in BOOLEAN
    BY DEF CallFails
  <2> QED
    BY <2>1
<1>3. /\ host'.mode = host.mode /\ host'.at = host.at /\ host'.left = host.left
      /\ ~host'.failed => ~host.failed /\ ~CallFails
  <2>1. host' = [host EXCEPT !.failed = host.failed \/ fails]
    BY <1>2 DEF OwnerServes
  <2> QED
    BY <1>2, <2>1 DEF HostFields
<1>4. lifecycle'.members \subseteq lifecycle.members
  BY <1>1, ServicesStepHalts DEF StaysOut
<1>5. /\ client[Host].call.op = "none" <=> HostIdle
      /\ client'[Host].call.op = "none" <=> HostIdle'
  <2>1. Orderly(client[Host]) /\ Orderly(client'[Host])
    BY <1>1 DEF OwnerInv, CallsAreOrderly
  <2> QED
    BY <2>1 DEF Orderly, HostIdle
<1>6. SameCall(client[Host], client'[Host])
  BY <1>1, ServicesStepCalls
<1>7. ~HostIdle' => ~HostIdle /\ client'[Host].call = client[Host].call
  BY <1>5, <1>6 DEF SameCall, HostIdle
<1>8. ASSUME host.mode = "destroy", host.at \in AfterPermit, ~host'.failed, NEW s \in lifecycle'.members
      PROVE  s \in Remaining'
  <2>1. s \in Remaining /\ ~CallFails
    BY <1>3, <1>4, <1>8 DEF InstancesGo
  <2>2. CASE s \in host.left
    BY <1>3, <2>2 DEF Remaining
  <2>3. CASE s \notin host.left
    <3>1. ~HostIdle /\ s = client[Host].call.id
      BY <2>1, <2>3 DEF Remaining
    <3>2. CASE ~HostIdle'
      BY <1>7, <3>1, <3>2 DEF Remaining
    <3>3. CASE HostIdle'
      <4>1. client'[Host].at = "done"
        BY <1>5, <1>6, <3>1, <3>3 DEF SameCall
      <4>2. CallEnds
        BY <3>1, <4>1 DEF CallEnds, HostIdle
      <4>3. client[Host].call.op = "destroy"
        BY <1>8, <3>1 DEF InstancesGo
      <4>4. CallFails
        BY <1>8, <3>1, <4>2, <4>3 DEF CallFails
      <4> QED
        BY <2>1, <4>4
    <3> QED
      BY <3>2, <3>3
  <2> QED
    BY <2>2, <2>3
<1>9. \A r \in Requesters : Destroyed(r)' /\ host'.mode = "destroy" => lifecycle'.members = {}
  BY <1>1, <1>3, <1>4 DEF InstancesGo, Destroyed
<1>10. host'.mode = "destroy" /\ ~HostIdle' => client'[Host].call.op = "destroy"
  BY <1>3, <1>7 DEF InstancesGo
<1> QED
  BY <1>3, <1>8, <1>9, <1>10 DEF InstancesGo

\* An instance has its turn, and remains until it has ended.
LEMMA TurnInstances ==
  ASSUME OwnerInv, HostFields, InstancesGo, NextInstance
  PROVE  InstancesGo'
<1>1. PICK s \in host.left :
        LET op == IF host.mode = "destroy" THEN "destroy" ELSE "stop"
            blocked == op = "destroy" /\ DependentsConfigured(s) # {}
        IN /\ Moved(IF blocked THEN client ELSE [client EXCEPT ![Host] = Called(op, s)])
           /\ host' = [host EXCEPT !.left = host.left \ {s}, !.failed = host.failed \/ blocked]
  BY DEF NextInstance
<1>2. PICK op \in {"stop", "destroy"} : op = IF host.mode = "destroy" THEN "destroy" ELSE "stop"
  OBVIOUS
<1>3. PICK blocked \in BOOLEAN : blocked = (op = "destroy" /\ DependentsConfigured(s) # {})
  OBVIOUS
<1>4. /\ Moved(IF blocked THEN client ELSE [client EXCEPT ![Host] = Called(op, s)])
      /\ host' = [host EXCEPT !.left = host.left \ {s}, !.failed = host.failed \/ blocked]
  BY <1>1, <1>2, <1>3
<1>5. /\ host'.mode = host.mode /\ host'.at = host.at /\ host'.left = host.left \ {s}
      /\ host'.failed = (host.failed \/ blocked)
  BY <1>4 DEF HostFields
<1>6. HostIdle /\ UNCHANGED <<lifecycle, request>>
  BY <1>4 DEF NextInstance, Moved
<1>7. \A r \in Requesters : Destroyed(r)' /\ host'.mode = "destroy" => lifecycle'.members = {}
  BY <1>5, <1>6 DEF InstancesGo, Destroyed
<1>8. CASE blocked
  <2>1. UNCHANGED client /\ host'.failed
    BY <1>4, <1>5, <1>8 DEF Moved
  <2> QED
    BY <1>5, <1>6, <1>7, <2>1 DEF InstancesGo, HostIdle
<1>9. CASE ~blocked
  <2>1. client' = [client EXCEPT ![Host] = Called(op, s)] /\ Host \in Clients
    BY <1>4, <1>9, ShutdownAssumption DEF Moved
  <2>2. PICK r : r = Called(op, s)
    OBVIOUS
  <2>3. r.call.op = op /\ r.call.id = s /\ r.at = "gate"
    BY <2>2 DEF Called, NewCaller
  <2>4. client'[Host] = r
    BY <2>1, <2>2, OwnerParts
  <2>5. ~HostIdle' /\ client'[Host].call.id = s /\ client'[Host].call.op = op
    BY <2>3, <2>4 DEF HostIdle
  <2>6. host.mode = "destroy" /\ host.at \in AfterPermit /\ ~host'.failed =>
          lifecycle'.members \subseteq Remaining'
    BY <1>5, <1>6, <2>5 DEF InstancesGo, Remaining
  <2> QED
    BY <1>2, <1>5, <1>7, <2>5, <2>6 DEF InstancesGo
<1> QED
  BY <1>8, <1>9

\* Where no service and no caller moves, and nobody is answered.
LEMMA StayInstances ==
  ASSUME InstancesGo, UNCHANGED <<lifecycle, client>>, host'.mode = host.mode,
         \A r \in Requesters : Destroyed(r)' => Destroyed(r),
         host'.at \in AfterPermit /\ ~host'.failed =>
           \/ host.at \in AfterPermit /\ ~host.failed /\ host'.left = host.left
           \/ host'.left = lifecycle.members
  PROVE  InstancesGo'
<1>1. HostIdle' <=> HostIdle
  BY DEF HostIdle
<1>2. host'.mode = "destroy" /\ host'.at \in AfterPermit /\ ~host'.failed =>
        lifecycle'.members \subseteq Remaining'
  BY <1>1 DEF InstancesGo, Remaining
<1> QED
  BY <1>1, <1>2 DEF InstancesGo

\* The steps of the body, the attached commands and what a requester does without an answer.
LEMMA BodyInstances ==
  ASSUME HostFields, InstancesGo, UNCHANGED vars,
         \/ HostStep /\ ~NextInstance
         \/ \E a \in Attachments : JobsStep(a)
         \/ \E r \in Requesters : Disconnect(r)
         \/ UNCHANGED hostVars
  PROVE  InstancesGo'
<1>1. UNCHANGED <<lifecycle, client>>
  BY DEF vars, lifecycleVars
<1>2. CASE StopAll
  <2>1. host'.mode = host.mode /\ host'.at = "interrupt" /\ UNCHANGED request
    BY <1>2 DEF StopAll, HostFields
  <2> QED
    BY <1>1, <2>1, StayInstances DEF AfterPermit, Destroyed
<1>3. CASE \E a \in Attachments : Interrupt(a)
  <2>1. host'.mode = host.mode /\ host'.at = "interrupt" /\ UNCHANGED request
    BY <1>3 DEF Interrupt, HostFields
  <2> QED
    BY <1>1, <2>1, StayInstances DEF AfterPermit, Destroyed
<1>4. CASE Cleanup
  <2>1. \/ host' = [host EXCEPT !.at = "finish", !.failed = TRUE]
        \/ host' = [host EXCEPT !.at = "permit"]
    BY <1>4 DEF Cleanup
  <2>2. host'.mode = host.mode /\ (host'.at = "permit" \/ host'.failed) /\ UNCHANGED request
    BY <1>4, <2>1 DEF Cleanup, HostFields
  <2> QED
    BY <1>1, <2>2, StayInstances DEF AfterPermit, Destroyed
<1>5. CASE TakePermit
  <2>1. host'.mode = host.mode /\ host'.left = lifecycle.members /\ UNCHANGED request
    BY <1>5 DEF TakePermit, HostFields
  <2> QED
    BY <1>1, <2>1, StayInstances DEF Destroyed
<1>6. CASE NamespaceDone \/ RemoveStack
  <2>1. \/ host' = [host EXCEPT !.at = "remove"]
        \/ host' = [host EXCEPT !.at = "finish"]
        \/ host' = [host EXCEPT !.at = "finish", !.failed = TRUE]
    BY <1>6 DEF NamespaceDone, RemoveStack, HostGoes
  <2>2. host.at \in AfterPermit /\ UNCHANGED request
    BY <1>6 DEF NamespaceDone, RemoveStack, AfterPermit
  <2>3. /\ host'.mode = host.mode /\ host'.left = host.left
        /\ host'.failed \/ host'.failed = host.failed
    BY <2>1 DEF HostFields
  <2> QED
    BY <1>1, <2>2, <2>3, StayInstances DEF Destroyed
<1>7. CASE CloseConnections
  <2>1. host' = [host EXCEPT !.at = "ended", !.exit = TRUE] /\ host.at = "finish" /\ request' = Cut
    BY <1>7 DEF CloseConnections
  <2>2. host'.mode = host.mode /\ host'.left = host.left /\ host'.failed = host.failed
    BY <2>1 DEF HostFields
  <2>3. \A r \in Requesters : request'[r] = request[r] \/ request'[r] = Closed
    BY <2>1 DEF Cut
  <2> QED
    BY <1>1, <2>1, <2>2, <2>3, StayInstances DEF AfterPermit, Destroyed, Closed
<1>8. CASE UNCHANGED host /\ request' = Cut
  <2>1. \A r \in Requesters : request'[r] = request[r] \/ request'[r] = Closed
    BY <1>8 DEF Cut
  <2> QED
    BY <1>1, <1>8, <2>1, StayInstances DEF Destroyed, Closed
<1>9. CASE \E r \in Requesters : Disconnect(r)
  <2>1. PICK r \in Requesters : Disconnect(r)
    BY <1>9
  <2>2. UNCHANGED host /\ request' = [request EXCEPT ![r] = Closed]
    BY <2>1 DEF Disconnect
  <2>3. \A q \in Requesters : request'[q] = request[q] \/ request'[q] = Closed
    BY <2>2 DEF HostFields
  <2> QED
    BY <1>1, <2>2, <2>3, StayInstances DEF Destroyed, Closed
<1>10. CASE UNCHANGED <<host, request>>
  BY <1>1, <1>10, StayInstances DEF Destroyed
<1> QED
  BY <1>2, <1>3, <1>4, <1>5, <1>6, <1>7, <1>8, <1>9, <1>10
     DEF HostStep, Return, JobsStep, Attach, Register, Finish, JobIs, hostVars, shutdownVars

\* Who is told of a success is told after the last instance has gone.
LEMMA AnswerInstances ==
  ASSUME HostFields, ServicesHalt, InstancesGo, NEW r \in Requesters, Answer(r)
  PROVE  InstancesGo'
<1>1. UNCHANGED <<lifecycle, client, host>>
  BY DEF Answer, vars, lifecycleVars
<1>2. /\ \A q \in Requesters : q # r => request'[q] = request[q]
      /\ request'[r].mode = request[r].mode
      /\ request'[r].at = "ok" => ~host.failed
  BY DEF Answer, HostFields
<1>3. ASSUME NEW q \in Requesters, Destroyed(q)', host.mode = "destroy"
      PROVE  lifecycle.members = {}
  <2>1. CASE q # r
    BY <1>2, <1>3, <2>1 DEF InstancesGo, Destroyed
  <2>2. CASE q = r
    <3>1. ~host.failed /\ host.at \in {"finish", "ended"}
      BY <1>2, <1>3, <2>2 DEF Answer, BodyDone, Destroyed
    <3>2. HostIdle /\ host.left = {}
      BY <3>1 DEF ServicesHalt, AfterNamespace
    <3> QED
      BY <1>3, <3>1, <3>2 DEF InstancesGo, Remaining, AfterPermit
  <2> QED
    BY <2>1, <2>2
<1>4. (HostIdle' <=> HostIdle) /\ Remaining' = Remaining
  BY <1>1 DEF HostIdle, Remaining
<1> QED
  BY <1>1, <1>3, <1>4 DEF InstancesGo

\* A shutdown that begins has told nobody anything yet.
LEMMA BegunInstances ==
  ASSUME AnswersInv, ServicesHalt, InstancesGo, UNCHANGED vars,
         \/ \E r \in Requesters, mode \in {"stop", "destroy"} : RequestShutdown(r, mode)
         \/ \E e \in HostEvents : TakeEvent(e)
  PROVE  InstancesGo'
<1>1. UNCHANGED <<lifecycle, client>>
  BY DEF vars, lifecycleVars
<1>2. \A r \in Requesters : Destroyed(r)' => Destroyed(r)
  <2>1. CASE \E r \in Requesters, mode \in {"stop", "destroy"} : RequestShutdown(r, mode)
    <3>1. PICK r \in Requesters, mode \in {"stop", "destroy"} : RequestShutdown(r, mode)
      BY <2>1
    <3>2. request' = [request EXCEPT ![r] = [mode |-> mode, at |-> "joined"]]
      BY <3>1 DEF RequestShutdown
    <3>3. \A q \in Requesters : request'[q] = request[q] \/ request'[q].at = "joined"
      BY <3>2 DEF AnswersInv, HostFields
    <3> QED
      BY <3>3 DEF Destroyed
  <2>2. CASE \E e \in HostEvents : TakeEvent(e)
    BY <2>2 DEF TakeEvent, Destroyed
  <2> QED
    BY <2>1, <2>2
<1>3. \/ UNCHANGED host
      \/ ~Draining /\ \E mode : \E response : host' = Begun(mode, response)
  BY DEF RequestShutdown, TakeEvent
<1>4. CASE UNCHANGED host
  BY <1>1, <1>2, <1>4, StayInstances
<1>5. ASSUME ~Draining, NEW mode, NEW response, host' = Begun(mode, response)
      PROVE  InstancesGo'
  <2>1. host'.at = "stopAll" /\ host.mode = "none"
    BY <1>5 DEF Begun, AnswersInv, HostFields
  <2>2. \A r \in Requesters : ~Destroyed(r)
    BY <2>1 DEF AnswersInv, Destroyed
  <2>3. HostIdle'
    BY <1>1, <1>5 DEF ServicesHalt, HostIdle, Draining
  <2> QED
    BY <1>1, <1>2, <2>1, <2>2, <2>3 DEF InstancesGo, AfterPermit
<1> QED
  BY <1>3, <1>4, <1>5

-----------------------------------------------------------------------------
(* The whole.                                                              *)

\* Every step of the owner, its shutdown and its clients.
LEMMA ShutdownStep ==
  ASSUME ShutdownInv, AnswersInv, AnswersInv', [ShutdownNext]_hostVars
  PROVE  ShutdownInv'
<1>1. /\ OwnerInv /\ HostInv /\ ServicesHalt /\ InstancesGo /\ host.left \subseteq Services
      /\ HostFields /\ HostFields'
  BY TypesAre DEF ShutdownInv, HostInv, HostTypes, AnswersInv
<1>2. lifecycle.members \subseteq Services
  BY <1>1, OwnerParts, SoundMembers
<1>3. OwnerInv' /\ HostInv' /\ InstancesGo'
  <2>1. CASE OwnerServes
    <3>1. ServicesStep
      BY <2>1 DEF OwnerServes
    <3>2. OwnerInv' /\ HostInv'
      BY <1>1, <2>1, <3>1, ServesOwner, ServedHosts
    <3> QED
      BY <1>1, <2>1, <3>2, ServesInstances
  <2>2. CASE NextInstance
    BY <1>1, <2>2, TurnOwner, ServedHosts, TurnInstances
  <2>3. ASSUME UNCHANGED vars
        PROVE  OwnerInv' /\ UNCHANGED <<lifecycle, client>>
    BY <1>1, <2>3, NextOwner DEF vars, lifecycleVars
  <2>4. CASE ~NextInstance /\ (StopAll \/ TakePermit \/ NamespaceDone \/ RemoveStack \/ CloseConnections \/ Return)
    <3>1. UNCHANGED vars
      BY <2>4 DEF StopAll, TakePermit, NamespaceDone, RemoveStack, CloseConnections, Return
    <3>2. HostStep /\ ~NextInstance
      BY <2>4 DEF HostStep
    <3>3. InstancesGo'
      BY <1>1, <3>1, <3>2, BodyInstances
    <3> QED
      BY <1>1, <1>2, <2>3, <2>4, <3>1, <3>3, BodyHosts
  <2>5. CASE ~NextInstance /\ ((\E a \in Attachments : Interrupt(a)) \/ Cleanup)
    <3>1. UNCHANGED vars
      BY <2>5 DEF Interrupt, Cleanup
    <3>2. HostStep /\ ~NextInstance
      BY <2>5 DEF HostStep
    <3>3. InstancesGo'
      BY <1>1, <3>1, <3>2, BodyInstances
    <3> QED
      BY <1>1, <2>3, <2>5, <3>1, <3>3, InterruptHosts, CleanupHosts
  <2>6. CASE \/ \E r \in Requesters, mode \in {"stop", "destroy"} : RequestShutdown(r, mode)
             \/ \E e \in HostEvents : TakeEvent(e)
    <3>1. UNCHANGED vars
      BY <2>6 DEF RequestShutdown, TakeEvent
    <3> QED
      BY <1>1, <2>3, <2>6, <3>1, BegunHosts, BegunInstances
  <2>7. CASE \/ RequestersStep
             \/ \E r \in Requesters : Disconnect(r)
             \/ UNCHANGED hostVars
    <3>1. UNCHANGED vars /\ UNCHANGED <<host, job, main, registered>>
      BY <2>7 DEF RequestersStep, Answer, Disconnect, hostVars, shutdownVars
    <3>2. InstancesGo'
      BY <1>1, <2>7, <3>1, AnswerInstances, BodyInstances DEF RequestersStep
    <3> QED
      BY <1>1, <2>3, <3>1, <3>2, UnmovedHosts
  <2>8. CASE \E a \in Attachments : JobsStep(a)
    <3>1. UNCHANGED vars
      BY <2>8 DEF JobsStep, Attach, Register, Finish, JobIs
    <3>2. InstancesGo'
      BY <1>1, <2>8, <3>1, BodyInstances
    <3> QED
      BY <1>1, <2>3, <2>8, <3>1, <3>2, JobHosts
  <2> QED
    BY <2>1, <2>2, <2>4, <2>5, <2>6, <2>7, <2>8 DEF ShutdownNext, HostStep, Environment
<1> QED
  BY <1>1, <1>3, TypesAre DEF ShutdownInv, HostInv

\* At first the owner serves, and every service is registered.
LEMMA ShutdownStarts == ShutdownInit => ShutdownInv
<1> SUFFICES ASSUME ShutdownInit
             PROVE  ShutdownInv
  OBVIOUS
<1>1. OwnerInv
  BY InitOwner DEF ShutdownInit
<1>2. ShutdownTypeOK
  BY <1>1 DEF ShutdownInit, ShutdownTypeOK, OwnerInv, HostStages, JobStages
<1>3. host.at = "serving" /\ lifecycle.members = Services /\ client[Host] = NewCaller
  BY ShutdownAssumption DEF ShutdownInit, OrchestratorInit
<1>4. ServicesHalt
  BY <1>3 DEF ServicesHalt, HostIdle, NewCaller, NoOperation, AfterPermit, AfterNamespace
<1>5. JobsEnd
  BY <1>3 DEF ShutdownInit, JobsEnd, AfterPermit
<1>6. InstancesGo
  BY DEF ShutdownInit, InstancesGo, Destroyed
<1> QED
  BY <1>1, <1>2, <1>4, <1>5, <1>6 DEF ShutdownInv

\* What the shutdown leaves when it succeeds.
LEMMA NothingIsLeft == ShutdownInv => SuccessLeavesNothing
<1> SUFFICES ASSUME ShutdownInv, BodyDone, ~host.failed
             PROVE  NothingRuns
  BY DEF SuccessLeavesNothing
<1>1. OwnerInv /\ ServicesHalt /\ JobsEnd /\ lifecycle \in SoundState
  BY OwnerParts DEF ShutdownInv
<1>2. host.at \in {"finish", "ended"}
  BY DEF BodyDone
<1>3. \A a \in Attachments : job[a] = "none"
  BY <1>1, <1>2 DEF JobsEnd, AfterPermit
<1>4. ASSUME NEW s \in Services
      PROVE  ~Held(s) /\ ~Up(s)
  <2>1. HostIdle /\ host.left = {}
    BY <1>1, <1>2 DEF ServicesHalt, AfterNamespace
  <2>2. Halted(s)
    BY <1>1, <1>2, <2>1 DEF ServicesHalt, Handled, AfterPermit
  <2>3. PhaseAt(s).tag = "Stopped"
    <3>1. PICK p : p = lifecycle.services[s].phase
      OBVIOUS
    <3>2. p.tag # "Stopped" => p.generation # 0
      BY <1>1, <3>1, SoundFields
    <3> QED
      BY <2>2, <3>1, <3>2 DEF Halted, Halting, PhaseAt
  <2>4. ~Up(s)
    BY <2>3 DEF Up
  <2>5. ~Held(s)
    BY <1>1, <2>3, HeldIsAccountedFor DEF isUpOrWindingDown
  <2> QED
    BY <2>4, <2>5
<1> QED
  BY <1>3, <1>4 DEF NothingRuns

-----------------------------------------------------------------------------
\* In every behaviour of the owner the shutdown accounts for its services and for the
\* attached commands, from whichever stage: what it has had its turn with is halted and
\* nothing is admitted any more (CommandAttachments.ts:58-77, Owner.ts:255-262).
THEOREM ShutdownInvariant == ShutdownSpec => []ShutdownInv
<1>1. ShutdownInit => ShutdownInv
  BY ShutdownStarts
<1>2. ShutdownInv /\ AnswersInv /\ AnswersInv' /\ [ShutdownNext]_hostVars => ShutdownInv'
  BY ShutdownStep
<1> QED
  BY <1>1, <1>2, AnswersInvariant, PTL DEF ShutdownSpec

\* The shutdown, the requests for it and the attached commands keep their types, whatever
\* the events come in (StackHost.ts:273-323, host/CommandAttachments.ts:40-96).
THEOREM ShutdownTypeCorrect == ShutdownSpec => []ShutdownTypeOK
<1>1. ShutdownInv => ShutdownTypeOK
  BY DEF ShutdownInv
<1> QED
  BY <1>1, ShutdownInvariant, PTL

\* Once the body of a shutdown has ended without a failure, no service is up or holds a
\* resource, no attached command runs, and none of it starts again: not by a call that was
\* admitted before, by traffic, a timer or a command that was being attached
\* (CommandAttachments.ts:58-77, Orchestrator.ts:704-713, Owner.ts:255-262).
THEOREM SuccessAlwaysLeavesNothing == ShutdownSpec => []SuccessLeavesNothing
<1>1. ShutdownInv => SuccessLeavesNothing
  BY NothingIsLeft
<1> QED
  BY <1>1, ShutdownInvariant, PTL

\* A requester that is told its destroy succeeded finds neither the registration nor an
\* instance, even if it joined a shutdown begun by an event or by another requester, and
\* whatever failed on the way, unless ownership had ended and the shutdown is a release
\* (StackHost.ts:301-323, Owner.ts:1024-1042).
THEOREM AnswersAlwaysTrue == ShutdownSpec => []AnswersAreTrue
<1>1. AnswersInv /\ ShutdownInv => AnswersAreTrue
  <2> SUFFICES ASSUME AnswersInv, ShutdownInv, NEW r \in Requesters, Destroyed(r), host.mode # "release"
               PROVE  ~registered /\ lifecycle.members = {}
    BY DEF AnswersAreTrue
  <2>1. host.mode = "destroy" /\ ~registered
    BY DEF AnswersInv, Destroyed
  <2> QED
    BY <2>1 DEF ShutdownInv, InstancesGo
<1> QED
  BY <1>1, AnswersInvariant, ShutdownInvariant, PTL
=============================================================================
