--------------------------- MODULE LifecycleProofs ---------------------------
(***************************************************************************)
(* What one event, and the pass that settles it, does to any lifecycle     *)
(* state, for every graph of services: no phase leaves a generation behind *)
(* that may have resources, a launch is of a new generation and of a       *)
(* service that has none, and a reservation is kept until released; what   *)
(* goes up stands on what runs, what goes down has its stop commanded, and *)
(* an outcome moves only the phase that it is about.                       *)
(***************************************************************************)
EXTENDS Lifecycle, FiniteSetTheorems, TLAPS

SoundState == {st \in LifecycleState : Sound(st)}

LifecycleCommands ==
  [tag : {"Launch", "Stop", "Reprobe", "ArmCooldownTimer"}, id : Services, generation : Nat]
    \union [tag : {"ArmIdleTimer"}, id : Services, generation : Nat, epoch : Nat]
    \union [tag : {"AdmitConnection", "FailConnection"}, id : Services, client : Clients]
    \union [tag : {"RequestRejected"}, id : Services]

\* A generation that is up or winding down goes on being that.
PhaseKept(p, q) == isUpOrWindingDown(p) => isUpOrWindingDown(q) /\ q.generation = p.generation

\* Commands about launched generations that launch none.
Plain(st, out) ==
  /\ out \subseteq LifecycleCommands
  /\ \A x \in out : /\ x.tag # "Launch"
                    /\ x.tag \in {"Stop", "Reprobe"} =>
                         x.generation \in 1..(st.generationCounters[x.id] - 1)

\* What an event leaves before it is settled: over are the services whose
\* generation it reports over.
Leads(st, new, over) ==
  /\ new \in SoundState
  /\ new.members \subseteq st.members
  /\ new.generationCounters = st.generationCounters
  /\ \A s \in Services \ over : PhaseKept(st.services[s].phase, new.services[s].phase)

\* The members and the reservations are as they were.
SameStorage(p, q) == q.storageReserved = p.storageReserved /\ q.destroy = p.destroy

LeavesStorage(st, new) ==
  /\ new.members = st.members
  /\ \A s \in Services : SameStorage(st.services[s], new.services[s])

\* An event about anything but the storage.
Quiet(st, new, over) == Leads(st, new, over) /\ LeavesStorage(st, new)

QuietStep(st, step, over) == Quiet(st, step.st, over) /\ Plain(st, step.out)

\* A reservation is kept, and whose it is: a destroy's or a storage operation's.
KeepsStorage(p, q) ==
  p.storageReserved => q.storageReserved /\ (q.destroy = "reserved" <=> p.destroy = "reserved")

\* The commands of a storage event, which may end the reservations of Ss only.
StorageStep(st, step, Ss) ==
  /\ Leads(st, step.st, {})
  /\ Plain(st, step.out)
  /\ \A s \in Services \ Ss : KeepsStorage(st.services[s], step.st.services[s])

\* Whose generation is over when s reports that g is: not if g is another.
OverAt(st, s, g) == {x \in {s} : st.services[x].phase.generation = g}

-----------------------------------------------------------------------------
\* The fields of a step, and of a state with one service replaced, or many.
LEMMA StepFields == \A st, out : Step(st, out).st = st /\ Step(st, out).out = out
BY DEF Step

\* What replacing one service changes of the state.
LEMMA PutFields ==
  ASSUME NEW st \in LifecycleState, NEW s \in Services, NEW q \in ServiceState
  PROVE  /\ Put(st, s, q) \in LifecycleState
         /\ Put(st, s, q).members = st.members
         /\ Put(st, s, q).generationCounters = st.generationCounters
         /\ Put(st, s, q).services = [st.services EXCEPT ![s] = q]
BY DEF Put, LifecycleState

\* The services after one is replaced.
LEMMA PutServices ==
  ASSUME NEW st \in LifecycleState, NEW s \in Services, NEW q \in ServiceState
  PROVE  /\ \A t \in Services : Put(st, s, q).services[t] = IF t = s THEN q ELSE st.services[t]
         /\ Put(st, s, q).services[s] = q
<1>1. Put(st, s, q).services = [st.services EXCEPT ![s] = q]
  BY PutFields
<1>2. st.services \in [Services -> ServiceState]
  BY DEF LifecycleState
<1> QED
  BY <1>1, <1>2

\* What replacing all services changes of the state.
LEMMA ServicesFields ==
  ASSUME NEW st \in SoundState, NEW sv \in [Services -> ServiceState],
         NEW new, new = [st EXCEPT !.services = sv]
  PROVE  /\ new \in LifecycleState /\ new.members = st.members /\ new.services = sv
         /\ new.generationCounters = st.generationCounters
BY DEF SoundState, LifecycleState

\* What is known of a sound state, and of any of its services.
LEMMA SoundMembers ==
  ASSUME NEW st \in SoundState
  PROVE  st \in LifecycleState /\ st.members \subseteq Services
BY DEF SoundState, LifecycleState

\* What a sound state says of one service.
LEMMA SoundFields ==
  ASSUME NEW st \in SoundState, NEW s \in Services
  PROVE  /\ st \in LifecycleState
         /\ st.members \subseteq Services
         /\ st.services[s] \in ServiceState
         /\ st.generationCounters[s] \in Nat
         /\ SoundService(st.services[s], st.generationCounters[s])
         /\ st.services[s].phase \in Phase
         /\ st.services[s].phase.generation \in Nat
         /\ st.services[s].phase.tag # "Stopped" =>
              st.services[s].phase.generation \in 1..(st.generationCounters[s] - 1)
<1>1. st \in LifecycleState /\ Sound(st) /\ st.services[s] \in ServiceState
  BY DEF SoundState, LifecycleState
<1>2. st.services[s].phase \in Phase /\ st.services[s].phase.generation \in Nat
  BY <1>1 DEF ServiceState, Phase
<1>3. st.generationCounters[s] \in Nat /\ st.members \subseteq Services
  BY <1>1 DEF LifecycleState
<1>4. SoundService(st.services[s], st.generationCounters[s])
  BY <1>1 DEF Sound
<1> QED
  BY <1>1, <1>2, <1>3, <1>4 DEF SoundService

\* The phases the events leave.
LEMMA Phases ==
  ASSUME NEW g \in Nat
  PROVE  /\ \A b \in BOOLEAN : /\ Running(g, b) \in Phase
                               /\ Running(g, b).tag = "Running" /\ Running(g, b).generation = g
                               /\ Stopping(g, b) \in Phase
                               /\ Stopping(g, b).tag = "Stopping" /\ Stopping(g, b).generation = g
         /\ Starting(g) \in Phase /\ Starting(g).tag = "Starting" /\ Starting(g).generation = g
         /\ Failed(g) \in Phase /\ Failed(g).tag = "Failed" /\ Failed(g).generation = g
         /\ Stopped \in Phase /\ Stopped.tag = "Stopped" /\ Stopped.generation = 0
BY DEF Running, Stopping, Starting, Failed, Stopped, PhaseOf, Phase

-----------------------------------------------------------------------------
\* Replacing a service by a sound one that keeps its phase.
LEMMA PutLeads ==
  ASSUME NEW st \in SoundState, NEW s \in Services, NEW q \in ServiceState, NEW over,
         SoundService(q, st.generationCounters[s]),
         s \in over \/ PhaseKept(st.services[s].phase, q.phase)
  PROVE  /\ Leads(st, Put(st, s, q), over)
         /\ SameStorage(st.services[s], q) => LeavesStorage(st, Put(st, s, q))
<1>0. st \in LifecycleState /\ Sound(st)
  BY DEF SoundState
<1> DEFINE new == Put(st, s, q)
<1>1. /\ new \in LifecycleState
      /\ new.members = st.members
      /\ new.generationCounters = st.generationCounters
      /\ \A t \in Services \ {s} : new.services[t] = st.services[t]
      /\ new.services[s] = q
  <2>1. /\ new \in LifecycleState
        /\ new.members = st.members
        /\ new.generationCounters = st.generationCounters
        /\ new.services = [st.services EXCEPT ![s] = q]
    BY <1>0, PutFields
  <2> QED
    BY <1>0, <2>1 DEF LifecycleState
<1> HIDE DEF new
<1>2. new \in SoundState
  BY <1>0, <1>1 DEF SoundState, Sound
<1>3. \A t \in Services \ over : PhaseKept(st.services[t].phase, new.services[t].phase)
  BY <1>1 DEF PhaseKept
<1>4. SameStorage(st.services[s], q) => LeavesStorage(st, new)
  BY <1>1 DEF SameStorage, LeavesStorage
<1> QED
  BY <1>1, <1>2, <1>3, <1>4 DEF Leads, new

\* A service as it follows from another by an event that is not about its
\* storage: at a phase of the same generation, or stopped.
Follows(p, q) ==
  /\ IsFiniteSet(q.waiters)
  /\ SameStorage(p, q)
  /\ \/ q.phase = p.phase
     \/ /\ p.phase.tag # "Stopped" /\ q.phase.tag # "Stopped"
        /\ q.phase.generation = p.phase.generation
     \/ /\ p.phase.tag # "Stopped" /\ q.phase.tag = "Stopped" /\ q.phase.generation = 0

\* Soundness follows a phase to its end.
LEMMA FollowsSound ==
  ASSUME NEW n \in Nat, NEW p \in ServiceState, NEW q \in ServiceState, SoundService(p, n),
         Follows(p, q)
  PROVE  SoundService(q, n)
<1>1. p.phase \in Phase /\ q.phase \in Phase
  BY DEF ServiceState
<1>2. CASE q.phase = p.phase
  BY <1>2 DEF SoundService, Follows, SameStorage
<1>3. CASE /\ p.phase.tag # "Stopped" /\ q.phase.tag # "Stopped"
           /\ q.phase.generation = p.phase.generation
  BY <1>1, <1>3 DEF SoundService, Follows, SameStorage, Phase
<1>4. CASE p.phase.tag # "Stopped" /\ q.phase.tag = "Stopped" /\ q.phase.generation = 0
  BY <1>1, <1>4 DEF SoundService, Follows, SameStorage, Phase
<1> QED
  BY <1>2, <1>3, <1>4 DEF Follows

\* An event about one service.
LEMMA PutQuiet ==
  ASSUME NEW st \in SoundState, NEW s \in Services, NEW q \in ServiceState, NEW over,
         Follows(st.services[s], q), s \in over \/ PhaseKept(st.services[s].phase, q.phase)
  PROVE  Quiet(st, Put(st, s, q), over)
<1>1. SoundService(q, st.generationCounters[s])
  BY SoundFields, FollowsSound
<1>2. SameStorage(st.services[s], q)
  BY DEF Follows
<1> QED
  BY <1>1, <1>2, PutLeads DEF Quiet

\* An event about many.
LEMMA EachQuiet ==
  ASSUME NEW st \in SoundState, NEW sv \in [Services -> ServiceState],
         NEW new, new = [st EXCEPT !.services = sv],
         \A d \in Services : /\ Follows(st.services[d], sv[d])
                             /\ PhaseKept(st.services[d].phase, sv[d].phase)
  PROVE  Quiet(st, new, {})
<1>1. /\ new \in LifecycleState /\ new.members = st.members /\ new.services = sv
      /\ new.generationCounters = st.generationCounters
  BY ServicesFields
<1>2. \A d \in Services : /\ SoundService(sv[d], st.generationCounters[d])
                          /\ SameStorage(st.services[d], sv[d])
  BY SoundFields, FollowsSound DEF Follows
<1>3. new \in SoundState
  BY <1>1, <1>2 DEF SoundState, Sound
<1>4. LeavesStorage(st, new)
  BY <1>1, <1>2 DEF LeavesStorage
<1> QED
  BY <1>1, <1>3, <1>4 DEF Quiet, Leads

\* One event after another.
LEMMA LeadsOn ==
  ASSUME NEW st, NEW a, NEW b, NEW over, NEW o \in SUBSET over, NEW u \in SUBSET over,
         Leads(st, a, o), Leads(a, b, u)
  PROVE  /\ Leads(st, b, over)
         /\ LeavesStorage(st, a) /\ LeavesStorage(a, b) => LeavesStorage(st, b)
<1>1. \A s \in Services \ over : PhaseKept(st.services[s].phase, b.services[s].phase)
  BY DEF Leads, PhaseKept
<1>2. LeavesStorage(st, a) /\ LeavesStorage(a, b) => LeavesStorage(st, b)
  BY DEF LeavesStorage, SameStorage
<1> QED
  BY <1>1, <1>2 DEF Leads

\* Quiet steps compose.
LEMMA QuietOn ==
  ASSUME NEW st, NEW a, NEW b, NEW over, NEW o \in SUBSET over, NEW u \in SUBSET over,
         Quiet(st, a, o), Quiet(a, b, u)
  PROVE  Quiet(st, b, over)
BY LeadsOn DEF Quiet

\* Commands that are plain after an event were so before it.
LEMMA PlainOn ==
  ASSUME NEW st, NEW new, NEW over, Leads(st, new, over), NEW out
  PROVE  Plain(new, out) <=> Plain(st, out)
BY DEF Leads, Plain

\* An event that is ignored.
LEMMA IgnoredQuiet ==
  ASSUME NEW st \in SoundState, NEW over
  PROVE  QuietStep(st, Ignored(st), over) /\ Quiet(st, st, over)
BY DEF QuietStep, Quiet, Leads, Ignored, Step, PhaseKept, Plain, LeavesStorage, SameStorage

-----------------------------------------------------------------------------
\* The commands that events emit.
LEMMA PlainCommands ==
  ASSUME NEW st \in SoundState, NEW s \in Services
  PROVE  /\ Plain(st, {})
         /\ \A c \in Clients : Plain(st, {Fail(s, c)}) /\ Plain(st, {Admit(s, c)})
         /\ Plain(st, {Rejected(s)})
         /\ st.services[s].phase.tag # "Stopped" =>
              Plain(st, {Stop(s, st.services[s].phase.generation)})
         /\ \A breaker \in [failures : Nat, openUntil : Nat] : Plain(st, cooldown(s, breaker))
<1>1. Plain(st, {})
  BY DEF Plain
<1>2. ASSUME NEW c \in Clients
      PROVE  Plain(st, {Fail(s, c)}) /\ Plain(st, {Admit(s, c)})
  BY DEF Plain, Fail, Admit, WaiterCommand, LifecycleCommands
<1>3. Plain(st, {Rejected(s)})
  BY DEF Plain, Rejected, LifecycleCommands
<1>4. st.services[s].phase.tag # "Stopped" =>
        Plain(st, {Stop(s, st.services[s].phase.generation)})
  BY SoundFields DEF Plain, Stop, LifecycleCommand, LifecycleCommands
<1>5. ASSUME NEW breaker \in [failures : Nat, openUntil : Nat]
      PROVE  Plain(st, cooldown(s, breaker))
  BY DEF Plain, cooldown, LifecycleCommand, LifecycleCommands
<1> QED
  BY <1>1, <1>2, <1>3, <1>4, <1>5

\* Plain commands add up.
LEMMA PlainUnion ==
  ASSUME NEW st, NEW a, NEW b, Plain(st, a), Plain(st, b)
  PROVE  Plain(st, a \union b)
BY DEF Plain

\* Refusing waiters is plain.
LEMMA PlainFails ==
  ASSUME NEW st \in SoundState, NEW s \in Services, NEW W \in SUBSET Waiter
  PROVE  Plain(st, {Fail(s, w.client) : w \in W})
<1>1. \A w \in W : w.client \in Clients
  BY DEF Waiter
<1> QED
  BY <1>1, PlainCommands DEF Plain

\* So is refusing all of them.
LEMMA PlainFailAll ==
  ASSUME NEW st \in SoundState, NEW s \in Services
  PROVE  Plain(st, failAllWaiters(s, st.services[s]))
<1>1. st.services[s].waiters \in SUBSET Waiter
  BY SoundFields DEF ServiceState
<1> QED
  BY <1>1, PlainFails DEF failAllWaiters

-----------------------------------------------------------------------------
(* The helpers that several events share.                                  *)

\* Explicit waits on the dependents end.
LEMMA ToldQuiet ==
  ASSUME NEW st \in SoundState, NEW s \in Services
  PROVE  /\ QuietStep(st, failExplicitDependentWaiters(st, s), {})
         /\ \A d \in Services :
              failExplicitDependentWaiters(st, s).st.services[d].phase = st.services[d].phase
<1>1. PICK sv : sv = [d \in Services |->
                        IF d \in Dependents(st, s)
                          THEN [st.services[d] EXCEPT !.waiters = @ \ Explicit(st.services[d])]
                          ELSE st.services[d]]
  OBVIOUS
<1>2. PICK out : out = UNION {{Fail(d, w.client) : w \in Explicit(st.services[d])} : d \in Dependents(st, s)}
  OBVIOUS
<1>3. PICK new : new = [st EXCEPT !.services = sv]
  OBVIOUS
<1>4. failExplicitDependentWaiters(st, s) = Step(new, out)
  BY <1>1, <1>2, <1>3 DEF failExplicitDependentWaiters
<1>5. ASSUME NEW d \in Services
      PROVE  /\ sv[d] \in ServiceState /\ sv[d].phase = st.services[d].phase
             /\ SameStorage(st.services[d], sv[d]) /\ sv[d].waiters \subseteq st.services[d].waiters
  <2>1. st.services[d] \in ServiceState
    BY SoundFields
  <2> QED
    BY <1>1, <2>1 DEF ServiceState, SameStorage
<1>6. ASSUME NEW d \in Services
      PROVE  Follows(st.services[d], sv[d]) /\ PhaseKept(st.services[d].phase, sv[d].phase)
  <2>1. IsFiniteSet(sv[d].waiters)
    BY <1>5, SoundFields, FS_Subset DEF SoundService
  <2> QED
    BY <1>5, <2>1 DEF Follows, PhaseKept
<1>7. Plain(st, out)
  <2>1. ASSUME NEW d \in Dependents(st, s)
        PROVE  Plain(st, {Fail(d, w.client) : w \in Explicit(st.services[d])})
    <3>1. d \in Services /\ Explicit(st.services[d]) \in SUBSET Waiter
      BY SoundFields DEF Dependents, Explicit, ServiceState
    <3> QED
      BY <3>1, PlainFails
  <2> QED
    BY <1>2, <2>1 DEF Plain
<1>8. sv \in [Services -> ServiceState]
  BY <1>1, <1>5
<1>9. new.services = sv /\ Quiet(st, new, {})
  BY <1>3, <1>6, <1>8, ServicesFields, EachQuiet
<1> QED
  BY <1>4, <1>5, <1>7, <1>9, StepFields DEF QuietStep

\* Blocked cleanups are tried again.
LEMMA RetryQuiet ==
  ASSUME NEW st \in SoundState, NEW Ss
  PROVE  QuietStep(st, retryCleanups(st, Ss), {})
<1>1. PICK sv : sv = [s \in Services |->
                        IF s \in CleanupsPending(st, Ss)
                          THEN [st.services[s] EXCEPT !.cleanupFailure = FALSE] ELSE st.services[s]]
  OBVIOUS
<1>2. PICK out : out = {Stop(s, st.services[s].phase.generation) : s \in CleanupsPending(st, Ss)}
  OBVIOUS
<1>3. PICK new : new = [st EXCEPT !.services = sv]
  OBVIOUS
<1>4. retryCleanups(st, Ss) = Step(new, out)
  BY <1>1, <1>2, <1>3 DEF retryCleanups
<1>5. ASSUME NEW d \in Services
      PROVE  sv[d] \in ServiceState /\ Follows(st.services[d], sv[d])
             /\ PhaseKept(st.services[d].phase, sv[d].phase)
  <2>0. PICK q : q = [st.services[d] EXCEPT !.cleanupFailure = FALSE]
    OBVIOUS
  <2>1. /\ q \in ServiceState /\ q.phase = st.services[d].phase
        /\ SameStorage(st.services[d], q) /\ q.waiters = st.services[d].waiters
    <3>1. st.services[d] \in ServiceState
      BY SoundFields
    <3> QED
      BY <2>0, <3>1 DEF ServiceState, SameStorage
  <2>2. sv[d] = q \/ sv[d] = st.services[d]
    BY <1>1, <2>0
  <2> QED
    BY <2>1, <2>2, SoundFields DEF Follows, PhaseKept, SoundService, SameStorage
<1>6. Plain(st, out)
  <2>1. ASSUME NEW s \in CleanupsPending(st, Ss)
        PROVE  Plain(st, {Stop(s, st.services[s].phase.generation)})
    BY SoundMembers, PlainCommands DEF CleanupsPending
  <2> QED
    BY <1>2, <2>1 DEF Plain
<1>7. sv \in [Services -> ServiceState]
  BY <1>1, <1>5
<1> QED
  BY <1>3, <1>4, <1>5, <1>6, <1>7, EachQuiet, StepFields DEF QuietStep

\* Prerequisites that were stopped by request are armed again.
LEMMA RearmQuiet ==
  ASSUME NEW st \in SoundState, NEW s \in Services
  PROVE  Quiet(st, rearmPrerequisites(st, s), {})
<1>1. PICK sv : sv = [p \in Services |->
                        IF p \in prerequisiteClosure[s] \intersect st.members
                           /\ st.services[p].intent = "stopped"
                          THEN [st.services[p] EXCEPT !.intent = Activation[p]] ELSE st.services[p]]
  OBVIOUS
<1>2. rearmPrerequisites(st, s) = [st EXCEPT !.services = sv]
  BY <1>1 DEF rearmPrerequisites
<1>3. ASSUME NEW d \in Services
      PROVE  sv[d] \in ServiceState /\ Follows(st.services[d], sv[d])
             /\ PhaseKept(st.services[d].phase, sv[d].phase)
  <2>0. PICK q : q = [st.services[d] EXCEPT !.intent = Activation[d]]
    OBVIOUS
  <2>1. /\ q \in ServiceState /\ q.phase = st.services[d].phase
        /\ SameStorage(st.services[d], q) /\ q.waiters = st.services[d].waiters
    <3>1. Activation[d] \in {"eager", "lazy"}
      BY LifecycleAssumption
    <3>2. st.services[d] \in ServiceState
      BY SoundFields
    <3> QED
      BY <2>0, <3>1, <3>2 DEF ServiceState, SameStorage
  <2>2. sv[d] = q \/ sv[d] = st.services[d]
    BY <1>1, <2>0
  <2> QED
    BY <2>1, <2>2, SoundFields DEF Follows, PhaseKept, SoundService, SameStorage
<1>4. sv \in [Services -> ServiceState]
  BY <1>1, <1>3
<1> QED
  BY <1>2, <1>3, <1>4, EachQuiet

-----------------------------------------------------------------------------
(* Each event.                                                             *)

\* What the readiness events know of the service they are about.
LEMMA AtPhaseFacts ==
  ASSUME NEW st \in SoundState, NEW s, NEW g, NEW tags, AtPhase(st, s, g, tags),
         "Stopped" \notin tags
  PROVE  /\ s \in Services /\ st.services[s].phase.tag \in tags
         /\ st.services[s].phase.tag # "Stopped"
         /\ st.services[s].phase.generation = g /\ g \in Nat
         /\ Plain(st, {Stop(s, g)})
<1>1. s \in Services
  BY SoundMembers DEF AtPhase
<1> QED
  BY <1>1, SoundFields, PlainCommands DEF AtPhase

\* What an event at a running phase knows.
LEMMA RunningFacts ==
  ASSUME NEW st \in SoundState, NEW s, NEW g, AtPhase(st, s, g, {"Running"})
  PROVE  /\ s \in Services /\ st.services[s].phase.tag = "Running"
         /\ st.services[s].phase.generation = g /\ g \in Nat
         /\ Plain(st, {Stop(s, g)})
<1>1. AtPhase(st, s, g, {"Starting", "Running"})
  BY DEF AtPhase
<1>2. st.services[s].phase.tag = "Running"
  BY DEF AtPhase
<1>3. s \in Services /\ st.services[s].phase.generation = g /\ g \in Nat /\ Plain(st, {Stop(s, g)})
  BY <1>1, AtPhaseFacts
<1> QED
  BY <1>2, <1>3

\* A session that is running, whatever its readiness.
LEMMA RunsQuiet ==
  ASSUME NEW st \in SoundState, NEW s, NEW g, AtPhase(st, s, g, {"Starting", "Running"}),
         NEW ready \in BOOLEAN
  PROVE  QuietStep(st, Step(Put(st, s, [st.services[s] EXCEPT !.phase = Running(g, ready),
                              !.readinessFailure = FALSE, !.reprobing = FALSE]), {}), {})
<1>1. /\ s \in Services /\ g \in Nat /\ st.services[s].phase.generation = g
      /\ st.services[s].phase.tag \in {"Starting", "Running"}
  BY AtPhaseFacts
<1>2. PICK q : q = [st.services[s] EXCEPT !.phase = Running(g, ready),
                                          !.readinessFailure = FALSE, !.reprobing = FALSE]
  OBVIOUS
<1>3. /\ Running(g, ready) \in Phase /\ Running(g, ready).tag = "Running"
      /\ Running(g, ready).generation = g
  BY <1>1, Phases
<1>4. /\ q \in ServiceState /\ q.phase = Running(g, ready)
      /\ SameStorage(st.services[s], q) /\ q.waiters = st.services[s].waiters
  <2>1. st.services[s] \in ServiceState
    BY <1>1, SoundFields
  <2> QED
    BY <1>2, <1>3, <2>1 DEF ServiceState, SameStorage
<1>5. Follows(st.services[s], q) /\ PhaseKept(st.services[s].phase, q.phase)
  BY <1>1, <1>3, <1>4, SoundFields DEF Follows, PhaseKept, SoundService, isUpOrWindingDown
<1>6. Quiet(st, Put(st, s, q), {})
  BY <1>1, <1>4, <1>5, PutQuiet
<1>7. Plain(st, {})
  BY DEF Plain
<1> QED
  BY <1>2, <1>6, <1>7, StepFields DEF QuietStep

\* The event SessionAvailable.
LEMMA SessionAvailableQuiet ==
  ASSUME NEW st \in SoundState, NEW s, NEW g
  PROVE  QuietStep(st, SessionAvailable(st, s, g), {})
<1>1. CASE AtPhase(st, s, g, {"Starting"})
  <2>1. AtPhase(st, s, g, {"Starting", "Running"})
    BY <1>1 DEF AtPhase
  <2> QED
    BY <1>1, <2>1, RunsQuiet DEF SessionAvailable
<1>2. CASE ~AtPhase(st, s, g, {"Starting"})
  BY <1>2, IgnoredQuiet DEF SessionAvailable
<1> QED
  BY <1>1, <1>2

\* The event LaunchSucceeded.
LEMMA LaunchSucceededQuiet ==
  ASSUME NEW st \in SoundState, NEW s, NEW g
  PROVE  QuietStep(st, LaunchSucceeded(st, s, g), {})
<1>1. CASE AtPhase(st, s, g, {"Starting", "Running"}) /\ ~st.services[s].phase.ready
  BY <1>1, RunsQuiet DEF LaunchSucceeded, Ready
<1>2. CASE ~(AtPhase(st, s, g, {"Starting", "Running"}) /\ ~st.services[s].phase.ready)
  BY <1>2, IgnoredQuiet DEF LaunchSucceeded
<1> QED
  BY <1>1, <1>2

\* The event ReadinessRecovered.
LEMMA ReadinessRecoveredQuiet ==
  ASSUME NEW st \in SoundState, NEW s, NEW g
  PROVE  QuietStep(st, ReadinessRecovered(st, s, g), {})
<1>1. CASE AtPhase(st, s, g, {"Running"})
  <2>1. AtPhase(st, s, g, {"Starting", "Running"})
    BY <1>1 DEF AtPhase
  <2> QED
    BY <1>1, <2>1, RunsQuiet DEF ReadinessRecovered, Ready
<1>2. CASE ~AtPhase(st, s, g, {"Running"})
  BY <1>2, IgnoredQuiet DEF ReadinessRecovered
<1> QED
  BY <1>1, <1>2

\* A counted failure leaves a breaker.
LEMMA CountTyped ==
  ASSUME NEW breaker \in [failures : Nat, openUntil : Nat], NEW g \in Nat, NEW quiet
  PROVE  countFailure(breaker, g, quiet) \in [failures : Nat, openUntil : Nat]
<1>1. breaker.failures + 1 \in Nat
  OBVIOUS
<1>2. PICK n \in Nat : n = IF quiet /\ breaker.failures > 0 THEN 1 ELSE breaker.failures + 1
  BY <1>1
<1>3. countFailure(breaker, g, quiet)
        = [failures |-> n, openUntil |-> IF n < BreakerThreshold THEN 0 ELSE g]
  BY <1>2 DEF countFailure
<1> QED
  BY <1>3

\* A failure is recorded.
LEMMA RecordQuiet ==
  ASSUME NEW st \in SoundState, NEW s \in Services, NEW g \in Nat, NEW quiet, NEW over,
         NEW phase \in Phase, st.services[s].phase.tag # "Stopped",
         st.services[s].phase.generation = g, phase.tag # "Stopped", phase.generation = g,
         s \in over \/ phase.tag = "Stopping"
  PROVE  QuietStep(st, recordFailure(st, s, g, quiet, phase), over)
<1>1. PICK told : told = failExplicitDependentWaiters(st, s)
  OBVIOUS
<1>2. PICK breaker : breaker = countFailure(st.services[s].breaker, g, quiet)
  OBVIOUS
<1>3. PICK q : q = [st.services[s] EXCEPT !.phase = phase, !.waiters = {}, !.breaker = breaker,
                             !.idleArmedEpoch = 0, !.relaunchForced = FALSE,
                             !.readinessFailure = FALSE, !.reprobing = FALSE]
  OBVIOUS
<1>4. recordFailure(st, s, g, quiet, phase)
        = Step(Put(told.st, s, q),
               told.out \union failAllWaiters(s, st.services[s]) \union cooldown(s, breaker))
  BY <1>1, <1>2, <1>3 DEF recordFailure
<1>5. Quiet(st, told.st, {}) /\ Plain(st, told.out)
      /\ told.st.services[s].phase = st.services[s].phase
  BY <1>1, ToldQuiet DEF QuietStep
<1>6. breaker \in [failures : Nat, openUntil : Nat]
  BY <1>2, SoundFields, CountTyped DEF ServiceState
<1>7. /\ q \in ServiceState /\ q.phase = phase
      /\ SameStorage(st.services[s], q) /\ q.waiters = {}
  <2>1. st.services[s] \in ServiceState
    BY SoundFields
  <2> QED
    BY <1>3, <1>6, <2>1 DEF ServiceState, SameStorage
<1>8. told.st \in SoundState /\ SameStorage(told.st.services[s], q)
  BY <1>5, <1>7 DEF Quiet, Leads, LeavesStorage, SameStorage
<1>9. Follows(told.st.services[s], q)
  BY <1>5, <1>7, <1>8, FS_EmptySet DEF Follows
<1>10. s \in over \/ PhaseKept(told.st.services[s].phase, q.phase)
  BY <1>5, <1>7 DEF PhaseKept, isUpOrWindingDown
<1>11. Quiet(told.st, Put(told.st, s, q), over)
  BY <1>7, <1>8, <1>9, <1>10, PutQuiet
<1>12. Quiet(st, Put(told.st, s, q), over)
  BY <1>5, <1>11, QuietOn
<1>13. Plain(st, told.out \union failAllWaiters(s, st.services[s]) \union cooldown(s, breaker))
  BY <1>5, <1>6, PlainFailAll, PlainCommands, PlainUnion
<1> QED
  BY <1>4, <1>12, <1>13, StepFields DEF QuietStep

\* The event LaunchFailed.
LEMMA LaunchFailedQuiet ==
  ASSUME NEW st \in SoundState, NEW s, NEW g, NEW quiet
  PROVE  QuietStep(st, LaunchFailed(st, s, g, quiet), OverAt(st, s, g))
<1>1. CASE AtPhase(st, s, g, {"Starting"})
  <2>1. /\ s \in Services /\ g \in Nat /\ st.services[s].phase.tag # "Stopped"
        /\ st.services[s].phase.generation = g
    BY <1>1, AtPhaseFacts
  <2>2. Failed(g) \in Phase /\ Failed(g).tag = "Failed" /\ Failed(g).generation = g
    BY <2>1, Phases
  <2> QED
    BY <1>1, <2>1, <2>2, RecordQuiet DEF LaunchFailed, OverAt
<1>2. CASE ~AtPhase(st, s, g, {"Starting"})
  BY <1>2, IgnoredQuiet DEF LaunchFailed
<1> QED
  BY <1>1, <1>2

\* The dependents of a lost session are stopped.
LEMMA StopDependentsQuiet ==
  ASSUME NEW st \in SoundState, NEW s \in Services
  PROVE  QuietStep(st, stopDependentsOfLostSession(st, s), {})
<1>1. PICK up : up = dependentsUp(st, s)
  OBVIOUS
<1>2. PICK sv : sv = [d \in Services |->
             IF d \in up
               THEN [st.services[d] EXCEPT !.phase = Stopping(@.generation, FALSE)]
               ELSE st.services[d]]
  OBVIOUS
<1>3. PICK out : out = {Stop(d, st.services[d].phase.generation) : d \in up}
  OBVIOUS
<1>4. PICK new : new = [st EXCEPT !.services = sv]
  OBVIOUS
<1>5. stopDependentsOfLostSession(st, s) = Step(new, out)
  BY <1>1, <1>2, <1>3, <1>4 DEF stopDependentsOfLostSession
<1>6. ASSUME NEW d \in up
      PROVE  d \in Services /\ st.services[d].phase.tag \in {"Starting", "Running"}
  BY <1>1, SoundMembers DEF dependentsUp, Dependents
<1>7. ASSUME NEW d \in Services
      PROVE  sv[d] \in ServiceState /\ Follows(st.services[d], sv[d])
             /\ PhaseKept(st.services[d].phase, sv[d].phase)
  <2>1. st.services[d] \in ServiceState /\ IsFiniteSet(st.services[d].waiters)
    BY SoundFields DEF SoundService
  <2>2. CASE d \notin up
    BY <1>2, <2>1, <2>2 DEF Follows, PhaseKept, SameStorage
  <2>3. CASE d \in up
    <3>1. PICK phase : phase = Stopping(st.services[d].phase.generation, FALSE)
      OBVIOUS
    <3>2. phase \in Phase /\ phase.tag = "Stopping"
          /\ phase.generation = st.services[d].phase.generation
      BY <3>1, SoundFields, Phases
    <3>3. sv[d] = [st.services[d] EXCEPT !.phase = phase]
      BY <1>2, <2>3, <3>1
    <3>4. /\ sv[d] \in ServiceState /\ sv[d].phase = phase
          /\ SameStorage(st.services[d], sv[d]) /\ sv[d].waiters = st.services[d].waiters
      BY <2>1, <3>2, <3>3 DEF ServiceState, SameStorage
    <3> QED
      BY <1>6, <2>1, <2>3, <3>2, <3>4 DEF Follows, PhaseKept, isUpOrWindingDown
  <2> QED
    BY <2>2, <2>3
<1>8. Plain(st, out)
  <2>1. ASSUME NEW d \in up
        PROVE  Plain(st, {Stop(d, st.services[d].phase.generation)})
    BY <1>6, PlainCommands
  <2> QED
    BY <1>3, <2>1 DEF Plain
<1>9. sv \in [Services -> ServiceState]
  BY <1>2, <1>7
<1> QED
  BY <1>4, <1>5, <1>7, <1>8, <1>9, EachQuiet, StepFields DEF QuietStep

\* Commands added to a step.
LEMMA AlsoFields ==
  ASSUME NEW st, NEW a, NEW b
  PROVE  Also(Step(st, a), b) = Step(st, a \union b)
BY DEF Also, Step

\* The event SessionLost.
LEMMA SessionLostQuiet ==
  ASSUME NEW st \in SoundState, NEW s, NEW g, NEW quiet
  PROVE  QuietStep(st, SessionLost(st, s, g, quiet), {})
<1>1. CASE AtPhase(st, s, g, {"Starting", "Running"})
  <2>1. /\ s \in Services /\ g \in Nat /\ st.services[s].phase.tag # "Stopped"
        /\ st.services[s].phase.generation = g
    BY <1>1, AtPhaseFacts
  <2>2. /\ Stopping(g, TRUE) \in Phase /\ Stopping(g, TRUE).tag = "Stopping"
        /\ Stopping(g, TRUE).generation = g
    BY <2>1, Phases
  <2>3. PICK lost : lost = recordFailure(st, s, g, quiet, Stopping(g, TRUE))
    OBVIOUS
  <2>4. Quiet(st, lost.st, {}) /\ Plain(st, lost.out)
    BY <2>1, <2>2, <2>3, RecordQuiet DEF QuietStep
  <2>5. lost.st \in SoundState
    BY <2>4 DEF Quiet, Leads
  <2>6. PICK rest : rest = stopDependentsOfLostSession(lost.st, s)
    OBVIOUS
  <2>7. Quiet(lost.st, rest.st, {}) /\ Plain(lost.st, rest.out)
    BY <2>1, <2>5, <2>6, StopDependentsQuiet DEF QuietStep
  <2>8. Quiet(st, rest.st, {})
    BY <2>4, <2>7, QuietOn
  <2>9. Plain(st, rest.out \union lost.out)
    BY <2>4, <2>7, PlainOn, PlainUnion DEF Quiet
  <2>10. rest = Step(rest.st, rest.out)
    BY <2>6 DEF stopDependentsOfLostSession, Step
  <2>11. SessionLost(st, s, g, quiet) = Step(rest.st, rest.out \union lost.out)
    <3>1. SessionLost(st, s, g, quiet) = Also(rest, lost.out)
      BY <1>1, <2>3, <2>6 DEF SessionLost
    <3>2. Also(Step(rest.st, rest.out), lost.out) = Step(rest.st, rest.out \union lost.out)
      BY AlsoFields
    <3> QED
      BY <2>10, <3>1, <3>2
  <2> QED
    BY <2>8, <2>9, <2>11, StepFields DEF QuietStep
<1>2. CASE ~AtPhase(st, s, g, {"Starting", "Running"})
  BY <1>2, IgnoredQuiet DEF SessionLost
<1> QED
  BY <1>1, <1>2

\* The event Exited.
LEMMA ExitedQuiet ==
  ASSUME NEW st \in SoundState, NEW s, NEW g \in Nat \ {0}, NEW requested
  PROVE  QuietStep(st, Exited(st, s, g, requested), OverAt(st, s, g))
<1>1. PICK stopping \in BOOLEAN : stopping <=> st.services[s].phase.tag = "Stopping"
  OBVIOUS
<1>2. PICK phase : phase = IF stopping /\ st.services[s].intent # "stopped"
                              /\ st.services[s].phase.crash THEN Failed(g) ELSE Stopped
  OBVIOUS
<1>3. PICK q : q = [st.services[s] EXCEPT !.phase = phase,
                               !.idleArmedEpoch = 0, !.readinessFailure = FALSE,
                               !.reprobing = FALSE, !.cleanupFailure = FALSE]
  OBVIOUS
<1>4. CASE s \in st.members /\ Current(st.services[s], g) /\ (stopping \/ requested)
  <2>1. s \in Services /\ st.services[s].phase.generation = g
    BY <1>4, SoundMembers DEF Current
  <2>2. st.services[s] \in ServiceState /\ st.services[s].phase.tag # "Stopped"
        /\ IsFiniteSet(st.services[s].waiters)
    BY <2>1, SoundFields DEF SoundService
  <2>3. /\ phase \in Phase
        /\ \/ phase.tag = "Failed" /\ phase.generation = g
           \/ phase.tag = "Stopped" /\ phase.generation = 0
    BY <1>2, Phases
  <2>4. /\ q \in ServiceState /\ q.phase = phase
        /\ SameStorage(st.services[s], q) /\ q.waiters = st.services[s].waiters
    BY <1>3, <2>2, <2>3 DEF ServiceState, SameStorage
  <2>5. Follows(st.services[s], q)
    BY <2>1, <2>2, <2>3, <2>4 DEF Follows
  <2>6. Quiet(st, Put(st, s, q), OverAt(st, s, g))
    BY <2>1, <2>4, <2>5, PutQuiet DEF OverAt
  <2>7. Exited(st, s, g, requested) = Step(Put(st, s, q), {})
    BY <1>1, <1>2, <1>3, <1>4 DEF Exited
  <2> QED
    BY <2>6, <2>7, StepFields DEF QuietStep, Plain
<1>5. CASE ~(s \in st.members /\ Current(st.services[s], g) /\ (stopping \/ requested))
  BY <1>1, <1>5, IgnoredQuiet DEF Exited
<1> QED
  BY <1>4, <1>5

\* The event StopFailed.
LEMMA StopFailedQuiet ==
  ASSUME NEW st \in SoundState, NEW s, NEW g \in Nat \ {0}, NEW failure \in BOOLEAN, NEW quiet
  PROVE  QuietStep(st, StopFailed(st, s, g, failure, quiet), {})
<1>1. CASE s \in st.members /\ Current(st.services[s], g)
  <2>1. PICK told : told = failExplicitDependentWaiters(st, s)
    OBVIOUS
  <2>2. PICK breaker : breaker = IF Counts(st.services[s], failure)
                                   THEN countFailure(st.services[s].breaker, g, quiet)
                                   ELSE st.services[s].breaker
    OBVIOUS
  <2>3. PICK phase : phase = Stopping(g, IF st.services[s].phase.tag = "Stopping"
                                           THEN st.services[s].phase.crash ELSE failure)
    OBVIOUS
  <2>4. PICK q : q = [st.services[s] EXCEPT !.phase = phase, !.waiters = {},
                      !.breaker = breaker, !.idleArmedEpoch = 0, !.relaunchForced = FALSE,
                      !.readinessFailure = FALSE, !.reprobing = FALSE, !.cleanupFailure = TRUE]
    OBVIOUS
  <2>5. PICK timer : timer = IF Counts(st.services[s], failure) THEN cooldown(s, breaker) ELSE {}
    OBVIOUS
  <2>6. StopFailed(st, s, g, failure, quiet)
          = Step(Put(told.st, s, q),
                 told.out \union failAllWaiters(s, st.services[s]) \union timer)
    BY <1>1, <2>1, <2>2, <2>3, <2>4, <2>5 DEF StopFailed
  <2>7. s \in Services /\ st.services[s].phase.generation = g
    BY <1>1, SoundMembers DEF Current
  <2>8. /\ st.services[s] \in ServiceState /\ st.services[s].phase.tag # "Stopped"
        /\ st.services[s].phase \in Phase
    BY <2>7, SoundFields DEF SoundService
  <2>9. Quiet(st, told.st, {}) /\ Plain(st, told.out)
        /\ told.st.services[s].phase = st.services[s].phase
    BY <2>1, <2>7, ToldQuiet DEF QuietStep
  <2>10. breaker \in [failures : Nat, openUntil : Nat]
    BY <2>2, <2>8, CountTyped DEF ServiceState
  <2>11. phase \in Phase /\ phase.tag = "Stopping" /\ phase.generation = g
    <3>1. (IF st.services[s].phase.tag = "Stopping" THEN st.services[s].phase.crash ELSE failure)
            \in BOOLEAN
      BY <2>8 DEF Phase
    <3> QED
      BY <2>3, <3>1, Phases
  <2>12. /\ q \in ServiceState /\ q.phase = phase
         /\ SameStorage(st.services[s], q) /\ q.waiters = {}
    BY <2>4, <2>8, <2>10, <2>11 DEF ServiceState, SameStorage
  <2>13. told.st \in SoundState /\ SameStorage(told.st.services[s], q)
    BY <2>7, <2>9, <2>12 DEF Quiet, Leads, LeavesStorage, SameStorage
  <2>14. Follows(told.st.services[s], q)
    BY <2>7, <2>8, <2>9, <2>11, <2>12, <2>13, FS_EmptySet DEF Follows
  <2>15. PhaseKept(told.st.services[s].phase, q.phase)
    BY <2>7, <2>9, <2>11, <2>12 DEF PhaseKept, isUpOrWindingDown
  <2>16. Quiet(told.st, Put(told.st, s, q), {})
    BY <2>7, <2>12, <2>13, <2>14, <2>15, PutQuiet
  <2>17. Quiet(st, Put(told.st, s, q), {})
    BY <2>9, <2>16, QuietOn
  <2>18. Plain(st, timer)
    BY <2>5, <2>7, <2>10, PlainCommands
  <2>19. Plain(st, told.out \union failAllWaiters(s, st.services[s]) \union timer)
    BY <2>7, <2>9, <2>18, PlainFailAll, PlainUnion
  <2> QED
    BY <2>6, <2>17, <2>19, StepFields DEF QuietStep
<1>2. CASE ~(s \in st.members /\ Current(st.services[s], g))
  BY <1>2, IgnoredQuiet DEF StopFailed
<1> QED
  BY <1>1, <1>2

\* The event ReadinessLost.
LEMMA ReadinessLostQuiet ==
  ASSUME NEW st \in SoundState, NEW s, NEW g
  PROVE  QuietStep(st, ReadinessLost(st, s, g), {})
<1>1. CASE AtPhase(st, s, g, {"Running"})
  <2>1. PICK told : told = failExplicitDependentWaiters(st, s)
    OBVIOUS
  <2>2. PICK failed : failed = {w \in st.services[s].waiters : w.requireReady}
    OBVIOUS
  <2>3. PICK q : q = [st.services[s] EXCEPT !.phase = Running(g, FALSE), !.waiters = @ \ failed,
                      !.readinessFailure = TRUE, !.reprobing = FALSE]
    OBVIOUS
  <2>4. ReadinessLost(st, s, g)
          = Step(Put(told.st, s, q), told.out \union {Fail(s, w.client) : w \in failed})
    BY <1>1, <2>1, <2>2, <2>3 DEF ReadinessLost
  <2>5. /\ s \in Services /\ st.services[s].phase.generation = g /\ g \in Nat
        /\ st.services[s].phase.tag = "Running"
    BY <1>1, RunningFacts
  <2>6. st.services[s] \in ServiceState /\ IsFiniteSet(st.services[s].waiters)
    BY <2>5, SoundFields DEF SoundService
  <2>7. Quiet(st, told.st, {}) /\ Plain(st, told.out)
        /\ told.st.services[s].phase = st.services[s].phase
    BY <2>1, <2>5, ToldQuiet DEF QuietStep
  <2>8. /\ Running(g, FALSE) \in Phase /\ Running(g, FALSE).tag = "Running"
        /\ Running(g, FALSE).generation = g
    BY <2>5, Phases
  <2>9. /\ q \in ServiceState /\ q.phase = Running(g, FALSE)
        /\ SameStorage(st.services[s], q) /\ q.waiters = st.services[s].waiters \ failed
    BY <2>3, <2>6, <2>8 DEF ServiceState, SameStorage
  <2>10. told.st \in SoundState /\ SameStorage(told.st.services[s], q)
    BY <2>5, <2>7, <2>9 DEF Quiet, Leads, LeavesStorage, SameStorage
  <2>11. IsFiniteSet(q.waiters)
    BY <2>6, <2>9, FS_Subset
  <2>12. Follows(told.st.services[s], q) /\ PhaseKept(told.st.services[s].phase, q.phase)
    BY <2>5, <2>7, <2>8, <2>9, <2>10, <2>11 DEF Follows, PhaseKept, isUpOrWindingDown
  <2>13. Quiet(told.st, Put(told.st, s, q), {})
    BY <2>5, <2>9, <2>10, <2>12, PutQuiet
  <2>14. Quiet(st, Put(told.st, s, q), {})
    BY <2>7, <2>13, QuietOn
  <2>15. failed \in SUBSET Waiter
    BY <2>2, <2>6 DEF ServiceState
  <2>16. Plain(st, told.out \union {Fail(s, w.client) : w \in failed})
    BY <2>5, <2>7, <2>15, PlainFails, PlainUnion
  <2> QED
    BY <2>4, <2>14, <2>16, StepFields DEF QuietStep
<1>2. CASE ~AtPhase(st, s, g, {"Running"})
  BY <1>2, IgnoredQuiet DEF ReadinessLost
<1> QED
  BY <1>1, <1>2

\* The event IdleElapsed.
LEMMA IdleElapsedQuiet ==
  ASSUME NEW st \in SoundState, NEW s, NEW g, NEW epoch
  PROVE  QuietStep(st, IdleElapsed(st, s, g, epoch), {})
<1>1. CASE AtPhase(st, s, g, {"Running"}) /\ st.services[s].idleArmedEpoch = epoch
           /\ ~hasDemand(st, s)
  <2>1. PICK q : q = [st.services[s] EXCEPT !.phase = Stopping(g, FALSE), !.idleArmedEpoch = 0]
    OBVIOUS
  <2>2. /\ s \in Services /\ st.services[s].phase.generation = g /\ g \in Nat
        /\ st.services[s].phase.tag = "Running" /\ Plain(st, {Stop(s, g)})
    BY <1>1, RunningFacts
  <2>3. /\ Stopping(g, FALSE) \in Phase /\ Stopping(g, FALSE).tag = "Stopping"
        /\ Stopping(g, FALSE).generation = g
    BY <2>2, Phases
  <2>4. st.services[s] \in ServiceState /\ IsFiniteSet(st.services[s].waiters)
    BY <2>2, SoundFields DEF SoundService
  <2>5. /\ q \in ServiceState /\ q.phase = Stopping(g, FALSE)
        /\ SameStorage(st.services[s], q) /\ q.waiters = st.services[s].waiters
    BY <2>1, <2>3, <2>4 DEF ServiceState, SameStorage
  <2>6. Quiet(st, Put(st, s, q), {})
    <3>1. Follows(st.services[s], q) /\ PhaseKept(st.services[s].phase, q.phase)
      BY <2>2, <2>3, <2>4, <2>5 DEF Follows, PhaseKept, isUpOrWindingDown
    <3> QED
      BY <2>2, <2>5, <3>1, PutQuiet
  <2> QED
    BY <1>1, <2>1, <2>2, <2>6, StepFields DEF IdleElapsed, QuietStep
<1>2. CASE ~(AtPhase(st, s, g, {"Running"}) /\ st.services[s].idleArmedEpoch = epoch
             /\ ~hasDemand(st, s))
  BY <1>2, IgnoredQuiet DEF IdleElapsed
<1> QED
  BY <1>1, <1>2

\* A service that stays at its phase.
LEMMA StaysQuiet ==
  ASSUME NEW st \in SoundState, NEW s \in Services, NEW q \in ServiceState,
         q.phase = st.services[s].phase, SameStorage(st.services[s], q), IsFiniteSet(q.waiters)
  PROVE  Quiet(st, Put(st, s, q), {})
BY PutQuiet DEF Follows, PhaseKept

\* The event CooldownElapsed.
LEMMA CooldownElapsedQuiet ==
  ASSUME NEW st \in SoundState, NEW s, NEW openUntil
  PROVE  QuietStep(st, CooldownElapsed(st, s, openUntil), {})
<1>1. CASE s \in st.members /\ st.services[s].breaker.openUntil = openUntil
  <2>1. s \in Services
    BY <1>1, SoundMembers
  <2>2. st.services[s] \in ServiceState /\ IsFiniteSet(st.services[s].waiters)
    BY <2>1, SoundFields DEF SoundService
  <2>3. PICK breaker : breaker = [st.services[s].breaker EXCEPT !.openUntil = 0]
    OBVIOUS
  <2>4. PICK q : q = [st.services[s] EXCEPT !.breaker = breaker]
    OBVIOUS
  <2>5. breaker \in [failures : Nat, openUntil : Nat]
    BY <2>2, <2>3 DEF ServiceState
  <2>6. /\ q \in ServiceState /\ q.phase = st.services[s].phase
        /\ SameStorage(st.services[s], q) /\ q.waiters = st.services[s].waiters
    BY <2>2, <2>4, <2>5 DEF ServiceState, SameStorage
  <2>7. Quiet(st, Put(st, s, q), {})
    BY <2>1, <2>2, <2>6, StaysQuiet
  <2>8. CooldownElapsed(st, s, openUntil) = Step(Put(st, s, q), {})
    BY <1>1, <2>3, <2>4 DEF CooldownElapsed
  <2> QED
    BY <2>7, <2>8, StepFields DEF QuietStep, Plain
<1>2. CASE ~(s \in st.members /\ st.services[s].breaker.openUntil = openUntil)
  BY <1>2, IgnoredQuiet DEF CooldownElapsed
<1> QED
  BY <1>1, <1>2

\* A wait is opened, or fails, or is admitted at once.
LEMMA OpenWaiterQuiet ==
  ASSUME NEW st \in SoundState, NEW s, NEW c \in Clients, NEW requireReady \in BOOLEAN,
         NEW kind \in {"traffic", "explicit"}
  PROVE  QuietStep(st, openWaiter(st, s, c, requireReady, kind), {})
<1>1. CASE s \notin st.members
  BY <1>1, IgnoredQuiet DEF openWaiter
<1>2. CASE s \in st.members
  <2>0. s \in Services
    BY <1>2, SoundMembers
  <2>1. st.services[s] \in ServiceState /\ IsFiniteSet(st.services[s].waiters)
    BY <2>0, SoundFields DEF SoundService
  <2>2. QuietStep(st, Step(st, {Fail(s, c)}), {}) /\ QuietStep(st, Step(st, {Admit(s, c)}), {})
    <3>1. Plain(st, {Fail(s, c)}) /\ Plain(st, {Admit(s, c)})
      BY <2>0, PlainCommands
    <3>2. Quiet(st, st, {})
      BY IgnoredQuiet
    <3> QED
      BY <3>1, <3>2, StepFields DEF QuietStep
  <2>3. PICK q : q = [st.services[s] EXCEPT !.leases = @ + 1]
    OBVIOUS
  <2>4. /\ q \in ServiceState /\ q.phase = st.services[s].phase
        /\ SameStorage(st.services[s], q) /\ q.waiters = st.services[s].waiters
    BY <2>1, <2>3 DEF ServiceState, SameStorage
  <2>5. QuietStep(st, Step(Put(st, s, q), {Admit(s, c)}), {})
    <3>1. Plain(st, {Admit(s, c)})
      BY <2>0, PlainCommands
    <3>2. Quiet(st, Put(st, s, q), {})
      BY <2>0, <2>1, <2>4, StaysQuiet
    <3> QED
      BY <3>1, <3>2, StepFields DEF QuietStep
  <2>6. PICK w : w = [client |-> c, kind |-> kind, requireReady |-> requireReady]
    OBVIOUS
  <2>7. PICK r : r = [st.services[s] EXCEPT !.waiters = @ \union {w}]
    OBVIOUS
  <2>8. /\ r \in ServiceState /\ r.phase = st.services[s].phase
        /\ SameStorage(st.services[s], r) /\ r.waiters = st.services[s].waiters \union {w}
    <3>1. w \in Waiter
      BY <2>6 DEF Waiter
    <3> QED
      BY <2>1, <2>7, <3>1 DEF ServiceState, SameStorage
  <2>9. Quiet(st, Put(st, s, r), {})
    <3>1. IsFiniteSet(r.waiters)
      BY <2>1, <2>8, FS_AddElement
    <3> QED
      BY <2>0, <2>8, <3>1, StaysQuiet
  <2>10. QuietStep(st, retryBlockedCleanup(Put(st, s, r), s), {})
    <3>1. PICK new : new = Put(st, s, r)
      OBVIOUS
    <3>2. new \in SoundState
      BY <2>9, <3>1 DEF Quiet, Leads
    <3>3. QuietStep(new, retryBlockedCleanup(new, s), {})
      BY <3>2, RetryQuiet DEF retryBlockedCleanup
    <3> QED
      BY <2>9, <3>1, <3>3, QuietOn, PlainOn DEF QuietStep, Quiet
  <2> QED
    BY <1>2, <2>2, <2>3, <2>5, <2>6, <2>7, <2>10 DEF openWaiter
<1> QED
  BY <1>1, <1>2

\* The event ConnectionOpened.
LEMMA ConnectionOpenedQuiet ==
  ASSUME NEW st \in SoundState, NEW s, NEW c \in Clients, NEW requireReady \in BOOLEAN
  PROVE  /\ QuietStep(st, ConnectionOpened(st, s, c, requireReady), {})
         /\ QuietStep(st, ReadinessAwaited(st, s, c, requireReady), {})
BY OpenWaiterQuiet DEF ConnectionOpened, ReadinessAwaited

\* The event ConnectionClosed.
LEMMA ConnectionClosedQuiet ==
  ASSUME NEW st \in SoundState, NEW s \in Services
  PROVE  QuietStep(st, ConnectionClosed(st, s), {})
<1>1. st.services[s] \in ServiceState /\ IsFiniteSet(st.services[s].waiters)
  BY SoundFields DEF SoundService
<1>2. PICK n : n = IF st.services[s].leases = 0 THEN 0 ELSE st.services[s].leases - 1
  OBVIOUS
<1>3. n \in Nat
  BY <1>1, <1>2 DEF ServiceState
<1>4. PICK q : q = [st.services[s] EXCEPT !.leases = n]
  OBVIOUS
<1>5. /\ q \in ServiceState /\ q.phase = st.services[s].phase
      /\ SameStorage(st.services[s], q) /\ q.waiters = st.services[s].waiters
  BY <1>1, <1>3, <1>4 DEF ServiceState, SameStorage
<1>6. ConnectionClosed(st, s) = Step(Put(st, s, q), {})
  <2>1. st \in LifecycleState
    BY SoundFields
  <2> QED
    BY <1>2, <1>4, <2>1 DEF ConnectionClosed, Put, LifecycleState
<1> QED
  BY <1>1, <1>5, <1>6, StaysQuiet, StepFields DEF QuietStep, Plain

\* The event WaiterCancelled.
LEMMA WaiterCancelledQuiet ==
  ASSUME NEW st \in SoundState, NEW s \in Services, NEW c
  PROVE  QuietStep(st, WaiterCancelled(st, s, c), {})
<1>1. st.services[s] \in ServiceState /\ IsFiniteSet(st.services[s].waiters)
  BY SoundFields DEF SoundService
<1>2. PICK W : W = {w \in st.services[s].waiters : w.client # c}
  OBVIOUS
<1>3. PICK q : q = [st.services[s] EXCEPT !.waiters = W]
  OBVIOUS
<1>4. /\ q \in ServiceState /\ q.phase = st.services[s].phase
      /\ SameStorage(st.services[s], q) /\ q.waiters = W
  BY <1>1, <1>2, <1>3 DEF ServiceState, SameStorage
<1>5. WaiterCancelled(st, s, c) = Step(Put(st, s, q), {})
  <2>1. st \in LifecycleState
    BY SoundFields
  <2> QED
    BY <1>2, <1>3, <2>1 DEF WaiterCancelled, Put, LifecycleState
<1>6. IsFiniteSet(q.waiters)
  <2>1. W \in SUBSET st.services[s].waiters
    BY <1>2
  <2> QED
    BY <1>1, <1>4, <2>1, FS_Subset
<1> QED
  BY <1>1, <1>4, <1>5, <1>6, StaysQuiet, StepFields DEF QuietStep, Plain

\* The event ArmRequested.
LEMMA ArmRequestedQuiet ==
  ASSUME NEW st \in SoundState, NEW s
  PROVE  QuietStep(st, ArmRequested(st, s), {})
<1>1. CASE s \in st.members /\ st.services[s].destroy = "none"
  <2>0. s \in Services
    BY <1>1, SoundMembers
  <2>1. st.services[s] \in ServiceState /\ IsFiniteSet(st.services[s].waiters)
    BY <2>0, SoundFields DEF SoundService
  <2>2. PICK q : q = [st.services[s] EXCEPT !.intent = Activation[s], !.breaker = initialBreaker]
    OBVIOUS
  <2>3. /\ q \in ServiceState /\ q.phase = st.services[s].phase
        /\ SameStorage(st.services[s], q) /\ q.waiters = st.services[s].waiters
    <3>1. Activation[s] \in {"eager", "lazy"}
      BY <2>0, LifecycleAssumption
    <3>2. initialBreaker \in [failures : Nat, openUntil : Nat]
      BY DEF initialBreaker
    <3> QED
      BY <2>1, <2>2, <3>1, <3>2 DEF ServiceState, SameStorage
  <2>4. Quiet(st, Put(st, s, q), {})
    BY <2>0, <2>1, <2>3, StaysQuiet
  <2>5. ArmRequested(st, s) = Step(Put(st, s, q), {})
    BY <1>1, <2>2 DEF ArmRequested
  <2> QED
    BY <2>4, <2>5, StepFields DEF QuietStep, Plain
<1>2. CASE ~(s \in st.members /\ st.services[s].destroy = "none")
  BY <1>2, IgnoredQuiet DEF ArmRequested
<1> QED
  BY <1>1, <1>2

\* The event Refused.
LEMMA RefusedQuiet ==
  ASSUME NEW st \in SoundState, NEW s \in Services
  PROVE  QuietStep(st, Refused(st, s), {})
<1>1. Plain(st, {Rejected(s)})
  BY PlainCommands
<1>2. Quiet(st, st, {})
  BY IgnoredQuiet
<1> QED
  BY <1>1, <1>2, StepFields DEF QuietStep, Refused

\* What a stop or a restart leaves is winding down, with the stop it commands.
LEMMA StopNowPlain ==
  ASSUME NEW st \in SoundState, NEW s \in Services
  PROVE  Plain(st, StopNow(s, st.services[s]))
<1>1. CASE Stoppable(st.services[s])
  <2>1. st.services[s].phase.tag # "Stopped"
    BY <1>1 DEF Stoppable
  <2>2. Plain(st, {Stop(s, st.services[s].phase.generation)})
    BY <2>1, PlainCommands
  <2> QED
    BY <1>1, <2>2 DEF StopNow
<1>2. CASE ~Stoppable(st.services[s])
  BY <1>2 DEF StopNow, Plain
<1> QED
  BY <1>1, <1>2

\* The event StopRequested.
LEMMA StopRequestedQuiet ==
  ASSUME NEW st \in SoundState, NEW s
  PROVE  QuietStep(st, StopRequested(st, s), {})
<1>1. CASE s \notin st.members
  BY <1>1, IgnoredQuiet DEF StopRequested
<1>2. CASE s \in st.members /\ activeDependents(st, s) # {}
  BY <1>2, SoundMembers, RefusedQuiet DEF StopRequested
<1>3. CASE s \in st.members /\ activeDependents(st, s) = {}
  <2>0. s \in Services
    BY <1>3, SoundMembers
  <2>1. PICK p : p = st.services[s]
    OBVIOUS
  <2>2. p \in ServiceState /\ p.phase \in Phase /\ p.phase.generation \in Nat
    BY <2>0, <2>1, SoundFields
  <2>3. PICK phase : phase = CASE Stoppable(p) -> Stopping(p.phase.generation, FALSE)
                               [] p.phase.tag = "Failed" -> Stopped
                               [] OTHER -> p.phase
    OBVIOUS
  <2>4. /\ phase \in Phase
        /\ \/ phase = p.phase
           \/ /\ p.phase.tag \in {"Starting", "Running"} /\ phase.tag = "Stopping"
              /\ phase.generation = p.phase.generation
           \/ p.phase.tag = "Failed" /\ phase.tag = "Stopped" /\ phase.generation = 0
    <3>1. CASE Stoppable(p)
      BY <2>2, <2>3, <3>1, Phases DEF Stoppable
    <3>2. CASE ~Stoppable(p) /\ p.phase.tag = "Failed"
      BY <2>2, <2>3, <3>2, Phases
    <3>3. CASE ~Stoppable(p) /\ p.phase.tag # "Failed"
      BY <2>2, <2>3, <3>3
    <3> QED
      BY <3>1, <3>2, <3>3
  <2>5. PICK q : q = [p EXCEPT !.intent = "stopped", !.waiters = {},
                               !.relaunchForced = FALSE, !.phase = phase]
    OBVIOUS
  <2>6. /\ q \in ServiceState /\ q.phase = phase /\ SameStorage(p, q) /\ q.waiters = {}
    BY <2>2, <2>4, <2>5 DEF ServiceState, SameStorage
  <2>7. Follows(p, q) /\ PhaseKept(p.phase, q.phase)
    BY <2>4, <2>6, FS_EmptySet DEF Follows, PhaseKept, isUpOrWindingDown
  <2>8. PICK a : a = Put(st, s, q)
    OBVIOUS
  <2>9. Quiet(st, a, {})
    BY <2>0, <2>1, <2>6, <2>7, <2>8, PutQuiet
  <2>10. a \in SoundState
    BY <2>9 DEF Quiet, Leads
  <2>11. PICK retried : retried = retryCleanups(a, {s})
    OBVIOUS
  <2>12. Quiet(a, retried.st, {}) /\ Plain(a, retried.out)
    BY <2>10, <2>11, RetryQuiet DEF QuietStep
  <2>13. Quiet(st, retried.st, {}) /\ Plain(st, retried.out)
    BY <2>9, <2>12, QuietOn, PlainOn DEF Quiet
  <2>14. StopRequested(st, s)
           = Step(retried.st, retried.out \union (failAllWaiters(s, p) \union StopNow(s, p)))
    <3>1. StopRequested(st, s) = Also(retried, failAllWaiters(s, p) \union StopNow(s, p))
      BY <1>3, <2>1, <2>3, <2>5, <2>8, <2>11 DEF StopRequested
    <3>2. retried = Step(retried.st, retried.out)
      BY <2>11 DEF retryCleanups, Step
    <3>3. Also(Step(retried.st, retried.out), failAllWaiters(s, p) \union StopNow(s, p))
            = Step(retried.st, retried.out \union (failAllWaiters(s, p) \union StopNow(s, p)))
      BY AlsoFields
    <3> QED
      BY <3>1, <3>2, <3>3
  <2>15. Plain(st, failAllWaiters(s, p)) /\ Plain(st, StopNow(s, p))
    BY <2>0, <2>1, PlainFailAll, StopNowPlain
  <2>16. Plain(st, retried.out \union (failAllWaiters(s, p) \union StopNow(s, p)))
    BY <2>13, <2>15, PlainUnion
  <2> QED
    BY <2>13, <2>14, <2>16, StepFields DEF QuietStep
<1> QED
  BY <1>1, <1>2, <1>3

\* A service replaced, its blocked cleanup retried and its prerequisites armed.
LEMMA RestartedQuiet ==
  ASSUME NEW st \in SoundState, NEW s, NEW a, Quiet(st, a, {}), NEW s2 \in Services
  PROVE  /\ Quiet(st, rearmPrerequisites(retryCleanups(a, {s}).st, s2), {})
         /\ Plain(st, retryCleanups(a, {s}).out)
<1>1. a \in SoundState
  BY DEF Quiet, Leads
<1>2. PICK retried : retried = retryCleanups(a, {s})
  OBVIOUS
<1>3. Quiet(a, retried.st, {}) /\ Plain(a, retried.out)
  BY <1>1, <1>2, RetryQuiet DEF QuietStep
<1>4. Quiet(st, retried.st, {}) /\ Plain(st, retried.out)
  BY <1>3, QuietOn, PlainOn DEF Quiet
<1>5. retried.st \in SoundState
  BY <1>4 DEF Quiet, Leads
<1>6. Quiet(retried.st, rearmPrerequisites(retried.st, s2), {})
  BY <1>5, RearmQuiet
<1>7. Quiet(st, rearmPrerequisites(retried.st, s2), {})
  BY <1>4, <1>6, QuietOn
<1> QED
  BY <1>2, <1>4, <1>7

\* The event StartRequested.
LEMMA StartRequestedQuiet ==
  ASSUME NEW st \in SoundState, NEW s
  PROVE  QuietStep(st, StartRequested(st, s), {})
<1>1. CASE s \notin st.members
  BY <1>1, IgnoredQuiet DEF StartRequested
<1>2. CASE s \in st.members /\ st.services[s].destroy # "none"
  BY <1>2, SoundMembers, RefusedQuiet DEF StartRequested
<1>3. CASE s \in st.members /\ st.services[s].destroy = "none"
  <2>0. s \in Services
    BY <1>3, SoundMembers
  <2>1. st.services[s] \in ServiceState /\ IsFiniteSet(st.services[s].waiters)
    BY <2>0, SoundFields DEF SoundService
  <2>2. PICK forced : forced = (st.services[s].relaunchForced
                                 \/ st.services[s].phase.tag \in {"Stopped", "Failed", "Stopping"})
    OBVIOUS
  <2>3. PICK q : q = [st.services[s] EXCEPT !.intent = Activation[s], !.breaker = initialBreaker,
                               !.relaunchForced = forced]
    OBVIOUS
  <2>4. /\ q \in ServiceState /\ q.phase = st.services[s].phase
        /\ SameStorage(st.services[s], q) /\ q.waiters = st.services[s].waiters
    <3>1. Activation[s] \in {"eager", "lazy"}
      BY <2>0, LifecycleAssumption
    <3>2. initialBreaker \in [failures : Nat, openUntil : Nat] /\ forced \in BOOLEAN
      BY <2>2 DEF initialBreaker
    <3> QED
      BY <2>1, <2>3, <3>1, <3>2 DEF ServiceState, SameStorage
  <2>5. PICK a : a = Put(st, s, q)
    OBVIOUS
  <2>6. Quiet(st, a, {})
    BY <2>0, <2>1, <2>4, <2>5, StaysQuiet
  <2>7. StartRequested(st, s) = Step(rearmPrerequisites(retryCleanups(a, {s}).st, s),
                                     retryCleanups(a, {s}).out)
    BY <1>3, <2>2, <2>3, <2>5 DEF StartRequested
  <2>8. /\ Quiet(st, rearmPrerequisites(retryCleanups(a, {s}).st, s), {})
        /\ Plain(st, retryCleanups(a, {s}).out)
    BY <2>0, <2>6, RestartedQuiet
  <2> QED
    BY <2>7, <2>8, StepFields DEF QuietStep
<1> QED
  BY <1>1, <1>2, <1>3

\* The event RestartRequested.
LEMMA RestartRequestedQuiet ==
  ASSUME NEW st \in SoundState, NEW s
  PROVE  QuietStep(st, RestartRequested(st, s), {})
<1>1. CASE s \notin st.members
  BY <1>1, IgnoredQuiet DEF RestartRequested
<1>2. CASE s \in st.members /\ (st.services[s].destroy # "none" \/ activeDependents(st, s) # {})
  BY <1>2, SoundMembers, RefusedQuiet DEF RestartRequested
<1>3. CASE s \in st.members /\ st.services[s].destroy = "none" /\ activeDependents(st, s) = {}
  <2>0. s \in Services
    BY <1>3, SoundMembers
  <2>1. PICK p : p = st.services[s]
    OBVIOUS
  <2>2. p \in ServiceState /\ p.phase \in Phase /\ p.phase.generation \in Nat
        /\ IsFiniteSet(p.waiters)
    BY <2>0, <2>1, SoundFields DEF SoundService
  <2>3. PICK phase : phase = IF Stoppable(p) THEN Stopping(p.phase.generation, FALSE) ELSE p.phase
    OBVIOUS
  <2>4. /\ phase \in Phase
        /\ \/ phase = p.phase
           \/ /\ p.phase.tag \in {"Starting", "Running"} /\ phase.tag = "Stopping"
              /\ phase.generation = p.phase.generation
    <3>1. CASE Stoppable(p)
      BY <2>2, <2>3, <3>1, Phases DEF Stoppable
    <3>2. CASE ~Stoppable(p)
      BY <2>2, <2>3, <3>2
    <3> QED
      BY <3>1, <3>2
  <2>5. PICK q : q = [p EXCEPT !.intent = Activation[s], !.breaker = initialBreaker,
                               !.relaunchForced = TRUE, !.phase = phase]
    OBVIOUS
  <2>6. /\ q \in ServiceState /\ q.phase = phase /\ SameStorage(p, q) /\ q.waiters = p.waiters
    <3>1. Activation[s] \in {"eager", "lazy"}
      BY <2>0, LifecycleAssumption
    <3>2. initialBreaker \in [failures : Nat, openUntil : Nat]
      BY DEF initialBreaker
    <3> QED
      BY <2>2, <2>4, <2>5, <3>1, <3>2 DEF ServiceState, SameStorage
  <2>7. Follows(p, q) /\ PhaseKept(p.phase, q.phase)
    BY <2>2, <2>4, <2>6 DEF Follows, PhaseKept, isUpOrWindingDown
  <2>8. PICK a : a = Put(st, s, q)
    OBVIOUS
  <2>9. Quiet(st, a, {})
    BY <2>0, <2>1, <2>6, <2>7, <2>8, PutQuiet
  <2>10. RestartRequested(st, s) = Step(rearmPrerequisites(retryCleanups(a, {s}).st, s),
                                        retryCleanups(a, {s}).out \union StopNow(s, p))
    BY <1>3, <2>1, <2>3, <2>5, <2>8 DEF RestartRequested
  <2>11. /\ Quiet(st, rearmPrerequisites(retryCleanups(a, {s}).st, s), {})
         /\ Plain(st, retryCleanups(a, {s}).out)
    BY <2>0, <2>9, RestartedQuiet
  <2>12. Plain(st, retryCleanups(a, {s}).out \union StopNow(s, p))
    BY <2>0, <2>1, <2>11, StopNowPlain, PlainUnion
  <2> QED
    BY <2>10, <2>11, <2>12, StepFields DEF QuietStep
<1> QED
  BY <1>1, <1>2, <1>3

-----------------------------------------------------------------------------
(* The events about the storage.                                           *)

\* A quiet event is one of the storage that ends no reservation.
LEMMA QuietStorage ==
  ASSUME NEW st, NEW step, QuietStep(st, step, {}), NEW Ss
  PROVE  StorageStep(st, step, Ss)
BY DEF QuietStep, Quiet, LeavesStorage, SameStorage, KeepsStorage, StorageStep

\* The service is replaced by one at the same phase.
LEMMA PutStorage ==
  ASSUME NEW st \in SoundState, NEW s \in Services, NEW q \in ServiceState, NEW Ss,
         q.phase = st.services[s].phase, q.waiters = st.services[s].waiters,
         q.storageReserved => q.phase.tag = "Stopped",
         q.destroy = "reserved" => q.storageReserved,
         s \in Ss \/ KeepsStorage(st.services[s], q)
  PROVE  StorageStep(st, Step(Put(st, s, q), {}), Ss)
<1>0. st \in LifecycleState
  BY SoundMembers
<1>1. SoundService(q, st.generationCounters[s])
  BY SoundFields DEF SoundService
<1>2. Leads(st, Put(st, s, q), {})
  BY <1>1, PutLeads DEF PhaseKept
<1>3. \A t \in Services : Put(st, s, q).services[t] = IF t = s THEN q ELSE st.services[t]
  BY <1>0, PutServices
<1>4. \A t \in Services \ Ss : KeepsStorage(st.services[t], Put(st, s, q).services[t])
  BY <1>3 DEF KeepsStorage
<1>5. Plain(st, {})
  BY DEF Plain
<1> QED
  BY <1>2, <1>4, <1>5, StepFields DEF StorageStep

\* A reservation ends none; unless refused, the storage is its caller's.
LEMMA StorageReservedStep ==
  ASSUME NEW st \in SoundState, NEW s \in Services
  PROVE  /\ StorageStep(st, StorageReserved(st, s), {})
         /\ s \in st.members /\ Rejected(s) \notin StorageReserved(st, s).out =>
              /\ ~st.services[s].storageReserved
              /\ StorageReserved(st, s).st.services[s].storageReserved
              /\ StorageReserved(st, s).st.services[s].destroy # "reserved"
<1>1. CASE s \notin st.members
  BY <1>1, IgnoredQuiet, QuietStorage DEF StorageReserved
<1>2. PICK free \in BOOLEAN :
        free <=> /\ st.services[s].destroy = "none" /\ ~st.services[s].storageReserved
                 /\ st.services[s].phase.tag = "Stopped" /\ st.services[s].intent = "stopped"
  OBVIOUS
<1>3. CASE s \in st.members /\ ~free
  <2>1. StorageReserved(st, s) = Refused(st, s)
    BY <1>2, <1>3 DEF StorageReserved
  <2>2. Rejected(s) \in Refused(st, s).out
    BY StepFields DEF Refused
  <2> QED
    BY <2>1, <2>2, RefusedQuiet, QuietStorage
<1>4. CASE s \in st.members /\ free
  <2>1. PICK q : q = [st.services[s] EXCEPT !.storageReserved = TRUE]
    OBVIOUS
  <2>2. StorageReserved(st, s) = Step(Put(st, s, q), {})
    BY <1>2, <1>4, <2>1 DEF StorageReserved
  <2>3. st.services[s] \in ServiceState
    BY SoundFields
  <2>4. /\ q \in ServiceState /\ q.phase = st.services[s].phase
        /\ q.waiters = st.services[s].waiters /\ q.storageReserved
        /\ q.destroy = st.services[s].destroy
    BY <2>1, <2>3 DEF ServiceState
  <2>5. StorageStep(st, Step(Put(st, s, q), {}), {})
    <3>1. KeepsStorage(st.services[s], q)
      BY <1>2, <1>4 DEF KeepsStorage
    <3> QED
      BY <1>2, <1>4, <2>4, <3>1, PutStorage
  <2>6. Put(st, s, q).services[s] = q
    <3>1. st \in LifecycleState
      BY SoundMembers
    <3> QED
      BY <2>4, <3>1, PutServices
  <2> QED
    BY <1>2, <1>4, <2>2, <2>4, <2>5, <2>6, StepFields
<1> QED
  BY <1>1, <1>3, <1>4

\* The release of a storage operation ends no destroy's reservation.
LEMMA StorageReleasedStep ==
  ASSUME NEW st \in SoundState, NEW s \in Services
  PROVE  /\ StorageStep(st, StorageReleased(st, s), {s})
         /\ st.services[s].destroy = "reserved" =>
              KeepsStorage(st.services[s], StorageReleased(st, s).st.services[s])
<1>0. st.services[s] \in ServiceState /\ SoundService(st.services[s], st.generationCounters[s])
      /\ st \in LifecycleState
  BY SoundFields
<1>1. PICK kept \in BOOLEAN :
        kept <=> st.services[s].storageReserved /\ st.services[s].destroy = "reserved"
  OBVIOUS
<1>2. PICK q : q = [st.services[s] EXCEPT !.storageReserved = kept]
  OBVIOUS
<1>3. StorageReleased(st, s) = Step(Put(st, s, q), {})
  <2>1. kept = (st.services[s].storageReserved /\ st.services[s].destroy = "reserved")
    BY <1>1
  <2> QED
    BY <1>0, <1>2, <2>1 DEF StorageReleased, Put, LifecycleState
<1>4. /\ q \in ServiceState /\ q.phase = st.services[s].phase
      /\ q.waiters = st.services[s].waiters /\ q.storageReserved = kept
      /\ q.destroy = st.services[s].destroy
  BY <1>0, <1>2 DEF ServiceState
<1>5. StorageStep(st, Step(Put(st, s, q), {}), {s})
  BY <1>0, <1>1, <1>4, PutStorage DEF SoundService
<1>6. Put(st, s, q).services[s] = q
  BY <1>0, <1>4, PutServices
<1> QED
  BY <1>1, <1>3, <1>4, <1>5, <1>6, StepFields DEF KeepsStorage

\* The release of a destroy ends no storage operation's reservation.
LEMMA DestroyReleasedStep ==
  ASSUME NEW st \in SoundState, NEW s \in Services
  PROVE  /\ StorageStep(st, DestroyReleased(st, s), {s})
         /\ st.services[s].destroy # "reserved" =>
              KeepsStorage(st.services[s], DestroyReleased(st, s).st.services[s])
<1>0. st.services[s] \in ServiceState /\ SoundService(st.services[s], st.generationCounters[s])
      /\ st \in LifecycleState
  BY SoundFields
<1>1. PICK kept \in BOOLEAN :
        kept <=> st.services[s].storageReserved /\ st.services[s].destroy # "reserved"
  OBVIOUS
<1>2. PICK q : q = [st.services[s] EXCEPT !.destroy = "none", !.storageReserved = kept]
  OBVIOUS
<1>3. DestroyReleased(st, s) = Step(Put(st, s, q), {})
  <2>1. kept = (st.services[s].storageReserved /\ st.services[s].destroy # "reserved")
    BY <1>1
  <2> QED
    BY <1>0, <1>2, <2>1 DEF DestroyReleased
<1>4. /\ q \in ServiceState /\ q.phase = st.services[s].phase
      /\ q.waiters = st.services[s].waiters /\ q.storageReserved = kept
      /\ q.destroy = "none"
  BY <1>0, <1>2 DEF ServiceState
<1>5. StorageStep(st, Step(Put(st, s, q), {}), {s})
  BY <1>0, <1>1, <1>4, PutStorage DEF SoundService
<1>6. Put(st, s, q).services[s] = q
  BY <1>0, <1>4, PutServices
<1> QED
  BY <1>1, <1>3, <1>4, <1>5, <1>6, StepFields DEF KeepsStorage

\* A destroy that is requested ends no reservation.
LEMMA DestroyRequestedStep ==
  ASSUME NEW st \in SoundState, NEW s \in Services
  PROVE  StorageStep(st, DestroyRequested(st, s), {})
<1>1. PICK stopped : stopped = StopRequested(st, s)
  OBVIOUS
<1>2. QuietStep(st, stopped, {})
  BY <1>1, StopRequestedQuiet
<1>3. CASE s \notin st.members \/ Rejected(s) \in stopped.out
  BY <1>1, <1>2, <1>3, QuietStorage DEF DestroyRequested
<1>4. CASE ~(s \notin st.members \/ Rejected(s) \in stopped.out)
  <2>1. PICK a : a = stopped.st
    OBVIOUS
  <2>2. a \in SoundState /\ Leads(st, a, {}) /\ LeavesStorage(st, a) /\ Plain(st, stopped.out)
    BY <1>2, <2>1 DEF QuietStep, Quiet, Leads
  <2>3. a.services[s] \in ServiceState /\ SoundService(a.services[s], a.generationCounters[s])
        /\ a \in LifecycleState
    BY <2>2, SoundFields
  <2>4. PICK destroy : destroy = IF a.services[s].destroy = "none" THEN "requested"
                                                                 ELSE a.services[s].destroy
    OBVIOUS
  <2>5. PICK q : q = [a.services[s] EXCEPT !.destroy = destroy]
    OBVIOUS
  <2>6. /\ q \in ServiceState /\ q.phase = a.services[s].phase
        /\ q.waiters = a.services[s].waiters
        /\ q.storageReserved = a.services[s].storageReserved
        /\ q.destroy = destroy
    <3>1. destroy \in {"none", "requested", "reserved"}
      BY <2>3, <2>4 DEF ServiceState
    <3> QED
      BY <2>3, <2>5, <3>1 DEF ServiceState
  <2>7. destroy = "reserved" <=> a.services[s].destroy = "reserved"
    BY <2>4
  <2>8. StorageStep(a, Step(Put(a, s, q), {}), {})
    <3>1. KeepsStorage(a.services[s], q)
      BY <2>6, <2>7 DEF KeepsStorage
    <3> QED
      BY <2>2, <2>3, <2>6, <2>7, <3>1, PutStorage DEF SoundService
  <2>9. DestroyRequested(st, s).st = Put(a, s, q) /\ DestroyRequested(st, s).out = stopped.out
    <3>1. DestroyRequested(st, s)
            = [stopped EXCEPT !.st.services[s].destroy = IF @ = "none" THEN "requested" ELSE @]
      BY <1>1, <1>4 DEF DestroyRequested
    <3>2. DOMAIN stopped = {"st", "out"} /\ stopped = [st |-> stopped.st, out |-> stopped.out]
      BY <1>1 DEF StopRequested, Ignored, Refused, Also, retryCleanups, Step
    <3> QED
      BY <2>1, <2>3, <2>4, <2>5, <3>1, <3>2 DEF Put, LifecycleState, ServiceState
  <2>10. Leads(st, Put(a, s, q), {})
    BY <2>2, <2>8, LeadsOn, StepFields DEF StorageStep
  <2>11. \A t \in Services : KeepsStorage(st.services[t], Put(a, s, q).services[t])
    BY <2>2, <2>8, StepFields DEF StorageStep, LeavesStorage, SameStorage, KeepsStorage
  <2> QED
    BY <2>2, <2>9, <2>10, <2>11 DEF StorageStep
<1> QED
  BY <1>3, <1>4

\* A service that leaves the graph takes only its own reservation with it.
LEMMA GraphUpdatedStep ==
  ASSUME NEW st \in SoundState, NEW s \in Services
  PROVE  StorageStep(st, GraphUpdated(st, s), {s})
<1>1. CASE st.services[s].destroy # "reserved" /\ isActiveForGraphUpdate(st.services[s])
  BY <1>1, RefusedQuiet, QuietStorage DEF GraphUpdated
<1>2. CASE ~(st.services[s].destroy # "reserved" /\ isActiveForGraphUpdate(st.services[s]))
  <2>0. st.services[s] \in ServiceState /\ SoundService(st.services[s], st.generationCounters[s])
        /\ st \in LifecycleState /\ st.generationCounters[s] \in Nat
        /\ st.services[s].phase.generation \in Nat
    BY SoundFields
  <2>1. ~isUpOrWindingDown(st.services[s].phase)
    BY <1>2, <2>0 DEF isActiveForGraphUpdate, SoundService, isUpOrWindingDown
  <2>2. PICK q : q = initialService("stopped")
    OBVIOUS
  <2>3. /\ q \in ServiceState /\ q.phase.tag = "Stopped" /\ q.phase.generation = 0
        /\ q.waiters = {} /\ ~q.storageReserved /\ q.destroy = "none"
    <3>1. Stopped \in Phase /\ Stopped.tag = "Stopped" /\ Stopped.generation = 0
      BY Phases
    <3>2. initialBreaker \in [failures : Nat, openUntil : Nat]
      BY DEF initialBreaker
    <3> QED
      BY <2>2, <3>1, <3>2 DEF initialService, ServiceState
  <2>4. SoundService(q, st.generationCounters[s])
    BY <2>0, <2>3, FS_EmptySet DEF SoundService
  <2>5. PICK a : a = Put(st, s, q)
    OBVIOUS
  <2>6. Leads(st, a, {})
    BY <2>1, <2>3, <2>4, <2>5, PutLeads DEF PhaseKept
  <2>7. a \in LifecycleState /\ a.members = st.members
        /\ \A t \in Services : a.services[t] = IF t = s THEN q ELSE st.services[t]
    <3>1. q \in ServiceState /\ st \in LifecycleState
      BY <2>0, <2>3
    <3>2. a \in LifecycleState /\ a.members = st.members
      BY <2>5, <3>1, PutFields
    <3>3. \A t \in Services : a.services[t] = IF t = s THEN q ELSE st.services[t]
      BY <2>5, <3>1, PutServices
    <3> QED
      BY <3>2, <3>3
  <2>8. PICK new : new = [a EXCEPT !.members = @ \ {s}]
    OBVIOUS
  <2>9. /\ new \in LifecycleState /\ new.members = a.members \ {s}
        /\ new.services = a.services /\ new.generationCounters = a.generationCounters
    BY <2>7, <2>8 DEF LifecycleState
  <2>10. new \in SoundState
    BY <2>6, <2>9 DEF Leads, SoundState, Sound
  <2>11. Leads(st, new, {})
    BY <2>6, <2>9, <2>10 DEF Leads
  <2>12. \A t \in Services \ {s} : KeepsStorage(st.services[t], new.services[t])
    BY <2>7, <2>9 DEF KeepsStorage
  <2>13. GraphUpdated(st, s) = Step(new, {})
    BY <1>2, <2>2, <2>5, <2>8 DEF GraphUpdated
  <2>14. Plain(st, {})
    BY DEF Plain
  <2> QED
    BY <2>11, <2>12, <2>13, <2>14, StepFields DEF StorageStep
<1> QED
  BY <1>1, <1>2

-----------------------------------------------------------------------------
(* The settling pass.                                                      *)

\* One service's turn, from p to q and from its next generation n to m: it goes
\* on as it was, or what was down is launched as generation n.
TurnOf(s, p, n, q, m, out) ==
  /\ q \in ServiceState /\ m \in Nat /\ SoundService(q, m) /\ SameStorage(p, q)
  /\ out \subseteq LifecycleCommands
  /\ \A x \in out : x.id = s /\ (x.tag \in {"Stop", "Reprobe"} => x.generation \in 1..(m - 1))
  /\ \/ /\ m = n /\ PhaseKept(p.phase, q.phase)
        /\ \A x \in out : x.tag # "Launch"
     \/ /\ m = n + 1 /\ ~isUpOrWindingDown(p.phase)
        /\ isUpOrWindingDown(q.phase) /\ q.phase.generation = n
        /\ \A x \in out : x.tag = "Launch" => x.generation = n

\* A turn that launches begins a new generation of a service that had none.
LEMMA LaunchTurn ==
  ASSUME NEW st \in SoundState, NEW s \in Services, MayLaunch(st, s)
  PROVE  TurnOf(s, st.services[s], st.generationCounters[s], launch(st, s).st.services[s],
                launch(st, s).st.generationCounters[s], launch(st, s).out)
<1>1. PICK g : g = st.generationCounters[s]
  OBVIOUS
<1>2. PICK q : q = [st.services[s] EXCEPT !.phase = Starting(g), !.relaunchForced = FALSE,
                                         !.readinessFailure = FALSE, !.reprobing = FALSE]
  OBVIOUS
<1>3. PICK a : a = Put(st, s, q)
  OBVIOUS
<1>4. PICK new : new = [a EXCEPT !.generationCounters[s] = g + 1]
  OBVIOUS
<1>5. launch(st, s) = Step(new, {LifecycleCommand("Launch", s, g)})
  BY <1>1, <1>2, <1>3, <1>4 DEF launch, NextGeneration
<1>6. /\ st.services[s] \in ServiceState /\ g \in Nat /\ st \in LifecycleState
      /\ st.services[s].phase.generation \in Nat
      /\ SoundService(st.services[s], g)
  BY <1>1, SoundFields
<1>7. Starting(g) \in Phase /\ Starting(g).tag = "Starting" /\ Starting(g).generation = g
  BY <1>6, Phases
<1>8. /\ q \in ServiceState /\ q.phase = Starting(g) /\ SameStorage(st.services[s], q)
      /\ q.waiters = st.services[s].waiters
  BY <1>2, <1>6, <1>7 DEF ServiceState, SameStorage
<1>9. a \in LifecycleState /\ a.services[s] = q
  <2>1. q \in ServiceState /\ st \in LifecycleState
    BY <1>6, <1>8
  <2>2. a \in LifecycleState
    BY <1>3, <2>1, PutFields
  <2>3. a.services[s] = q
    BY <1>3, <2>1, PutServices
  <2> QED
    BY <2>2, <2>3
<1>10. new.services[s] = q /\ new.generationCounters[s] = g + 1
  BY <1>4, <1>9 DEF LifecycleState
<1>11. SoundService(q, g + 1)
  <2>1. g # 0
    BY <1>6 DEF SoundService
  <2>2. ~st.services[s].storageReserved
    BY DEF MayLaunch
  <2> QED
    BY <1>6, <1>7, <1>8, <2>1, <2>2 DEF SoundService, SameStorage
<1>12. {LifecycleCommand("Launch", s, g)} \subseteq LifecycleCommands
  BY <1>6 DEF LifecycleCommand, LifecycleCommands
<1>13. \A x \in {LifecycleCommand("Launch", s, g)} :
         x.id = s /\ x.tag = "Launch" /\ x.generation = g
  BY DEF LifecycleCommand
<1>14. ~isUpOrWindingDown(st.services[s].phase) /\ isUpOrWindingDown(q.phase)
  BY <1>7, <1>8 DEF MayLaunch, isUpOrWindingDown
<1>15. TurnOf(s, st.services[s], g, q, g + 1, {LifecycleCommand("Launch", s, g)})
  BY <1>6, <1>7, <1>8, <1>11, <1>12, <1>13, <1>14 DEF TurnOf
<1> QED
  BY <1>1, <1>5, <1>10, <1>15, StepFields

\* What one step of a running service's turn may do.
Rests(st, s, step) ==
  /\ QuietStep(st, step, {})
  /\ step.st.services[s].phase = st.services[s].phase
  /\ \A x \in step.out : x.id = s

\* A turn that replaces one service and keeps its phase starts nothing.
LEMMA PutRests ==
  ASSUME NEW st \in SoundState, NEW s \in Services, NEW q \in ServiceState, NEW out,
         q.phase = st.services[s].phase, SameStorage(st.services[s], q), IsFiniteSet(q.waiters),
         Plain(st, out), \A x \in out : x.id = s
  PROVE  Rests(st, s, Step(Put(st, s, q), out))
<1>1. Quiet(st, Put(st, s, q), {})
  BY StaysQuiet
<1>2. Put(st, s, q).services[s] = q
  BY SoundMembers, PutServices
<1> QED
  BY <1>1, <1>2, StepFields DEF Rests, QuietStep

\* Nothing done starts nothing.
LEMMA IgnoredRests ==
  ASSUME NEW st \in SoundState, NEW s \in Services
  PROVE  Rests(st, s, Ignored(st))
BY IgnoredQuiet, StepFields DEF Rests, Ignored

\* A check that is asked for starts nothing.
LEMMA ReprobeRests ==
  ASSUME NEW st \in SoundState, NEW s \in Services, st.services[s].phase.tag = "Running"
  PROVE  Rests(st, s, reprobe(st, s))
<1>1. CASE NeedsCheck(st, s)
  <2>0. st.services[s] \in ServiceState /\ IsFiniteSet(st.services[s].waiters)
        /\ st.services[s].phase.generation \in 1..(st.generationCounters[s] - 1)
        /\ st.generationCounters[s] \in Nat
    BY SoundFields DEF SoundService
  <2>1. PICK q : q = [st.services[s] EXCEPT !.reprobing = TRUE]
    OBVIOUS
  <2>2. PICK out : out = {LifecycleCommand("Reprobe", s, st.services[s].phase.generation)}
    OBVIOUS
  <2>3. /\ q \in ServiceState /\ q.phase = st.services[s].phase
        /\ SameStorage(st.services[s], q) /\ q.waiters = st.services[s].waiters
    BY <2>0, <2>1 DEF ServiceState, SameStorage
  <2>4. Plain(st, out) /\ \A x \in out : x.id = s
    BY <2>0, <2>2 DEF Plain, LifecycleCommand, LifecycleCommands
  <2>5. Rests(st, s, Step(Put(st, s, q), out))
    BY <2>0, <2>3, <2>4, PutRests
  <2> QED
    BY <1>1, <2>1, <2>2, <2>5 DEF reprobe
<1>2. CASE ~NeedsCheck(st, s)
  BY <1>2, IgnoredRests DEF reprobe
<1> QED
  BY <1>1, <1>2

\* Waiters that are admitted start nothing.
LEMMA AdmitRests ==
  ASSUME NEW st \in SoundState, NEW s \in Services
  PROVE  Rests(st, s, admit(st, s))
<1>1. PICK admitted : admitted = {w \in st.services[s].waiters : prerequisitesSatisfied(st, s)
                                    /\ (~w.requireReady \/ st.services[s].phase.ready)}
  OBVIOUS
<1>2. PICK traffic : traffic = {w \in admitted : w.kind = "traffic"}
  OBVIOUS
<1>3. st.services[s] \in ServiceState /\ IsFiniteSet(st.services[s].waiters)
  BY SoundFields DEF SoundService
<1>4. Cardinality(traffic) \in Nat
  <2>1. traffic \in SUBSET st.services[s].waiters
    BY <1>1, <1>2
  <2>2. IsFiniteSet(traffic)
    BY <1>3, <2>1, FS_Subset
  <2> QED
    BY <2>2, FS_CardinalityType
<1>5. PICK q : q = [st.services[s] EXCEPT !.waiters = @ \ admitted, !.leases = @ + Cardinality(traffic)]
  OBVIOUS
<1>6. /\ q \in ServiceState /\ q.phase = st.services[s].phase
      /\ SameStorage(st.services[s], q) /\ q.waiters = st.services[s].waiters \ admitted
  <2>1. PICK p : p = st.services[s]
    OBVIOUS
  <2>2. PICK n \in Nat : n = p.leases + Cardinality(traffic)
    BY <1>3, <1>4, <2>1 DEF ServiceState
  <2>3. PICK W \in SUBSET Waiter : W = p.waiters \ admitted
    BY <1>3, <2>1 DEF ServiceState
  <2>4. q = [p EXCEPT !.waiters = W, !.leases = n]
    BY <1>5, <2>1, <2>2, <2>3
  <2>5. p \in ServiceState
    BY <1>3, <2>1
  <2>6. q \in ServiceState /\ q.phase = p.phase /\ SameStorage(p, q) /\ q.waiters = W
    BY <2>4, <2>5 DEF ServiceState, SameStorage
  <2> QED
    BY <2>1, <2>3, <2>6
<1>7. IsFiniteSet(q.waiters)
  BY <1>3, <1>6, FS_Subset
<1>8. PICK out : out = {Admit(s, w.client) : w \in admitted}
  OBVIOUS
<1>9. Plain(st, out) /\ \A x \in out : x.id = s
  <2>1. \A w \in admitted : w.client \in Clients
    BY <1>1, <1>3 DEF ServiceState, Waiter
  <2>2. \A x \in out : \E c \in Clients : x = Admit(s, c)
    BY <1>8, <2>1
  <2> QED
    BY <2>2 DEF Plain, Admit, WaiterCommand, LifecycleCommands
<1>10. admit(st, s) = Step(Put(st, s, q), out)
  BY <1>1, <1>2, <1>5, <1>8 DEF admit
<1>11. Rests(st, s, Step(Put(st, s, q), out))
  BY <1>6, <1>7, <1>9, PutRests
<1> QED
  BY <1>10, <1>11

\* An idle timer that is armed starts nothing.
LEMMA IdleRests ==
  ASSUME NEW st \in SoundState, NEW s \in Services
  PROVE  Rests(st, s, idle(st, s))
<1>1. PICK service : service = st.services[s]
  OBVIOUS
<1>2. service \in ServiceState /\ IsFiniteSet(service.waiters) /\ service.phase.generation \in Nat
  BY <1>1, SoundFields DEF SoundService
<1>3. PICK q : q = [service EXCEPT !.idleArmedEpoch = 0]
  OBVIOUS
<1>4. PICK epoch : epoch = service.idleEpoch + 1
  OBVIOUS
<1>5. PICK r : r = [service EXCEPT !.idleEpoch = epoch, !.idleArmedEpoch = epoch]
  OBVIOUS
<1>6. PICK out : out = {[tag |-> "ArmIdleTimer", id |-> s, generation |-> service.phase.generation,
                         epoch |-> epoch]}
  OBVIOUS
<1>7. /\ q \in ServiceState /\ q.phase = service.phase
      /\ SameStorage(service, q) /\ q.waiters = service.waiters
  BY <1>2, <1>3 DEF ServiceState, SameStorage
<1>8. epoch \in Nat
  BY <1>2, <1>4 DEF ServiceState
<1>9. /\ r \in ServiceState /\ r.phase = service.phase
      /\ SameStorage(service, r) /\ r.waiters = service.waiters
  BY <1>2, <1>5, <1>8 DEF ServiceState, SameStorage
<1>10. Plain(st, out) /\ \A x \in out : x.id = s
  BY <1>2, <1>6, <1>8 DEF Plain, LifecycleCommands
<1>11. Rests(st, s, Step(Put(st, s, q), {}))
  <2>1. Plain(st, {})
    BY DEF Plain
  <2> QED
    BY <1>1, <1>2, <1>7, <2>1, PutRests
<1>12. Rests(st, s, Step(Put(st, s, r), out))
  BY <1>1, <1>2, <1>9, <1>10, PutRests
<1>13. Rests(st, s, Ignored(st))
  BY IgnoredRests
<1>14. \/ idle(st, s) = Step(Put(st, s, q), {})
       \/ idle(st, s) = Step(Put(st, s, r), out)
       \/ idle(st, s) = Ignored(st)
  BY <1>1, <1>3, <1>4, <1>5, <1>6 DEF idle
<1> QED
  BY <1>11, <1>12, <1>13, <1>14

\* One turn of the pass: a launch, or a turn that starts nothing.
LEMMA SettleServiceTurn ==
  ASSUME NEW st \in SoundState, NEW s \in Services
  PROVE  TurnOf(s, st.services[s], st.generationCounters[s], settleService(st, s).st.services[s],
                settleService(st, s).st.generationCounters[s], settleService(st, s).out)
<1>1. CASE s \in st.members /\ MayLaunch(st, s)
  BY <1>1, LaunchTurn DEF settleService
<1>2. ASSUME NEW step, Rests(st, s, step)
      PROVE  TurnOf(s, st.services[s], st.generationCounters[s], step.st.services[s],
                    step.st.generationCounters[s], step.out)
  <2>1. step.st \in SoundState /\ step.st.generationCounters = st.generationCounters
    BY <1>2 DEF Rests, QuietStep, Quiet, Leads
  <2>2. step.st.services[s] \in ServiceState /\ st.generationCounters[s] \in Nat
        /\ SoundService(step.st.services[s], st.generationCounters[s])
    BY <2>1, SoundFields
  <2>3. SameStorage(st.services[s], step.st.services[s])
        /\ PhaseKept(st.services[s].phase, step.st.services[s].phase)
    BY <1>2 DEF Rests, QuietStep, Quiet, LeavesStorage, PhaseKept
  <2>4. /\ step.out \subseteq LifecycleCommands
        /\ \A x \in step.out : /\ x.id = s /\ x.tag # "Launch"
                               /\ x.tag \in {"Stop", "Reprobe"} =>
                                    x.generation \in 1..(st.generationCounters[s] - 1)
    BY <1>2 DEF Rests, QuietStep, Plain
  <2> QED
    BY <2>1, <2>2, <2>3, <2>4 DEF TurnOf
<1>3. CASE ~(s \in st.members /\ MayLaunch(st, s)) /\ s \in st.members
           /\ st.services[s].phase.tag = "Running"
  <2>1. PICK probed : probed = reprobe(st, s)
    OBVIOUS
  <2>2. Rests(st, s, probed)
    BY <1>3, <2>1, ReprobeRests
  <2>3. PICK admitted : admitted = admit(probed.st, s)
    OBVIOUS
  <2>4. probed.st \in SoundState
    BY <2>2 DEF Rests, QuietStep, Quiet, Leads
  <2>5. Rests(probed.st, s, admitted)
    BY <2>3, <2>4, AdmitRests
  <2>6. admitted.st \in SoundState
    BY <2>5 DEF Rests, QuietStep, Quiet, Leads
  <2>7. PICK rests : rests = idle(admitted.st, s)
    OBVIOUS
  <2>8. Rests(admitted.st, s, rests)
    BY <2>6, <2>7, IdleRests
  <2>9. settleService(st, s) = Also(rests, probed.out \union admitted.out)
    BY <1>3, <2>1, <2>3, <2>7 DEF settleService
  <2>10. rests = Step(rests.st, rests.out)
    BY <2>7 DEF idle, Ignored, Step
  <2>11. Also(rests, probed.out \union admitted.out)
           = Step(rests.st, rests.out \union (probed.out \union admitted.out))
    BY <2>10, AlsoFields
  <2>12. Quiet(st, rests.st, {})
    BY <2>2, <2>5, <2>8, QuietOn DEF Rests, QuietStep
  <2>13. Plain(st, probed.out) /\ Plain(st, admitted.out) /\ Plain(st, rests.out)
    BY <2>2, <2>5, <2>8, QuietOn, PlainOn DEF Rests, QuietStep, Quiet
  <2>14. Rests(st, s, Step(rests.st, rests.out \union (probed.out \union admitted.out)))
    <3>1. Plain(st, rests.out \union (probed.out \union admitted.out))
      BY <2>13, PlainUnion
    <3>2. rests.st.services[s].phase = st.services[s].phase
      BY <2>2, <2>5, <2>8 DEF Rests
    <3>3. \A x \in rests.out \union (probed.out \union admitted.out) : x.id = s
      BY <2>2, <2>5, <2>8 DEF Rests
    <3> QED
      BY <2>12, <3>1, <3>2, <3>3, StepFields DEF Rests, QuietStep
  <2> QED
    BY <1>2, <2>9, <2>11, <2>14
<1>4. CASE ~(s \in st.members /\ MayLaunch(st, s))
           /\ ~(s \in st.members /\ st.services[s].phase.tag = "Running")
  BY <1>2, <1>4, IgnoredRests DEF settleService
<1> QED
  BY <1>1, <1>3, <1>4

\* A pending destroy takes the storage of a stopped service that is free.
LEMMA ReserveLeads ==
  ASSUME NEW st \in SoundState
  PROVE  /\ Leads(st, reserve(st), {})
         /\ reserve(st).members = st.members
         /\ \A s \in Services : KeepsStorage(st.services[s], reserve(st).services[s])
<1>1. PICK sv : sv = [s \in Services |->
                        IF s \in st.members /\ Reserves(st.services[s])
                          THEN [st.services[s] EXCEPT !.destroy = "reserved", !.storageReserved = TRUE]
                          ELSE st.services[s]]
  OBVIOUS
<1>2. PICK new : new = [st EXCEPT !.services = sv]
  OBVIOUS
<1>3. reserve(st) = new
  BY <1>1, <1>2 DEF reserve
<1>4. ASSUME NEW s \in Services
      PROVE  /\ sv[s] \in ServiceState /\ SoundService(sv[s], st.generationCounters[s])
             /\ sv[s].phase = st.services[s].phase /\ KeepsStorage(st.services[s], sv[s])
  <2>1. st.services[s] \in ServiceState /\ SoundService(st.services[s], st.generationCounters[s])
    BY SoundFields
  <2>2. PICK q : q = [st.services[s] EXCEPT !.destroy = "reserved", !.storageReserved = TRUE]
    OBVIOUS
  <2>3. /\ q \in ServiceState /\ q.phase = st.services[s].phase
        /\ q.waiters = st.services[s].waiters /\ q.storageReserved
    BY <2>1, <2>2 DEF ServiceState
  <2>4. CASE s \in st.members /\ Reserves(st.services[s])
    <3>1. sv[s] = q
      BY <1>1, <2>2, <2>4
    <3>2. st.services[s].phase.tag = "Stopped" /\ ~st.services[s].storageReserved
      BY <2>4 DEF Reserves
    <3> QED
      BY <2>1, <2>3, <3>1, <3>2 DEF SoundService, KeepsStorage
  <2>5. CASE ~(s \in st.members /\ Reserves(st.services[s]))
    BY <1>1, <2>1, <2>5 DEF KeepsStorage
  <2> QED
    BY <2>4, <2>5
<1>5. sv \in [Services -> ServiceState]
  BY <1>1, <1>4
<1>6. new \in LifecycleState /\ new.members = st.members /\ new.services = sv
      /\ new.generationCounters = st.generationCounters
  BY <1>2, <1>5, ServicesFields
<1>7. new \in SoundState
  BY <1>4, <1>6 DEF SoundState, Sound
<1> QED
  BY <1>3, <1>4, <1>6, <1>7 DEF Leads, PhaseKept

\* What reduced events and their settling do to each service: it keeps its
\* generation, or what was down, or is over, is launched as its next one.
ServiceAdvances(st, new, s, out, over) ==
  \/ /\ new.generationCounters[s] = st.generationCounters[s]
     /\ s \in over \/ PhaseKept(st.services[s].phase, new.services[s].phase)
     /\ \A x \in out : ~(x.tag = "Launch" /\ x.id = s)
  \/ /\ new.generationCounters[s] = st.generationCounters[s] + 1
     /\ s \in over \/ ~isUpOrWindingDown(st.services[s].phase)
     /\ isUpOrWindingDown(new.services[s].phase)
     /\ new.services[s].phase.generation = st.generationCounters[s]
     /\ \A x \in out : x.tag = "Launch" /\ x.id = s => x.generation = st.generationCounters[s]

Advances(st, new, out, over) ==
  /\ new \in SoundState
  /\ new.members \subseteq st.members
  /\ out \subseteq LifecycleCommands
  /\ \A x \in out : x.tag \in {"Stop", "Reprobe"} =>
       x.generation \in 1..(new.generationCounters[x.id] - 1)
  /\ \A s \in Services : ServiceAdvances(st, new, s, out, over)

\* The reservations of all services but Ss are kept.
KeepsStorages(st, new, Ss) ==
  \A s \in Services \ Ss : KeepsStorage(st.services[s], new.services[s])

\* An event that leads on advances the state.
LEMMA LeadsAdvances ==
  ASSUME NEW st, NEW new, NEW out, NEW over, Leads(st, new, over), Plain(st, out)
  PROVE  Advances(st, new, out, over)
BY DEF Leads, Plain, Advances, ServiceAdvances

\* Reservations are kept by one step after another.
LEMMA KeepsStoragesOn ==
  ASSUME NEW a, NEW b, NEW c, NEW Ss, NEW Ts \in SUBSET Ss, NEW Us \in SUBSET Ss,
         KeepsStorages(a, b, Ts), KeepsStorages(b, c, Us)
  PROVE  KeepsStorages(a, c, Ss)
BY DEF KeepsStorages, KeepsStorage

\* One reduction after another: a service that one launches is up for the next.
LEMMA AdvancesOn ==
  ASSUME NEW st \in SoundState, NEW a, NEW b, NEW o1, NEW o2, NEW over,
         Advances(st, a, o1, over), Advances(a, b, o2, {})
  PROVE  Advances(st, b, o1 \union o2, over)
<1>1. a \in SoundState /\ b \in SoundState /\ b.members \subseteq st.members
      /\ o1 \union o2 \subseteq LifecycleCommands
  BY DEF Advances
<1>2. ASSUME NEW s \in Services
      PROVE  /\ st.generationCounters[s] \in Nat /\ a.generationCounters[s] \in Nat
             /\ b.generationCounters[s] \in Nat
             /\ a.generationCounters[s] <= b.generationCounters[s]
  BY <1>1, SoundFields DEF Advances, ServiceAdvances
<1>3. ASSUME NEW x \in o1 \union o2, x.tag \in {"Stop", "Reprobe"}
      PROVE  x.generation \in 1..(b.generationCounters[x.id] - 1)
  <2>1. x.id \in Services
    BY <1>1 DEF LifecycleCommands
  <2> QED
    BY <1>2, <1>3, <2>1 DEF Advances
<1>4. ASSUME NEW s \in Services
      PROVE  ServiceAdvances(st, b, s, o1 \union o2, over)
  <2>1. ServiceAdvances(st, a, s, o1, over) /\ ServiceAdvances(a, b, s, o2, {})
    BY DEF Advances
  <2>2. CASE a.generationCounters[s] = st.generationCounters[s]
    <3>1. CASE b.generationCounters[s] = a.generationCounters[s]
      BY <1>2, <2>1, <2>2, <3>1 DEF ServiceAdvances, PhaseKept
    <3>2. CASE b.generationCounters[s] = a.generationCounters[s] + 1
      BY <1>2, <2>1, <2>2, <3>2 DEF ServiceAdvances, PhaseKept
    <3> QED
      BY <2>1, <3>1, <3>2 DEF ServiceAdvances
  <2>3. CASE a.generationCounters[s] = st.generationCounters[s] + 1
    BY <1>2, <2>1, <2>3 DEF ServiceAdvances, PhaseKept
  <2> QED
    BY <2>1, <2>2, <2>3 DEF ServiceAdvances
<1> QED
  BY <1>1, <1>3, <1>4 DEF Advances

\* What the pass itself commands.
Turns(st) == UNION {settleService(reserve(st), s).out : s \in Services}

\* The pass takes every turn of its services, and no turn undoes another.
LEMMA SettleAdvances ==
  ASSUME NEW step, step.st \in SoundState
  PROVE  /\ settle(step).out = step.out \union Turns(step.st)
         /\ Advances(step.st, settle(step).st, Turns(step.st), {})
         /\ KeepsStorages(step.st, settle(step).st, {})
<1>1. PICK r : r = reserve(step.st)
  OBVIOUS
<1>2. r \in SoundState /\ Leads(step.st, r, {}) /\ KeepsStorages(step.st, r, {})
  BY <1>1, ReserveLeads DEF Leads, KeepsStorages
<1>3. PICK sv : sv = [s \in Services |-> settleService(r, s).st.services[s]]
  OBVIOUS
<1>4. PICK gc : gc = [s \in Services |-> settleService(r, s).st.generationCounters[s]]
  OBVIOUS
<1>5. PICK new : new = [r EXCEPT !.services = sv, !.generationCounters = gc]
  OBVIOUS
<1>6. PICK out : out = Turns(step.st)
  OBVIOUS
<1>7. settle(step) = Step(new, step.out \union out)
  BY <1>1, <1>3, <1>4, <1>5, <1>6 DEF settle, Turns
<1>8. ASSUME NEW s \in Services
      PROVE  TurnOf(s, r.services[s], r.generationCounters[s], sv[s], gc[s], settleService(r, s).out)
  BY <1>2, <1>3, <1>4, SettleServiceTurn
<1>9. /\ new \in LifecycleState /\ new.services = sv /\ new.generationCounters = gc
      /\ new.members = r.members
  <2>1. sv \in [Services -> ServiceState] /\ gc \in [Services -> Nat]
    BY <1>3, <1>4, <1>8 DEF TurnOf
  <2>2. r \in LifecycleState
    BY <1>2, SoundMembers
  <2> QED
    BY <1>5, <2>1, <2>2 DEF LifecycleState
<1>10. new \in SoundState
  BY <1>8, <1>9 DEF TurnOf, SoundState, Sound
<1>11. \A x \in out : x.id \in Services /\ x \in settleService(r, x.id).out
  <2>1. \A x \in out : \E s \in Services : x \in settleService(r, s).out
    BY <1>1, <1>6 DEF Turns
  <2>2. \A s \in Services : \A x \in settleService(r, s).out : x.id = s
    BY <1>8 DEF TurnOf
  <2> QED
    BY <2>1, <2>2
<1>12. Advances(r, new, out, {})
  <2>1. out \subseteq LifecycleCommands
    BY <1>8, <1>11 DEF TurnOf
  <2>2. ASSUME NEW x \in out, x.tag \in {"Stop", "Reprobe"}
        PROVE  x.generation \in 1..(new.generationCounters[x.id] - 1)
    BY <1>8, <1>9, <1>11, <2>2 DEF TurnOf
  <2>3. ASSUME NEW s \in Services
        PROVE  ServiceAdvances(r, new, s, out, {})
    <3>1. TurnOf(s, r.services[s], r.generationCounters[s], sv[s], gc[s], settleService(r, s).out)
      BY <1>8
    <3>2. \A x \in out : x.id = s => x \in settleService(r, s).out
      BY <1>11
    <3> QED
      BY <1>9, <3>1, <3>2 DEF TurnOf, ServiceAdvances
  <2> QED
    BY <1>9, <1>10, <2>1, <2>2, <2>3 DEF Advances
<1>13. Advances(step.st, new, out, {})
  <2>1. Advances(step.st, r, {}, {})
    <3>1. Plain(step.st, {})
      BY DEF Plain
    <3> QED
      BY <1>2, <3>1, LeadsAdvances
  <2>2. Advances(step.st, new, {} \union out, {})
    BY <1>12, <2>1, AdvancesOn
  <2> QED
    BY <2>2
<1>14. KeepsStorages(r, new, {})
  BY <1>8, <1>9 DEF TurnOf, KeepsStorages, KeepsStorage, SameStorage
<1>15. KeepsStorages(step.st, new, {})
  BY <1>2, <1>14, KeepsStoragesOn
<1> QED
  BY <1>6, <1>7, <1>13, <1>15, StepFields

\* An event and the pass that settles it.
LEMMA SettledAdvances ==
  ASSUME NEW st \in SoundState, NEW step, NEW over, Leads(st, step.st, over), Plain(st, step.out)
  PROVE  /\ Advances(st, settle(step).st, settle(step).out, over)
         /\ \A Ss : KeepsStorages(st, step.st, Ss) => KeepsStorages(st, settle(step).st, Ss)
         /\ step.out \subseteq settle(step).out
<1>1. step.st \in SoundState
  BY DEF Leads
<1>2. /\ settle(step).out = step.out \union Turns(step.st)
      /\ Advances(step.st, settle(step).st, Turns(step.st), {})
      /\ KeepsStorages(step.st, settle(step).st, {})
  BY <1>1, SettleAdvances
<1>3. Advances(st, step.st, step.out, over)
  BY LeadsAdvances
<1>4. Advances(st, settle(step).st, settle(step).out, over)
  BY <1>2, <1>3, AdvancesOn
<1>5. ASSUME NEW Ss, KeepsStorages(st, step.st, Ss)
      PROVE  KeepsStorages(st, settle(step).st, Ss)
  BY <1>2, <1>5, KeepsStoragesOn
<1> QED
  BY <1>2, <1>4, <1>5
-----------------------------------------------------------------------------
(* What an event that no execution reports does to the phases: nothing goes *)
(* up, and what goes down has its stop commanded, and nothing above it.      *)

\* The readiness a service is in, and what the reducer waits for.
SameHealth(p, q) ==
  q.phase = p.phase /\ q.readinessFailure = p.readinessFailure /\ q.reprobing = p.reprobing

\* A service that winds down has its stop under way, unless its cleanup failed.
WindsDown(p) == p.phase.tag = "Stopping" /\ ~p.cleanupFailure

CalmService(s, p, q, out) ==
  /\ Stoppable(q) => SameHealth(p, q)
  /\ q.phase.tag # "Stopped" => q.phase.generation = p.phase.generation
  /\ q.breaker.failures <= p.breaker.failures
  /\ WindsDown(q) => WindsDown(p) \/ Stop(s, q.phase.generation) \in out

\* No stop is commanded of what is up, and nothing else of any execution.
CalmOut(new, out) ==
  \A x \in out : /\ x.tag \notin {"Launch", "Reprobe"}
                 /\ x.tag = "Stop" => ~UpAt(new.services[x.id], x.generation)

Calm(st, new, out) ==
  /\ \A s \in Services : CalmService(s, st.services[s], new.services[s], out)
  /\ CalmOut(new, out)
  /\ Rooted(st) => Rooted(new)

CalmStep(st, step) == Calm(st, step.st, step.out)

\* Commands of no execution.
Silent(out) == \A x \in out : x.tag \notin {"Launch", "Stop", "Reprobe"}

\* Admissions, failures, rejections and timers are commands of no execution.
LEMMA SilentCommands ==
  /\ Silent({})
  /\ \A s, c : Silent({Fail(s, c)}) /\ Silent({Admit(s, c)}) /\ Silent({Rejected(s)})
  /\ \A s, W : Silent({Fail(s, w.client) : w \in W})
  /\ \A s, p : Silent(failAllWaiters(s, p))
  /\ \A s, b : Silent(cooldown(s, b))
BY DEF Silent, Fail, Admit, WaiterCommand, Rejected, failAllWaiters, cooldown, LifecycleCommand

\* A stop command, field by field.
LEMMA StopFields ==
  \A s, g : Stop(s, g).tag = "Stop" /\ Stop(s, g).id = s /\ Stop(s, g).generation = g
BY DEF Stop, LifecycleCommand

\* A phase that winds down, field by field.
LEMMA StoppingFields ==
  \A g : Stopping(g, FALSE).tag = "Stopping" /\ Stopping(g, FALSE).generation = g
BY DEF Stopping, PhaseOf

\* Breakers only count.
LEMMA FailuresTyped ==
  ASSUME NEW st \in SoundState, NEW s \in Services
  PROVE  st.services[s].breaker.failures \in Nat
BY SoundFields DEF ServiceState

\* A step that leaves everything is calm, and commands may be left out of account.
LEMMA CalmSame ==
  ASSUME NEW st \in SoundState, NEW out, Silent(out)
  PROVE  Calm(st, st, out)
BY FailuresTyped DEF Calm, CalmService, SameHealth, CalmOut, Silent

\* One calm step after another.
LEMMA CalmOn ==
  ASSUME NEW st \in SoundState, NEW a \in SoundState, NEW b \in SoundState, NEW o1, NEW o2,
         \A x \in o1 : x.tag = "Stop" => x.id \in Services,
         Calm(st, a, o1), Calm(a, b, o2)
  PROVE  Calm(st, b, o1 \union o2)
<1>1. ASSUME NEW s \in Services
      PROVE  CalmService(s, st.services[s], b.services[s], o1 \union o2)
  <2>1. CalmService(s, st.services[s], a.services[s], o1) /\ CalmService(s, a.services[s], b.services[s], o2)
    BY DEF Calm
  <2>2. /\ st.services[s].breaker.failures \in Nat /\ a.services[s].breaker.failures \in Nat
        /\ b.services[s].breaker.failures \in Nat
    BY FailuresTyped
  <2>3. Stoppable(b.services[s]) => SameHealth(st.services[s], b.services[s])
    BY <2>1 DEF CalmService, SameHealth, Stoppable
  <2>4. b.services[s].breaker.failures <= st.services[s].breaker.failures
    BY <2>1, <2>2 DEF CalmService
  <2>5. b.services[s].phase.tag # "Stopped" => a.services[s].phase.tag # "Stopped"
    <3>1. /\ SoundService(a.services[s], a.generationCounters[s])
          /\ SoundService(b.services[s], b.generationCounters[s])
      BY SoundFields
    <3> QED
      BY <2>1, <3>1 DEF CalmService, SoundService
  <2> QED
    BY <2>1, <2>3, <2>4, <2>5 DEF CalmService, WindsDown
<1>2. CalmOut(b, o1 \union o2)
  <2>1. ASSUME NEW x \in o1, x.tag = "Stop"
        PROVE  ~UpAt(b.services[x.id], x.generation)
    <3>1. x.id \in Services /\ ~UpAt(a.services[x.id], x.generation)
      BY <2>1 DEF Calm, CalmOut
    <3> QED
      BY <3>1 DEF Calm, CalmService, SameHealth, UpAt, Stoppable
  <2> QED
    BY <2>1 DEF Calm, CalmOut
<1> QED
  BY <1>1, <1>2 DEF Calm

\* One service replaced: if it stops running, nothing that needs it is up.
LEMMA CalmPut ==
  ASSUME NEW st \in SoundState, NEW s \in Services, NEW q \in ServiceState, NEW out,
         CalmService(s, st.services[s], q, out),
         \A x \in out : /\ x.tag \notin {"Launch", "Reprobe"}
                        /\ x.tag = "Stop" => x.id = s /\ ~UpAt(q, x.generation),
         st.services[s].phase.tag = "Running" /\ q.phase.tag # "Running" =>
           \A d \in Dependents(st, s) : ~Stoppable(st.services[d])
  PROVE  Calm(st, Put(st, s, q), out)
<1>1. \A t \in Services : Put(st, s, q).services[t] = IF t = s THEN q ELSE st.services[t]
  BY SoundMembers, PutServices
<1>2. Put(st, s, q).members = st.members
  BY SoundMembers, PutFields
<1>3. ASSUME NEW t \in Services
      PROVE  CalmService(t, st.services[t], Put(st, s, q).services[t], out)
  BY <1>1, FailuresTyped DEF CalmService, SameHealth
<1>4. CalmOut(Put(st, s, q), out)
  BY <1>1 DEF CalmOut
<1>5. ASSUME Rooted(st), NEW t \in Services, Stoppable(Put(st, s, q).services[t])
      PROVE  /\ t \in st.members
             /\ \A p \in prerequisiteClosure[t] :
                  p \in st.members /\ Put(st, s, q).services[p].phase.tag = "Running"
  <2>1. Stoppable(st.services[t])
    BY <1>3, <1>5 DEF CalmService, SameHealth, Stoppable
  <2>2. t \in st.members
    BY <1>5, <2>1 DEF Rooted
  <2>3. ASSUME NEW p \in prerequisiteClosure[t]
        PROVE  p \in st.members /\ Put(st, s, q).services[p].phase.tag = "Running"
    <3>1. p \in Services
      BY DEF prerequisiteClosure
    <3>2. p \in st.members /\ st.services[p].phase.tag = "Running"
      BY <1>5, <2>1 DEF Rooted
    <3>3. p = s => t \in Dependents(st, s)
      BY <2>2 DEF Dependents, transitiveDependents
    <3> QED
      BY <1>1, <2>1, <3>1, <3>2, <3>3
  <2> QED
    BY <2>2, <2>3
<1>6. Rooted(st) => Rooted(Put(st, s, q))
  BY <1>2, <1>5 DEF Rooted
<1> QED
  BY <1>3, <1>4, <1>6 DEF Calm

\* A service replaced by one at the same phase.
LEMMA CalmStays ==
  ASSUME NEW st \in SoundState, NEW s \in Services, NEW q \in ServiceState, NEW out, Silent(out),
         SameHealth(st.services[s], q), q.cleanupFailure = st.services[s].cleanupFailure,
         q.breaker.failures <= st.services[s].breaker.failures
  PROVE  Calm(st, Put(st, s, q), out)
<1>1. CalmService(s, st.services[s], q, out)
  BY DEF CalmService, SameHealth, WindsDown
<1> QED
  BY <1>1, CalmPut DEF Silent, SameHealth

\* All services replaced by ones at the same phases.
LEMMA CalmEach ==
  ASSUME NEW st \in SoundState, NEW sv \in [Services -> ServiceState],
         NEW new, new = [st EXCEPT !.services = sv], NEW out,
         \A d \in Services : /\ SameHealth(st.services[d], sv[d])
                             /\ sv[d].breaker.failures = st.services[d].breaker.failures
                             /\ WindsDown(sv[d]) => \/ WindsDown(st.services[d])
                                                    \/ Stop(d, sv[d].phase.generation) \in out,
         \A x \in out : /\ x.tag \notin {"Launch", "Reprobe"}
                        /\ x.tag = "Stop" => ~UpAt(st.services[x.id], x.generation) /\ x.id \in Services
  PROVE  Calm(st, new, out)
<1>1. new.services = sv /\ new.members = st.members
  BY ServicesFields
<1>2. ASSUME NEW d \in Services
      PROVE  CalmService(d, st.services[d], new.services[d], out)
  BY <1>1, FailuresTyped DEF CalmService, SameHealth
<1>3. CalmOut(new, out)
  BY <1>1 DEF CalmOut, UpAt, Stoppable, SameHealth
<1>4. Rooted(st) => Rooted(new)
  <2>1. \A s \in Services : \A p \in prerequisiteClosure[s] : p \in Services
    BY DEF prerequisiteClosure
  <2> QED
    BY <1>1, <2>1 DEF Rooted, SameHealth, Stoppable
<1> QED
  BY <1>2, <1>3, <1>4 DEF Calm

-----------------------------------------------------------------------------
\* The helpers that several events share are calm.
LEMMA ToldCalm ==
  ASSUME NEW st \in SoundState, NEW s \in Services
  PROVE  /\ CalmStep(st, failExplicitDependentWaiters(st, s))
         /\ Silent(failExplicitDependentWaiters(st, s).out)
         /\ \A d \in Services :
              LET p == st.services[d]
                  q == failExplicitDependentWaiters(st, s).st.services[d]
              IN SameHealth(p, q) /\ q.cleanupFailure = p.cleanupFailure /\ q.breaker = p.breaker
<1>1. PICK sv : sv = [d \in Services |->
                        IF d \in Dependents(st, s)
                          THEN [st.services[d] EXCEPT !.waiters = @ \ Explicit(st.services[d])]
                          ELSE st.services[d]]
  OBVIOUS
<1>2. PICK out : out = UNION {{Fail(d, w.client) : w \in Explicit(st.services[d])} : d \in Dependents(st, s)}
  OBVIOUS
<1>3. PICK new : new = [st EXCEPT !.services = sv]
  OBVIOUS
<1>4. failExplicitDependentWaiters(st, s) = Step(new, out)
  BY <1>1, <1>2, <1>3 DEF failExplicitDependentWaiters
<1>5. ASSUME NEW d \in Services
      PROVE  /\ sv[d] \in ServiceState /\ SameHealth(st.services[d], sv[d])
             /\ sv[d].cleanupFailure = st.services[d].cleanupFailure
             /\ sv[d].breaker = st.services[d].breaker
  <2>1. st.services[d] \in ServiceState
    BY SoundFields
  <2> QED
    BY <1>1, <2>1 DEF ServiceState, SameHealth
<1>6. Silent(out)
  BY <1>2 DEF Silent, Fail, WaiterCommand
<1>7. sv \in [Services -> ServiceState]
  BY <1>1, <1>5
<1>8. new.services = sv
  BY <1>3, <1>7, ServicesFields
<1>9. Calm(st, new, out)
  BY <1>3, <1>5, <1>6, <1>7, CalmEach DEF Silent, WindsDown, SameHealth
<1> QED
  BY <1>4, <1>5, <1>6, <1>8, <1>9, StepFields DEF CalmStep

\* A blocked cleanup that is tried again has a stop under way.
LEMMA RetryCalm ==
  ASSUME NEW st \in SoundState, NEW Ss
  PROVE  CalmStep(st, retryCleanups(st, Ss))
<1>1. PICK sv : sv = [s \in Services |->
                        IF s \in CleanupsPending(st, Ss)
                          THEN [st.services[s] EXCEPT !.cleanupFailure = FALSE] ELSE st.services[s]]
  OBVIOUS
<1>2. PICK out : out = {Stop(s, st.services[s].phase.generation) : s \in CleanupsPending(st, Ss)}
  OBVIOUS
<1>3. PICK new : new = [st EXCEPT !.services = sv]
  OBVIOUS
<1>4. retryCleanups(st, Ss) = Step(new, out)
  BY <1>1, <1>2, <1>3 DEF retryCleanups
<1>5. ASSUME NEW d \in Services
      PROVE  /\ sv[d] \in ServiceState /\ SameHealth(st.services[d], sv[d])
             /\ sv[d].breaker = st.services[d].breaker
             /\ d \notin CleanupsPending(st, Ss) => sv[d] = st.services[d]
  <2>1. st.services[d] \in ServiceState
    BY SoundFields
  <2> QED
    BY <1>1, <2>1 DEF ServiceState, SameHealth
<1>6. ASSUME NEW d \in Services, WindsDown(sv[d])
      PROVE  WindsDown(st.services[d]) \/ Stop(d, sv[d].phase.generation) \in out
  BY <1>2, <1>5, <1>6 DEF SameHealth
<1>7. ASSUME NEW x \in out
      PROVE  x.tag = "Stop" /\ ~UpAt(st.services[x.id], x.generation) /\ x.id \in Services
  <2>1. PICK s \in CleanupsPending(st, Ss) : x = Stop(s, st.services[s].phase.generation)
    BY <1>2
  <2>2. x.tag = "Stop" /\ x.id = s
    BY <2>1 DEF Stop, LifecycleCommand
  <2> QED
    BY <2>2, SoundMembers DEF CleanupsPending, UpAt, Stoppable
<1>8. sv \in [Services -> ServiceState]
  BY <1>1, <1>5
<1>9. Calm(st, new, out)
  BY <1>3, <1>5, <1>6, <1>7, <1>8, CalmEach
<1> QED
  BY <1>4, <1>9, StepFields DEF CalmStep

\* An idle timer armed again is calm.
LEMMA RearmCalm ==
  ASSUME NEW st \in SoundState, NEW s \in Services
  PROVE  Calm(st, rearmPrerequisites(st, s), {})
<1>1. PICK sv : sv = [p \in Services |->
                        IF p \in prerequisiteClosure[s] \intersect st.members
                           /\ st.services[p].intent = "stopped"
                          THEN [st.services[p] EXCEPT !.intent = Activation[p]] ELSE st.services[p]]
  OBVIOUS
<1>2. rearmPrerequisites(st, s) = [st EXCEPT !.services = sv]
  BY <1>1 DEF rearmPrerequisites
<1>3. ASSUME NEW d \in Services
      PROVE  /\ sv[d] \in ServiceState /\ SameHealth(st.services[d], sv[d])
             /\ sv[d].cleanupFailure = st.services[d].cleanupFailure
             /\ sv[d].breaker = st.services[d].breaker
  <2>1. st.services[d] \in ServiceState /\ Activation[d] \in {"eager", "lazy"}
    BY SoundFields, LifecycleAssumption
  <2> QED
    BY <1>1, <2>1 DEF ServiceState, SameHealth
<1>4. sv \in [Services -> ServiceState]
  BY <1>1, <1>3
<1> QED
  BY <1>2, <1>3, <1>4, CalmEach DEF WindsDown, SameHealth

-----------------------------------------------------------------------------
(* Each event.                                                             *)

\* Nothing done is calm.
LEMMA IgnoredCalm ==
  ASSUME NEW st \in SoundState
  PROVE  CalmStep(st, Ignored(st))
BY CalmSame, SilentCommands, StepFields DEF CalmStep, Ignored

\* A refusal is calm.
LEMMA RefusedCalm ==
  ASSUME NEW st \in SoundState, NEW s
  PROVE  CalmStep(st, Refused(st, s))
BY CalmSame, SilentCommands, StepFields DEF CalmStep, Refused

\* What rests when its idle time is over: nothing above it is up.
LEMMA IdleElapsedCalm ==
  ASSUME NEW st \in SoundState, NEW s, NEW g, NEW epoch
  PROVE  CalmStep(st, IdleElapsed(st, s, g, epoch))
<1>1. CASE /\ AtPhase(st, s, g, {"Running"}) /\ st.services[s].idleArmedEpoch = epoch
           /\ ~hasDemand(st, s)
  <2>1. PICK q : q = [st.services[s] EXCEPT !.phase = Stopping(g, FALSE), !.idleArmedEpoch = 0]
    OBVIOUS
  <2>2. /\ s \in Services /\ st.services[s].phase.generation = g /\ g \in Nat
        /\ st.services[s].phase.tag = "Running"
    BY <1>1, RunningFacts
  <2>3. /\ Stopping(g, FALSE) \in Phase /\ Stopping(g, FALSE).tag = "Stopping"
        /\ Stopping(g, FALSE).generation = g
    BY <2>2, Phases
  <2>4. /\ q \in ServiceState /\ q.phase = Stopping(g, FALSE)
        /\ q.breaker = st.services[s].breaker
    <3>1. st.services[s] \in ServiceState
      BY <2>2, SoundFields
    <3> QED
      BY <2>1, <2>3, <3>1 DEF ServiceState
  <2>5. IdleElapsed(st, s, g, epoch) = Step(Put(st, s, q), {Stop(s, g)})
    BY <1>1, <2>1 DEF IdleElapsed
  <2>6. CalmService(s, st.services[s], q, {Stop(s, g)})
    <3>1. q.breaker.failures <= st.services[s].breaker.failures
      BY <2>2, <2>4, FailuresTyped
    <3>2. ~Stoppable(q) /\ q.phase.generation = g
      BY <2>3, <2>4 DEF Stoppable
    <3> QED
      BY <2>2, <3>1, <3>2 DEF CalmService
  <2>7. \A d \in Dependents(st, s) : ~Stoppable(st.services[d])
    BY <1>1 DEF hasDemand, isUpOrWindingDown, Stoppable
  <2>8. \A x \in {Stop(s, g)} : /\ x.tag \notin {"Launch", "Reprobe"}
                                /\ x.tag = "Stop" => x.id = s /\ ~UpAt(q, x.generation)
    <3>1. ~UpAt(q, g)
      BY <2>3, <2>4 DEF UpAt, Stoppable
    <3> QED
      BY <3>1, StopFields
  <2>9. Calm(st, Put(st, s, q), {Stop(s, g)})
    BY <2>2, <2>4, <2>6, <2>7, <2>8, CalmPut
  <2> QED
    BY <2>5, <2>9, StepFields DEF CalmStep
<1>2. CASE ~(/\ AtPhase(st, s, g, {"Running"}) /\ st.services[s].idleArmedEpoch = epoch
             /\ ~hasDemand(st, s))
  BY <1>2, IgnoredCalm DEF IdleElapsed
<1> QED
  BY <1>1, <1>2

\* A cooldown that ends is calm.
LEMMA CooldownElapsedCalm ==
  ASSUME NEW st \in SoundState, NEW s, NEW openUntil
  PROVE  CalmStep(st, CooldownElapsed(st, s, openUntil))
<1>1. CASE s \in st.members /\ st.services[s].breaker.openUntil = openUntil
  <2>1. s \in Services /\ st.services[s] \in ServiceState
    BY <1>1, SoundMembers, SoundFields
  <2>2. PICK q : q = [st.services[s] EXCEPT !.breaker.openUntil = 0]
    OBVIOUS
  <2>3. /\ q \in ServiceState /\ SameHealth(st.services[s], q)
        /\ q.cleanupFailure = st.services[s].cleanupFailure
        /\ q.breaker.failures = st.services[s].breaker.failures
    BY <2>1, <2>2 DEF ServiceState, SameHealth
  <2>4. CooldownElapsed(st, s, openUntil) = Step(Put(st, s, q), {})
    BY <1>1, <2>2 DEF CooldownElapsed
  <2> QED
    BY <2>1, <2>3, <2>4, CalmStays, FailuresTyped, SilentCommands, StepFields DEF CalmStep
<1>2. CASE ~(s \in st.members /\ st.services[s].breaker.openUntil = openUntil)
  BY <1>2, IgnoredCalm DEF CooldownElapsed
<1> QED
  BY <1>1, <1>2

\* A service replaced, and its blocked cleanups tried again.
LEMMA RetriedCalm ==
  ASSUME NEW st \in SoundState, NEW a \in SoundState, NEW out, NEW Ss, Calm(st, a, out),
         \A x \in out : x.tag = "Stop" => x.id \in Services
  PROVE  /\ retryCleanups(a, Ss).st \in SoundState
         /\ Calm(st, retryCleanups(a, Ss).st, out \union retryCleanups(a, Ss).out)
         /\ \A x \in out \union retryCleanups(a, Ss).out : x.tag = "Stop" => x.id \in Services
<1>1. PICK retried : retried = retryCleanups(a, Ss)
  OBVIOUS
<1>2. retried.st \in SoundState /\ retried.out \subseteq LifecycleCommands
  BY <1>1, RetryQuiet DEF QuietStep, Quiet, Leads, Plain
<1>3. Calm(a, retried.st, retried.out)
  BY <1>1, RetryCalm DEF CalmStep
<1>4. \A x \in retried.out : x.tag = "Stop" => x.id \in Services
  BY <1>2 DEF LifecycleCommands
<1> QED
  BY <1>1, <1>2, <1>3, <1>4, CalmOn

\* A waiter that is opened is calm, whether admitted, failed or queued.
LEMMA OpenWaiterCalm ==
  ASSUME NEW st \in SoundState, NEW s, NEW c \in Clients, NEW requireReady \in BOOLEAN,
         NEW kind \in {"traffic", "explicit"}
  PROVE  CalmStep(st, openWaiter(st, s, c, requireReady, kind))
<1>1. CASE s \notin st.members
  BY <1>1, IgnoredCalm DEF openWaiter
<1>2. CASE s \in st.members
  <2>1. s \in Services /\ st.services[s] \in ServiceState /\ IsFiniteSet(st.services[s].waiters)
    BY <1>2, SoundMembers, SoundFields DEF SoundService
  <2>2. CalmStep(st, Step(st, {Fail(s, c)})) /\ CalmStep(st, Step(st, {Admit(s, c)}))
    BY CalmSame, SilentCommands, StepFields DEF CalmStep
  <2>3. PICK q : q = [st.services[s] EXCEPT !.leases = @ + 1]
    OBVIOUS
  <2>4. /\ q \in ServiceState /\ SameHealth(st.services[s], q) /\ q.breaker = st.services[s].breaker
        /\ q.cleanupFailure = st.services[s].cleanupFailure
    BY <2>1, <2>3 DEF ServiceState, SameHealth
  <2>5. CalmStep(st, Step(Put(st, s, q), {Admit(s, c)}))
    <3>0. Silent({Admit(s, c)})
      BY SilentCommands
    <3>1. q.breaker.failures <= st.services[s].breaker.failures
      BY <2>1, <2>4, FailuresTyped
    <3>2. Calm(st, Put(st, s, q), {Admit(s, c)})
      BY <2>1, <2>4, <3>0, <3>1, CalmStays
    <3> QED
      BY <3>2, StepFields DEF CalmStep
  <2>6. PICK w : w = [client |-> c, kind |-> kind, requireReady |-> requireReady]
    OBVIOUS
  <2>7. PICK r : r = [st.services[s] EXCEPT !.waiters = @ \union {w}]
    OBVIOUS
  <2>8. /\ r \in ServiceState /\ SameHealth(st.services[s], r) /\ r.breaker = st.services[s].breaker
        /\ r.cleanupFailure = st.services[s].cleanupFailure
        /\ SameStorage(st.services[s], r) /\ r.waiters = st.services[s].waiters \union {w}
    <3>1. w \in Waiter
      BY <2>6 DEF Waiter
    <3> QED
      BY <2>1, <2>7, <3>1 DEF ServiceState, SameHealth, SameStorage
  <2>9. PICK a : a = Put(st, s, r)
    OBVIOUS
  <2>10. a \in SoundState
    <3>1. IsFiniteSet(r.waiters)
      BY <2>1, <2>8, FS_AddElement
    <3> QED
      BY <2>1, <2>8, <2>9, <3>1, StaysQuiet DEF Quiet, Leads, SameHealth
  <2>11. Calm(st, a, {})
    BY <2>1, <2>8, <2>9, CalmStays, FailuresTyped, SilentCommands
  <2>12. CalmStep(st, retryBlockedCleanup(a, s))
    <3>1. Calm(st, retryBlockedCleanup(a, s).st, {} \union retryBlockedCleanup(a, s).out)
      BY <2>10, <2>11, RetriedCalm DEF retryBlockedCleanup
    <3> QED
      BY <3>1 DEF CalmStep
  <2> QED
    BY <1>2, <2>2, <2>3, <2>5, <2>6, <2>7, <2>9, <2>12 DEF openWaiter
<1> QED
  BY <1>1, <1>2

\* So are both of its requests.
LEMMA ConnectionOpenedCalm ==
  ASSUME NEW st \in SoundState, NEW s, NEW c \in Clients, NEW requireReady \in BOOLEAN
  PROVE  /\ CalmStep(st, ConnectionOpened(st, s, c, requireReady))
         /\ CalmStep(st, ReadinessAwaited(st, s, c, requireReady))
BY OpenWaiterCalm DEF ConnectionOpened, ReadinessAwaited

\* An event that only replaces one service, at the same phase.
LEMMA PutCalm ==
  ASSUME NEW st \in SoundState, NEW s \in Services, NEW q \in ServiceState, NEW step,
         SameHealth(st.services[s], q), q.cleanupFailure = st.services[s].cleanupFailure,
         q.breaker = st.services[s].breaker, step = Step(Put(st, s, q), {})
  PROVE  CalmStep(st, step)
BY CalmStays, FailuresTyped, SilentCommands, StepFields DEF CalmStep

\* A connection that closes is calm.
LEMMA ConnectionClosedCalm ==
  ASSUME NEW st \in SoundState, NEW s \in Services
  PROVE  CalmStep(st, ConnectionClosed(st, s))
<1>1. st.services[s] \in ServiceState /\ st \in LifecycleState
  BY SoundFields
<1>2. PICK n : n = IF st.services[s].leases = 0 THEN 0 ELSE st.services[s].leases - 1
  OBVIOUS
<1>3. n \in Nat
  BY <1>1, <1>2 DEF ServiceState
<1>4. PICK q : q = [st.services[s] EXCEPT !.leases = n]
  OBVIOUS
<1>5. /\ q \in ServiceState /\ SameHealth(st.services[s], q) /\ q.breaker = st.services[s].breaker
      /\ q.cleanupFailure = st.services[s].cleanupFailure
  BY <1>1, <1>3, <1>4 DEF ServiceState, SameHealth
<1>6. ConnectionClosed(st, s) = Step(Put(st, s, q), {})
  BY <1>1, <1>2, <1>4 DEF ConnectionClosed, Put, LifecycleState
<1> QED
  BY <1>5, <1>6, PutCalm

\* A waiter that is cancelled is calm.
LEMMA WaiterCancelledCalm ==
  ASSUME NEW st \in SoundState, NEW s \in Services, NEW c
  PROVE  CalmStep(st, WaiterCancelled(st, s, c))
<1>1. st.services[s] \in ServiceState /\ st \in LifecycleState
  BY SoundFields
<1>2. PICK W : W = {w \in st.services[s].waiters : w.client # c}
  OBVIOUS
<1>3. PICK q : q = [st.services[s] EXCEPT !.waiters = W]
  OBVIOUS
<1>4. /\ q \in ServiceState /\ SameHealth(st.services[s], q) /\ q.breaker = st.services[s].breaker
      /\ q.cleanupFailure = st.services[s].cleanupFailure
  BY <1>1, <1>2, <1>3 DEF ServiceState, SameHealth
<1>5. WaiterCancelled(st, s, c) = Step(Put(st, s, q), {})
  BY <1>1, <1>2, <1>3 DEF WaiterCancelled, Put, LifecycleState
<1> QED
  BY <1>4, <1>5, PutCalm

\* An arming is calm.
LEMMA ArmRequestedCalm ==
  ASSUME NEW st \in SoundState, NEW s
  PROVE  CalmStep(st, ArmRequested(st, s))
<1>1. CASE s \in st.members /\ st.services[s].destroy = "none"
  <2>1. s \in Services /\ st.services[s] \in ServiceState /\ Activation[s] \in {"eager", "lazy"}
    BY <1>1, SoundMembers, SoundFields, LifecycleAssumption
  <2>2. PICK q : q = [st.services[s] EXCEPT !.intent = Activation[s], !.breaker = initialBreaker]
    OBVIOUS
  <2>3. /\ q \in ServiceState /\ SameHealth(st.services[s], q) /\ q.breaker.failures = 0
        /\ q.cleanupFailure = st.services[s].cleanupFailure
    <3>1. initialBreaker \in [failures : Nat, openUntil : Nat] /\ initialBreaker.failures = 0
      BY DEF initialBreaker
    <3> QED
      BY <2>1, <2>2, <3>1 DEF ServiceState, SameHealth
  <2>4. ArmRequested(st, s) = Step(Put(st, s, q), {})
    BY <1>1, <2>2 DEF ArmRequested
  <2> QED
    BY <2>1, <2>3, <2>4, CalmStays, FailuresTyped, SilentCommands, StepFields DEF CalmStep
<1>2. CASE ~(s \in st.members /\ st.services[s].destroy = "none")
  BY <1>2, IgnoredCalm DEF ArmRequested
<1> QED
  BY <1>1, <1>2

\* What a stop or a restart does to its service before it retries its cleanup.
LEMMA StoppedCalm ==
  ASSUME NEW st \in SoundState, NEW s \in Services, NEW q \in ServiceState, NEW phase,
         activeDependents(st, s) = {}, q.phase = phase,
         \/ ~Stoppable(st.services[s]) /\ phase = st.services[s].phase
         \/ Stoppable(st.services[s]) /\ phase = Stopping(st.services[s].phase.generation, FALSE)
         \/ phase.tag = "Stopped" /\ ~Stoppable(st.services[s]),
         q.cleanupFailure = st.services[s].cleanupFailure,
         q.breaker.failures <= st.services[s].breaker.failures,
         NEW out, Silent(out)
  PROVE  Calm(st, Put(st, s, q), out \union StopNow(s, st.services[s]))
<1>1. PICK p : p = st.services[s]
  OBVIOUS
<1>2. p.phase.generation \in Nat
  BY <1>1, SoundFields
<1>3. PICK now : now = StopNow(s, p)
  OBVIOUS
<1>4. ASSUME NEW d \in Dependents(st, s)
      PROVE  ~Stoppable(st.services[d])
  BY DEF activeDependents, dependentIsActive, isUpOrWindingDown, Stoppable
<1>5. CASE ~Stoppable(p)
  <2>1. ~Stoppable(q)
    BY <1>1, <1>5 DEF Stoppable
  <2>2. WindsDown(q) => WindsDown(p)
    BY <1>1, <1>5 DEF WindsDown
  <2>3. q.phase.tag # "Stopped" => q.phase.generation = p.phase.generation
    BY <1>1, <1>5
  <2>4. CalmService(s, p, q, out)
    BY <1>1, <2>1, <2>2, <2>3 DEF CalmService
  <2>5. now = {}
    BY <1>3, <1>5 DEF StopNow
  <2>6. p.phase.tag # "Running"
    BY <1>5 DEF Stoppable
  <2>7. Calm(st, Put(st, s, q), out)
    BY <1>1, <2>4, <2>6, CalmPut DEF Silent
  <2> QED
    BY <1>1, <1>3, <2>5, <2>7
<1>6. CASE Stoppable(p)
  <2>0. PICK g : g = p.phase.generation
    OBVIOUS
  <2>1. /\ phase.tag = "Stopping" /\ phase.generation = g
    <3>1. phase = Stopping(g, FALSE)
      BY <1>1, <1>6, <2>0
    <3> QED
      BY <3>1, StoppingFields
  <2>2. ~Stoppable(q) /\ ~UpAt(q, g)
    BY <2>1 DEF Stoppable, UpAt
  <2>3. now = {Stop(s, g)}
    BY <1>3, <1>6, <2>0 DEF StopNow
  <2>4. CalmService(s, p, q, out \union now)
    BY <1>1, <2>0, <2>1, <2>2, <2>3 DEF CalmService
  <2>5. \A x \in out \union now : /\ x.tag \notin {"Launch", "Reprobe"}
                                  /\ x.tag = "Stop" => x.id = s /\ ~UpAt(q, x.generation)
    BY <2>2, <2>3, StopFields DEF Silent
  <2> QED
    BY <1>1, <1>3, <1>4, <2>4, <2>5, CalmPut
<1> QED
  BY <1>5, <1>6

\* A stop that is commanded at once is of the service itself.
LEMMA StopNowIds ==
  ASSUME NEW s \in Services, NEW p
  PROVE  \A x \in StopNow(s, p) : x.id \in Services
BY StopFields DEF StopNow

\* A stop is calm: all that stands on the stopped goes down with it.
LEMMA StopRequestedCalm ==
  ASSUME NEW st \in SoundState, NEW s
  PROVE  CalmStep(st, StopRequested(st, s))
<1>1. CASE s \notin st.members
  BY <1>1, IgnoredCalm DEF StopRequested
<1>2. CASE s \in st.members /\ activeDependents(st, s) # {}
  BY <1>2, RefusedCalm DEF StopRequested
<1>3. CASE s \in st.members /\ activeDependents(st, s) = {}
  <2>0. s \in Services
    BY <1>3, SoundMembers
  <2>1. PICK p : p = st.services[s]
    OBVIOUS
  <2>2. p \in ServiceState /\ p.phase \in Phase /\ p.phase.generation \in Nat
    BY <2>0, <2>1, SoundFields
  <2>3. PICK phase : phase = CASE Stoppable(p) -> Stopping(p.phase.generation, FALSE)
                               [] p.phase.tag = "Failed" -> Stopped
                               [] OTHER -> p.phase
    OBVIOUS
  <2>4. /\ phase \in Phase
        /\ \/ ~Stoppable(p) /\ phase = p.phase
           \/ Stoppable(p) /\ phase = Stopping(p.phase.generation, FALSE)
           \/ ~Stoppable(p) /\ phase.tag = "Stopped" /\ p.phase.tag = "Failed" /\ phase.generation = 0
    <3>1. CASE Stoppable(p)
      BY <2>2, <2>3, <3>1, Phases DEF Stoppable
    <3>2. CASE ~Stoppable(p) /\ p.phase.tag = "Failed"
      BY <2>2, <2>3, <3>2, Phases
    <3>3. CASE ~Stoppable(p) /\ p.phase.tag # "Failed"
      BY <2>2, <2>3, <3>3
    <3> QED
      BY <3>1, <3>2, <3>3
  <2>5. PICK q : q = [p EXCEPT !.intent = "stopped", !.waiters = {},
                               !.relaunchForced = FALSE, !.phase = phase]
    OBVIOUS
  <2>6. /\ q \in ServiceState /\ q.phase = phase /\ q.cleanupFailure = p.cleanupFailure
        /\ q.breaker = p.breaker /\ SameStorage(p, q) /\ q.waiters = {}
    BY <2>2, <2>4, <2>5 DEF ServiceState, SameStorage
  <2>7. PICK a : a = Put(st, s, q)
    OBVIOUS
  <2>8. a \in SoundState
    <3>0. Stoppable(p) => phase.tag = "Stopping" /\ phase.generation = p.phase.generation
      BY <2>4, StoppingFields
    <3>1. Follows(p, q) /\ PhaseKept(p.phase, q.phase)
      BY <2>4, <2>6, <3>0, FS_EmptySet DEF Follows, PhaseKept, isUpOrWindingDown, Stoppable
    <3> QED
      BY <2>0, <2>1, <2>6, <2>7, <3>1, PutQuiet DEF Quiet, Leads
  <2>9. PICK told : told = failAllWaiters(s, p)
    OBVIOUS
  <2>10. Silent(told)
    BY <2>9, SilentCommands
  <2>11. Calm(st, a, told \union StopNow(s, p))
    <3>1. q.breaker.failures <= p.breaker.failures
      BY <2>0, <2>1, <2>6, FailuresTyped
    <3> QED
      BY <1>3, <2>0, <2>1, <2>4, <2>6, <2>7, <2>10, <3>1, StoppedCalm
  <2>12. PICK retried : retried = retryCleanups(a, {s})
    OBVIOUS
  <2>13. Calm(st, retried.st, (told \union StopNow(s, p)) \union retried.out)
    <3>1. \A x \in told \union StopNow(s, p) : x.tag = "Stop" => x.id \in Services
      BY <2>0, <2>10, StopNowIds DEF Silent
    <3> QED
      BY <2>8, <2>11, <2>12, <3>1, RetriedCalm
  <2>14. StopRequested(st, s)
           = Step(retried.st, retried.out \union (failAllWaiters(s, p) \union StopNow(s, p)))
    <3>1. StopRequested(st, s) = Also(retried, failAllWaiters(s, p) \union StopNow(s, p))
      BY <1>3, <2>1, <2>3, <2>5, <2>7, <2>12 DEF StopRequested
    <3>2. retried = Step(retried.st, retried.out)
      BY <2>12 DEF retryCleanups, Step
    <3>3. Also(Step(retried.st, retried.out), failAllWaiters(s, p) \union StopNow(s, p))
            = Step(retried.st, retried.out \union (failAllWaiters(s, p) \union StopNow(s, p)))
      BY AlsoFields
    <3> QED
      BY <3>1, <3>2, <3>3
  <2>15. retried.out \union (failAllWaiters(s, p) \union StopNow(s, p))
           = (told \union StopNow(s, p)) \union retried.out
    BY <2>9
  <2> QED
    BY <2>13, <2>14, <2>15, StepFields DEF CalmStep
<1> QED
  BY <1>1, <1>2, <1>3

\* A service replaced, its blocked cleanup retried and its prerequisites armed.
LEMMA RestartedCalm ==
  ASSUME NEW st \in SoundState, NEW a \in SoundState, NEW s \in Services, NEW out, Calm(st, a, out),
         \A x \in out : x.tag = "Stop" => x.id \in Services
  PROVE  Calm(st, rearmPrerequisites(retryCleanups(a, {s}).st, s),
              out \union retryCleanups(a, {s}).out)
<1>0. PICK Ss : Ss = {s}
  OBVIOUS
<1>1. PICK retried : retried = retryCleanups(a, {s})
  OBVIOUS
<1>2. /\ retried.st \in SoundState
      /\ Calm(st, retried.st, out \union retried.out)
      /\ \A x \in out \union retried.out : x.tag = "Stop" => x.id \in Services
  <2>1. /\ retryCleanups(a, Ss).st \in SoundState
        /\ Calm(st, retryCleanups(a, Ss).st, out \union retryCleanups(a, Ss).out)
        /\ \A x \in out \union retryCleanups(a, Ss).out : x.tag = "Stop" => x.id \in Services
    BY RetriedCalm, ZenonT(30)
  <2>2. retried = retryCleanups(a, Ss)
    BY <1>0, <1>1
  <2>3. retried.st \in SoundState
    BY <2>1, <2>2
  <2>4. Calm(st, retried.st, out \union retried.out)
    BY <2>1, <2>2
  <2>5. \A x \in out \union retried.out : x.tag = "Stop" => x.id \in Services
    BY <2>1, <2>2
  <2> QED
    BY <2>3, <2>4, <2>5
<1>3. PICK new : new = rearmPrerequisites(retried.st, s)
  OBVIOUS
<1>4. new \in SoundState /\ Calm(retried.st, new, {})
  BY <1>2, <1>3, RearmQuiet, RearmCalm DEF Quiet, Leads
<1>5. Calm(st, new, (out \union retried.out) \union {})
  BY <1>2, <1>4, CalmOn
<1> QED
  BY <1>1, <1>3, <1>5

\* A start is calm; the pass launches.
LEMMA StartRequestedCalm ==
  ASSUME NEW st \in SoundState, NEW s
  PROVE  CalmStep(st, StartRequested(st, s))
<1>1. CASE s \notin st.members
  BY <1>1, IgnoredCalm DEF StartRequested
<1>2. CASE s \in st.members /\ st.services[s].destroy # "none"
  BY <1>2, RefusedCalm DEF StartRequested
<1>3. CASE s \in st.members /\ st.services[s].destroy = "none"
  <2>1. s \in Services /\ st.services[s] \in ServiceState /\ IsFiniteSet(st.services[s].waiters)
        /\ Activation[s] \in {"eager", "lazy"}
    BY <1>3, SoundMembers, SoundFields, LifecycleAssumption DEF SoundService
  <2>2. PICK forced : forced = (st.services[s].relaunchForced
                                 \/ st.services[s].phase.tag \in {"Stopped", "Failed", "Stopping"})
    OBVIOUS
  <2>3. PICK q : q = [st.services[s] EXCEPT !.intent = Activation[s], !.breaker = initialBreaker,
                               !.relaunchForced = forced]
    OBVIOUS
  <2>4. /\ q \in ServiceState /\ SameHealth(st.services[s], q) /\ q.breaker.failures = 0
        /\ q.cleanupFailure = st.services[s].cleanupFailure
        /\ SameStorage(st.services[s], q) /\ q.waiters = st.services[s].waiters
    <3>1. /\ initialBreaker \in [failures : Nat, openUntil : Nat] /\ initialBreaker.failures = 0
          /\ forced \in BOOLEAN
      BY <2>2 DEF initialBreaker
    <3> QED
      BY <2>1, <2>3, <3>1 DEF ServiceState, SameStorage, SameHealth
  <2>5. PICK a : a = Put(st, s, q)
    OBVIOUS
  <2>6. a \in SoundState
    BY <2>1, <2>4, <2>5, StaysQuiet DEF Quiet, Leads, SameHealth
  <2>7. Calm(st, a, {})
    BY <2>1, <2>4, <2>5, CalmStays, FailuresTyped, SilentCommands
  <2>8. StartRequested(st, s) = Step(rearmPrerequisites(retryCleanups(a, {s}).st, s),
                                     retryCleanups(a, {s}).out)
    BY <1>3, <2>2, <2>3, <2>5 DEF StartRequested
  <2>9. Calm(st, rearmPrerequisites(retryCleanups(a, {s}).st, s),
             {} \union retryCleanups(a, {s}).out)
    BY <2>1, <2>6, <2>7, RestartedCalm
  <2> QED
    BY <2>8, <2>9, StepFields DEF CalmStep
<1> QED
  BY <1>1, <1>2, <1>3

\* A restart is calm: what goes down has its stop commanded.
LEMMA RestartRequestedCalm ==
  ASSUME NEW st \in SoundState, NEW s
  PROVE  CalmStep(st, RestartRequested(st, s))
<1>1. CASE s \notin st.members
  BY <1>1, IgnoredCalm DEF RestartRequested
<1>2. CASE s \in st.members /\ (st.services[s].destroy # "none" \/ activeDependents(st, s) # {})
  BY <1>2, RefusedCalm DEF RestartRequested
<1>3. CASE s \in st.members /\ st.services[s].destroy = "none" /\ activeDependents(st, s) = {}
  <2>0. s \in Services
    BY <1>3, SoundMembers
  <2>1. PICK p : p = st.services[s]
    OBVIOUS
  <2>2. p \in ServiceState /\ p.phase \in Phase /\ p.phase.generation \in Nat
        /\ IsFiniteSet(p.waiters)
    BY <2>0, <2>1, SoundFields DEF SoundService
  <2>3. PICK phase : phase = IF Stoppable(p) THEN Stopping(p.phase.generation, FALSE) ELSE p.phase
    OBVIOUS
  <2>4. /\ phase \in Phase
        /\ \/ ~Stoppable(p) /\ phase = p.phase
           \/ Stoppable(p) /\ phase = Stopping(p.phase.generation, FALSE)
    <3>1. CASE Stoppable(p)
      BY <2>2, <2>3, <3>1, Phases DEF Stoppable
    <3>2. CASE ~Stoppable(p)
      BY <2>2, <2>3, <3>2
    <3> QED
      BY <3>1, <3>2
  <2>5. PICK q : q = [p EXCEPT !.intent = Activation[s], !.breaker = initialBreaker,
                               !.relaunchForced = TRUE, !.phase = phase]
    OBVIOUS
  <2>6. /\ q \in ServiceState /\ q.phase = phase /\ SameStorage(p, q) /\ q.waiters = p.waiters
        /\ q.cleanupFailure = p.cleanupFailure /\ q.breaker.failures = 0
    <3>1. Activation[s] \in {"eager", "lazy"}
      BY <2>0, LifecycleAssumption
    <3>2. initialBreaker \in [failures : Nat, openUntil : Nat] /\ initialBreaker.failures = 0
      BY DEF initialBreaker
    <3> QED
      BY <2>2, <2>4, <2>5, <3>1, <3>2 DEF ServiceState, SameStorage
  <2>7. PICK a : a = Put(st, s, q)
    OBVIOUS
  <2>8. a \in SoundState
    <3>0. Stoppable(p) => phase.tag = "Stopping" /\ phase.generation = p.phase.generation
      BY <2>4, StoppingFields
    <3>1. Follows(p, q) /\ PhaseKept(p.phase, q.phase)
      BY <2>2, <2>4, <2>6, <3>0 DEF Follows, PhaseKept, isUpOrWindingDown, Stoppable
    <3> QED
      BY <2>0, <2>1, <2>6, <2>7, <3>1, PutQuiet DEF Quiet, Leads
  <2>9. Calm(st, a, {} \union StopNow(s, p))
    <3>1. q.breaker.failures <= p.breaker.failures
      BY <2>0, <2>1, <2>6, FailuresTyped
    <3> QED
      BY <1>3, <2>0, <2>1, <2>4, <2>6, <2>7, <3>1, StoppedCalm, SilentCommands
  <2>10. PICK now : now = {} \union StopNow(s, p)
    OBVIOUS
  <2>11. Calm(st, rearmPrerequisites(retryCleanups(a, {s}).st, s),
              now \union retryCleanups(a, {s}).out)
    <3>1. \A x \in now : x.tag = "Stop" => x.id \in Services
      BY <2>0, <2>10, StopNowIds
    <3> QED
      BY <2>0, <2>8, <2>9, <2>10, <3>1, RestartedCalm
  <2>12. RestartRequested(st, s) = Step(rearmPrerequisites(retryCleanups(a, {s}).st, s),
                                        retryCleanups(a, {s}).out \union StopNow(s, p))
    BY <1>3, <2>1, <2>3, <2>5, <2>7 DEF RestartRequested
  <2>13. now \union retryCleanups(a, {s}).out = retryCleanups(a, {s}).out \union StopNow(s, p)
    BY <2>10
  <2> QED
    BY <2>11, <2>12, <2>13, StepFields DEF CalmStep
<1> QED
  BY <1>1, <1>2, <1>3

\* The events about the storage.
LEMMA StorageReservedCalm ==
  ASSUME NEW st \in SoundState, NEW s \in Services
  PROVE  CalmStep(st, StorageReserved(st, s))
<1>1. PICK q : q = [st.services[s] EXCEPT !.storageReserved = TRUE]
  OBVIOUS
<1>2. /\ q \in ServiceState /\ SameHealth(st.services[s], q) /\ q.breaker = st.services[s].breaker
      /\ q.cleanupFailure = st.services[s].cleanupFailure
  <2>1. st.services[s] \in ServiceState
    BY SoundFields
  <2> QED
    BY <1>1, <2>1 DEF ServiceState, SameHealth
<1>3. CalmStep(st, Step(Put(st, s, q), {}))
  BY <1>2, PutCalm
<1>4. \/ StorageReserved(st, s) = Step(Put(st, s, q), {})
      \/ StorageReserved(st, s) = Ignored(st)
      \/ StorageReserved(st, s) = Refused(st, s)
  BY <1>1 DEF StorageReserved
<1> QED
  BY <1>3, <1>4, IgnoredCalm, RefusedCalm

\* A storage release is calm.
LEMMA StorageReleasedCalm ==
  ASSUME NEW st \in SoundState, NEW s \in Services
  PROVE  CalmStep(st, StorageReleased(st, s))
<1>0. st.services[s] \in ServiceState /\ st \in LifecycleState
  BY SoundFields
<1>1. PICK kept \in BOOLEAN :
        kept = (st.services[s].storageReserved /\ st.services[s].destroy = "reserved")
  OBVIOUS
<1>2. PICK q : q = [st.services[s] EXCEPT !.storageReserved = kept]
  OBVIOUS
<1>3. StorageReleased(st, s) = Step(Put(st, s, q), {})
  BY <1>0, <1>1, <1>2 DEF StorageReleased, Put, LifecycleState
<1>4. /\ q \in ServiceState /\ SameHealth(st.services[s], q) /\ q.breaker = st.services[s].breaker
      /\ q.cleanupFailure = st.services[s].cleanupFailure
  BY <1>0, <1>2 DEF ServiceState, SameHealth
<1> QED
  BY <1>3, <1>4, PutCalm

\* A destroy release is calm.
LEMMA DestroyReleasedCalm ==
  ASSUME NEW st \in SoundState, NEW s \in Services
  PROVE  CalmStep(st, DestroyReleased(st, s))
<1>0. st.services[s] \in ServiceState /\ st \in LifecycleState
  BY SoundFields
<1>1. PICK kept \in BOOLEAN :
        kept = (st.services[s].storageReserved /\ st.services[s].destroy # "reserved")
  OBVIOUS
<1>2. PICK q : q = [st.services[s] EXCEPT !.destroy = "none", !.storageReserved = kept]
  OBVIOUS
<1>3. DestroyReleased(st, s) = Step(Put(st, s, q), {})
  BY <1>1, <1>2 DEF DestroyReleased
<1>4. /\ q \in ServiceState /\ SameHealth(st.services[s], q) /\ q.breaker = st.services[s].breaker
      /\ q.cleanupFailure = st.services[s].cleanupFailure
  BY <1>0, <1>2 DEF ServiceState, SameHealth
<1> QED
  BY <1>3, <1>4, PutCalm

\* A destroy is calm: it stops like a stop, and asks for the reservation.
LEMMA DestroyRequestedCalm ==
  ASSUME NEW st \in SoundState, NEW s \in Services
  PROVE  CalmStep(st, DestroyRequested(st, s))
<1>1. PICK stopped : stopped = StopRequested(st, s)
  OBVIOUS
<1>2. CalmStep(st, stopped) /\ QuietStep(st, stopped, {})
  BY <1>1, StopRequestedCalm, StopRequestedQuiet
<1>3. CASE s \notin st.members \/ Rejected(s) \in stopped.out
  BY <1>1, <1>2, <1>3 DEF DestroyRequested
<1>4. CASE ~(s \notin st.members \/ Rejected(s) \in stopped.out)
  <2>1. PICK a : a = stopped.st
    OBVIOUS
  <2>2. a \in SoundState /\ stopped.out \subseteq LifecycleCommands
    BY <1>2, <2>1 DEF QuietStep, Quiet, Leads, Plain
  <2>3. a.services[s] \in ServiceState /\ a \in LifecycleState
        /\ SoundService(a.services[s], a.generationCounters[s])
    BY <2>2, SoundFields
  <2>4. PICK destroy \in {"none", "requested", "reserved"} :
          destroy = IF a.services[s].destroy = "none" THEN "requested" ELSE a.services[s].destroy
    BY <2>3 DEF ServiceState
  <2>5. PICK q : q = [a.services[s] EXCEPT !.destroy = destroy]
    OBVIOUS
  <2>6. /\ q \in ServiceState /\ SameHealth(a.services[s], q) /\ q.breaker = a.services[s].breaker
        /\ q.cleanupFailure = a.services[s].cleanupFailure
        /\ q.waiters = a.services[s].waiters /\ q.storageReserved = a.services[s].storageReserved
        /\ q.destroy = destroy
    BY <2>3, <2>5 DEF ServiceState, SameHealth
  <2>7. Put(a, s, q) \in SoundState
    <3>1. SoundService(q, a.generationCounters[s])
      BY <2>3, <2>4, <2>6 DEF SoundService, SameHealth
    <3> QED
      BY <2>2, <2>6, <3>1, PutLeads DEF Leads, PhaseKept, SameHealth
  <2>8. Calm(a, Put(a, s, q), {})
    BY <2>2, <2>6, PutCalm, StepFields DEF CalmStep
  <2>9. DestroyRequested(st, s).st = Put(a, s, q) /\ DestroyRequested(st, s).out = stopped.out
    <3>1. DestroyRequested(st, s)
            = [stopped EXCEPT !.st.services[s].destroy = IF @ = "none" THEN "requested" ELSE @]
      BY <1>1, <1>4 DEF DestroyRequested
    <3>2. DOMAIN stopped = {"st", "out"} /\ stopped = [st |-> stopped.st, out |-> stopped.out]
      BY <1>1 DEF StopRequested, Ignored, Refused, Also, retryCleanups, Step
    <3> QED
      BY <2>1, <2>3, <2>4, <2>5, <3>1, <3>2 DEF Put, LifecycleState, ServiceState
  <2>10. \A x \in stopped.out : x.tag = "Stop" => x.id \in Services
    BY <2>2 DEF LifecycleCommands
  <2>11. Calm(st, Put(a, s, q), stopped.out \union {})
    BY <1>2, <2>1, <2>2, <2>7, <2>8, <2>10, CalmOn DEF CalmStep
  <2> QED
    BY <2>9, <2>11 DEF CalmStep
<1> QED
  BY <1>3, <1>4

\* What leaves the graph is down, and so is all that needs it.
LEMMA GraphUpdatedCalm ==
  ASSUME NEW st \in SoundState, NEW s \in Services
  PROVE  CalmStep(st, GraphUpdated(st, s))
<1>1. CASE st.services[s].destroy # "reserved" /\ isActiveForGraphUpdate(st.services[s])
  BY <1>1, RefusedCalm DEF GraphUpdated
<1>2. CASE ~(st.services[s].destroy # "reserved" /\ isActiveForGraphUpdate(st.services[s]))
  <2>0. st.services[s] \in ServiceState /\ SoundService(st.services[s], st.generationCounters[s])
        /\ st \in LifecycleState
    BY SoundFields
  <2>1. ~isUpOrWindingDown(st.services[s].phase)
    BY <1>2, <2>0 DEF isActiveForGraphUpdate, SoundService, isUpOrWindingDown
  <2>2. PICK q : q = initialService("stopped")
    OBVIOUS
  <2>3. q \in ServiceState /\ q.phase.tag = "Stopped" /\ q.breaker.failures = 0
    <3>1. Stopped \in Phase /\ Stopped.tag = "Stopped" /\ Stopped.generation = 0
      BY Phases
    <3>2. initialBreaker \in [failures : Nat, openUntil : Nat] /\ initialBreaker.failures = 0
      BY DEF initialBreaker
    <3> QED
      BY <2>2, <3>1, <3>2 DEF initialService, ServiceState
  <2>4. CalmService(s, st.services[s], q, {})
    BY <2>3, FailuresTyped DEF CalmService, Stoppable, WindsDown
  <2>5. PICK a : a = Put(st, s, q)
    OBVIOUS
  <2>6. Calm(st, a, {})
    BY <2>1, <2>3, <2>4, <2>5, CalmPut DEF isUpOrWindingDown
  <2>7. a \in LifecycleState /\ a.members = st.members
        /\ \A t \in Services : a.services[t] = IF t = s THEN q ELSE st.services[t]
    <3>1. q \in ServiceState /\ st \in LifecycleState
      BY <2>0, <2>3
    <3>2. a \in LifecycleState /\ a.members = st.members
      BY <2>5, <3>1, PutFields
    <3>3. \A t \in Services : a.services[t] = IF t = s THEN q ELSE st.services[t]
      BY <2>5, <3>1, PutServices
    <3> QED
      BY <3>2, <3>3
  <2>8. PICK new : new = [a EXCEPT !.members = @ \ {s}]
    OBVIOUS
  <2>9. new.members = a.members \ {s} /\ new.services = a.services
    BY <2>7, <2>8 DEF LifecycleState
  <2>10. Rooted(a) => Rooted(new)
    <3>1. \A t \in Services : \A p \in prerequisiteClosure[t] : p \in Services
      BY DEF prerequisiteClosure
    <3>2. a.services[s].phase.tag = "Stopped"
      BY <2>3, <2>7
    <3> QED
      BY <2>9, <3>1, <3>2 DEF Rooted, Stoppable
  <2>11. Calm(st, new, {})
    BY <2>6, <2>9, <2>10 DEF Calm, CalmOut
  <2>12. GraphUpdated(st, s) = Step(new, {})
    BY <1>2, <2>2, <2>5, <2>8 DEF GraphUpdated
  <2> QED
    BY <2>11, <2>12, StepFields DEF CalmStep
<1> QED
  BY <1>1, <1>2

\* The reservations of a pass are calm.
LEMMA ReserveCalm ==
  ASSUME NEW st \in SoundState
  PROVE  Calm(st, reserve(st), {})
<1>1. PICK sv : sv = [s \in Services |->
                        IF s \in st.members /\ Reserves(st.services[s])
                          THEN [st.services[s] EXCEPT !.destroy = "reserved", !.storageReserved = TRUE]
                          ELSE st.services[s]]
  OBVIOUS
<1>2. reserve(st) = [st EXCEPT !.services = sv]
  BY <1>1 DEF reserve
<1>3. ASSUME NEW d \in Services
      PROVE  /\ sv[d] \in ServiceState /\ SameHealth(st.services[d], sv[d])
             /\ sv[d].cleanupFailure = st.services[d].cleanupFailure
             /\ sv[d].breaker = st.services[d].breaker
  <2>1. st.services[d] \in ServiceState
    BY SoundFields
  <2>2. CASE d \in st.members /\ Reserves(st.services[d])
    <3>1. sv[d] = [st.services[d] EXCEPT !.destroy = "reserved", !.storageReserved = TRUE]
      BY <1>1, <2>2
    <3> QED
      BY <2>1, <3>1 DEF ServiceState, SameHealth
  <2>3. CASE ~(d \in st.members /\ Reserves(st.services[d]))
    <3>1. sv[d] = st.services[d]
      BY <1>1, <2>3
    <3> QED
      BY <2>1, <3>1 DEF SameHealth
  <2> QED
    BY <2>2, <2>3
<1>4. sv \in [Services -> ServiceState]
  BY <1>1, <1>3
<1> QED
  BY <1>2, <1>3, <1>4, CalmEach DEF WindsDown, SameHealth

-----------------------------------------------------------------------------
(* The settling pass brings up what rests on running prerequisites, as the *)
(* next generation, and asks for one check of what failed its last.         *)

\* One service's turn, from its next generation n: it stays at its phase, or is
\* launched.
Stays(s, p, q, out) ==
  /\ q.phase = p.phase /\ q.readinessFailure = p.readinessFailure
  /\ q.cleanupFailure = p.cleanupFailure /\ q.breaker = p.breaker
  /\ \/ q.reprobing = p.reprobing /\ \A x \in out : x.tag # "Reprobe"
     \/ /\ q.reprobing /\ ~p.reprobing /\ p.readinessFailure /\ p.phase.tag = "Running"
        /\ LifecycleCommand("Reprobe", s, p.phase.generation) \in out
        /\ \A x \in out : x.tag = "Reprobe" => x.generation = p.phase.generation
  /\ \A x \in out : x.tag \notin {"Launch", "Stop"}

Starts(s, st, q, n, out) ==
  /\ prerequisitesSatisfied(st, s) /\ s \in st.members /\ ~Stoppable(st.services[s])
  /\ q.phase = Starting(n) /\ Unchecked(q) /\ q.breaker = st.services[s].breaker
  /\ out = {LifecycleCommand("Launch", s, n)}

TurnTaken(st, s, turn) ==
  \/ Stays(s, st.services[s], turn.st.services[s], turn.out)
     /\ turn.st.generationCounters[s] = st.generationCounters[s]
  \/ Starts(s, st, turn.st.services[s], st.generationCounters[s], turn.out)
     /\ turn.st.generationCounters[s] = st.generationCounters[s] + 1

\* What a turn launches is starting, unchecked, and stands on what runs.
LEMMA LaunchStarts ==
  ASSUME NEW st \in SoundState, NEW s \in Services, MayLaunch(st, s), s \in st.members
  PROVE  TurnTaken(st, s, launch(st, s))
<1>1. PICK g : g = st.generationCounters[s]
  OBVIOUS
<1>2. PICK q : q = [st.services[s] EXCEPT !.phase = Starting(g), !.relaunchForced = FALSE,
                                         !.readinessFailure = FALSE, !.reprobing = FALSE]
  OBVIOUS
<1>3. PICK a : a = Put(st, s, q)
  OBVIOUS
<1>4. PICK new : new = [a EXCEPT !.generationCounters[s] = g + 1]
  OBVIOUS
<1>5. launch(st, s) = Step(new, {LifecycleCommand("Launch", s, g)})
  BY <1>1, <1>2, <1>3, <1>4 DEF launch, NextGeneration
<1>6. st.services[s] \in ServiceState /\ g \in Nat /\ st \in LifecycleState
  BY <1>1, SoundFields
<1>7. /\ q \in ServiceState /\ q.phase = Starting(g) /\ Unchecked(q)
      /\ q.breaker = st.services[s].breaker
  <2>1. Starting(g) \in Phase
    BY <1>6, Phases
  <2> QED
    BY <1>2, <1>6, <2>1 DEF ServiceState, Unchecked
<1>8. a \in LifecycleState /\ a.services[s] = q
  <2>1. q \in ServiceState /\ st \in LifecycleState
    BY <1>6, <1>7
  <2>2. a \in LifecycleState
    BY <1>3, <2>1, PutFields
  <2>3. a.services[s] = q
    BY <1>3, <2>1, PutServices
  <2> QED
    BY <2>2, <2>3
<1>9. new.services[s] = q /\ new.generationCounters[s] = g + 1
  BY <1>4, <1>8 DEF LifecycleState
<1> QED
  BY <1>1, <1>5, <1>7, <1>9, StepFields DEF TurnTaken, Starts, MayLaunch, Stoppable

\* A turn that replaces one service by one of the same health.
LEMMA StaysPut ==
  ASSUME NEW st \in SoundState, NEW s \in Services, NEW q \in ServiceState, NEW out,
         Stays(s, st.services[s], q, out)
  PROVE  Stays(s, st.services[s], Step(Put(st, s, q), out).st.services[s], Step(Put(st, s, q), out).out)
<1>1. Put(st, s, q).services[s] = q
  BY SoundMembers, PutServices
<1> QED
  BY <1>1, StepFields

\* A turn asks for a check of what failed one, once.
LEMMA ReprobeStays ==
  ASSUME NEW st \in SoundState, NEW s \in Services, st.services[s].phase.tag = "Running"
  PROVE  Stays(s, st.services[s], reprobe(st, s).st.services[s], reprobe(st, s).out)
<1>1. CASE NeedsCheck(st, s)
  <2>1. PICK q : q = [st.services[s] EXCEPT !.reprobing = TRUE]
    OBVIOUS
  <2>2. PICK out : out = {LifecycleCommand("Reprobe", s, st.services[s].phase.generation)}
    OBVIOUS
  <2>3. /\ q \in ServiceState /\ q.reprobing /\ q.phase = st.services[s].phase
        /\ q.readinessFailure = st.services[s].readinessFailure
        /\ q.cleanupFailure = st.services[s].cleanupFailure /\ q.breaker = st.services[s].breaker
    <3>1. st.services[s] \in ServiceState
      BY SoundFields
    <3> QED
      BY <2>1, <3>1 DEF ServiceState
  <2>4. \A x \in out : x.tag = "Reprobe" /\ x.generation = st.services[s].phase.generation
    BY <2>2 DEF LifecycleCommand
  <2>5. Stays(s, st.services[s], q, out)
    BY <1>1, <2>2, <2>3, <2>4 DEF Stays, NeedsCheck
  <2>6. reprobe(st, s) = Step(Put(st, s, q), out)
    BY <1>1, <2>1, <2>2 DEF reprobe
  <2> QED
    BY <2>3, <2>5, <2>6, StaysPut
<1>2. CASE ~NeedsCheck(st, s)
  BY <1>2, StepFields DEF reprobe, Ignored, Stays
<1> QED
  BY <1>1, <1>2

\* One part of a turn after another.
LEMMA StaysOn ==
  ASSUME NEW s, NEW p, NEW q, NEW r, NEW o1, NEW o2, Stays(s, p, q, o1), Stays(s, q, r, o2)
  PROVE  Stays(s, p, r, o1 \union o2)
BY DEF Stays

\* A service replaced by one of the same health, commanding no execution.
LEMMA QuietPutStays ==
  ASSUME NEW st \in SoundState, NEW s \in Services, NEW q \in ServiceState, NEW out,
         SameHealth(st.services[s], q), q.cleanupFailure = st.services[s].cleanupFailure,
         q.breaker = st.services[s].breaker,
         \A x \in out : x.tag \notin {"Launch", "Stop", "Reprobe"}
  PROVE  Stays(s, st.services[s], Step(Put(st, s, q), out).st.services[s], Step(Put(st, s, q), out).out)
<1>1. Stays(s, st.services[s], q, out)
  BY DEF Stays, SameHealth
<1> QED
  BY <1>1, StaysPut

\* Waiters that are admitted leave the health alone.
LEMMA AdmitStays ==
  ASSUME NEW st \in SoundState, NEW s \in Services
  PROVE  Stays(s, st.services[s], admit(st, s).st.services[s], admit(st, s).out)
<1>1. PICK admitted : admitted = {w \in st.services[s].waiters : prerequisitesSatisfied(st, s)
                                    /\ (~w.requireReady \/ st.services[s].phase.ready)}
  OBVIOUS
<1>2. PICK traffic : traffic = {w \in admitted : w.kind = "traffic"}
  OBVIOUS
<1>3. PICK p : p = st.services[s]
  OBVIOUS
<1>4. p \in ServiceState /\ IsFiniteSet(p.waiters)
  BY <1>3, SoundFields DEF SoundService
<1>5. PICK n \in Nat : n = p.leases + Cardinality(traffic)
  <2>1. traffic \in SUBSET p.waiters
    BY <1>1, <1>2, <1>3
  <2>2. IsFiniteSet(traffic)
    BY <1>4, <2>1, FS_Subset
  <2>3. Cardinality(traffic) \in Nat
    BY <2>2, FS_CardinalityType
  <2> QED
    BY <1>4, <2>3 DEF ServiceState
<1>6. PICK W \in SUBSET Waiter : W = p.waiters \ admitted
  BY <1>4 DEF ServiceState
<1>7. PICK q : q = [p EXCEPT !.waiters = W, !.leases = n]
  OBVIOUS
<1>8. /\ q \in ServiceState /\ SameHealth(p, q) /\ q.cleanupFailure = p.cleanupFailure
      /\ q.breaker = p.breaker
  BY <1>4, <1>7 DEF ServiceState, SameHealth
<1>9. PICK out : out = {Admit(s, w.client) : w \in admitted}
  OBVIOUS
<1>10. \A x \in out : x.tag \notin {"Launch", "Stop", "Reprobe"}
  BY <1>9 DEF Admit, WaiterCommand
<1>11. admit(st, s) = Step(Put(st, s, q), out)
  BY <1>1, <1>2, <1>3, <1>5, <1>6, <1>7, <1>9 DEF admit
<1> QED
  BY <1>3, <1>8, <1>10, <1>11, QuietPutStays

\* So does an idle timer that is armed.
LEMMA IdleStays ==
  ASSUME NEW st \in SoundState, NEW s \in Services
  PROVE  Stays(s, st.services[s], idle(st, s).st.services[s], idle(st, s).out)
<1>1. PICK p : p = st.services[s]
  OBVIOUS
<1>2. p \in ServiceState
  BY <1>1, SoundFields
<1>3. PICK q : q = [p EXCEPT !.idleArmedEpoch = 0]
  OBVIOUS
<1>4. PICK epoch \in Nat : epoch = p.idleEpoch + 1
  BY <1>2 DEF ServiceState
<1>5. PICK r : r = [p EXCEPT !.idleEpoch = epoch, !.idleArmedEpoch = epoch]
  OBVIOUS
<1>6. /\ q \in ServiceState /\ SameHealth(p, q) /\ q.cleanupFailure = p.cleanupFailure
      /\ q.breaker = p.breaker
  BY <1>2, <1>3 DEF ServiceState, SameHealth
<1>7. /\ r \in ServiceState /\ SameHealth(p, r) /\ r.cleanupFailure = p.cleanupFailure
      /\ r.breaker = p.breaker
  BY <1>2, <1>5 DEF ServiceState, SameHealth
<1>8. PICK out : out = {[tag |-> "ArmIdleTimer", id |-> s, generation |-> p.phase.generation,
                         epoch |-> epoch]}
  OBVIOUS
<1>9. \A x \in out : x.tag \notin {"Launch", "Stop", "Reprobe"}
  BY <1>8
<1>10. \/ idle(st, s) = Step(Put(st, s, q), {})
       \/ idle(st, s) = Step(Put(st, s, r), out)
       \/ idle(st, s) = Ignored(st)
  BY <1>1, <1>3, <1>4, <1>5, <1>8 DEF idle
<1>11. Stays(s, p, p, {})
  BY DEF Stays
<1>12. CASE idle(st, s) = Step(Put(st, s, q), {})
  <2>1. \A x \in {} : x.tag \notin {"Launch", "Stop", "Reprobe"}
    OBVIOUS
  <2> QED
    BY <1>1, <1>6, <1>12, <2>1, QuietPutStays
<1>13. CASE idle(st, s) = Step(Put(st, s, r), out)
  BY <1>1, <1>7, <1>9, <1>13, QuietPutStays
<1>14. CASE idle(st, s) = Ignored(st)
  BY <1>1, <1>11, <1>14, StepFields DEF Ignored
<1> QED
  BY <1>10, <1>12, <1>13, <1>14

\* One turn of the pass: a launch, or the service's health but for a check.
LEMMA SettleServiceTaken ==
  ASSUME NEW st \in SoundState, NEW s \in Services
  PROVE  TurnTaken(st, s, settleService(st, s))
<1>1. CASE s \in st.members /\ MayLaunch(st, s)
  BY <1>1, LaunchStarts DEF settleService
<1>2. CASE ~(s \in st.members /\ MayLaunch(st, s)) /\ s \in st.members
           /\ st.services[s].phase.tag = "Running"
  <2>1. PICK probed : probed = reprobe(st, s)
    OBVIOUS
  <2>2. Rests(st, s, probed) /\ Stays(s, st.services[s], probed.st.services[s], probed.out)
    BY <1>2, <2>1, ReprobeRests, ReprobeStays
  <2>3. PICK admitted : admitted = admit(probed.st, s)
    OBVIOUS
  <2>4. probed.st \in SoundState /\ probed.st.generationCounters = st.generationCounters
    BY <2>2 DEF Rests, QuietStep, Quiet, Leads
  <2>5. Rests(probed.st, s, admitted)
    BY <2>3, <2>4, AdmitRests
  <2>6. Stays(s, probed.st.services[s], admitted.st.services[s], admitted.out)
    BY <2>3, <2>4, AdmitStays
  <2>7. admitted.st \in SoundState /\ admitted.st.generationCounters = st.generationCounters
    BY <2>4, <2>5 DEF Rests, QuietStep, Quiet, Leads
  <2>8. PICK rests : rests = idle(admitted.st, s)
    OBVIOUS
  <2>9. Rests(admitted.st, s, rests)
    BY <2>7, <2>8, IdleRests
  <2>10. Stays(s, admitted.st.services[s], rests.st.services[s], rests.out)
    BY <2>7, <2>8, IdleStays
  <2>11. rests.st.generationCounters = st.generationCounters
    BY <2>7, <2>9 DEF Rests, QuietStep, Quiet, Leads
  <2>12. settleService(st, s) = Step(rests.st, rests.out \union (probed.out \union admitted.out))
    <3>1. rests = Step(rests.st, rests.out)
      BY <2>8 DEF idle, Ignored, Step
    <3>2. settleService(st, s) = Also(rests, probed.out \union admitted.out)
      BY <1>2, <2>1, <2>3, <2>8 DEF settleService
    <3> QED
      BY <3>1, <3>2, AlsoFields
  <2>13. Stays(s, st.services[s], rests.st.services[s], (probed.out \union admitted.out) \union rests.out)
    <3>1. Stays(s, st.services[s], admitted.st.services[s], probed.out \union admitted.out)
      BY <2>2, <2>6, StaysOn
    <3> QED
      BY <2>10, <3>1, StaysOn
  <2>14. (probed.out \union admitted.out) \union rests.out = rests.out \union (probed.out \union admitted.out)
    OBVIOUS
  <2>15. PICK turn : turn = settleService(st, s)
    OBVIOUS
  <2>16. turn.st = rests.st /\ turn.out = (probed.out \union admitted.out) \union rests.out
    BY <2>12, <2>14, <2>15, StepFields
  <2>17. TurnTaken(st, s, turn)
    BY <2>11, <2>13, <2>16 DEF TurnTaken
  <2> QED
    BY <2>15, <2>17
<1>3. CASE ~(s \in st.members /\ MayLaunch(st, s))
           /\ ~(s \in st.members /\ st.services[s].phase.tag = "Running")
  <2>1. settleService(st, s) = Ignored(st)
    BY <1>3 DEF settleService
  <2>2. Stays(s, st.services[s], st.services[s], {})
    BY DEF Stays
  <2> QED
    BY <2>1, <2>2, StepFields DEF TurnTaken, Ignored
<1> QED
  BY <1>1, <1>2, <1>3
-----------------------------------------------------------------------------
(* What reduced events and their settling do to what is up, to the stops    *)
(* that are due and to the checks that are awaited.                         *)

\* A service that stays up, its health unchanged but for a check it asks for.
Kept(s, p, q, out) ==
  /\ q.phase = p.phase /\ q.readinessFailure = p.readinessFailure
  /\ \/ q.reprobing = p.reprobing
     \/ /\ q.reprobing /\ ~p.reprobing /\ p.readinessFailure
        /\ LifecycleCommand("Reprobe", s, q.phase.generation) \in out

\* A service that is launched.
Fresh(s, q, out) ==
  /\ q.phase.tag = "Starting" /\ Unchecked(q)
  /\ LifecycleCommand("Launch", s, q.phase.generation) \in out

ReducedService(s, p, q, out) ==
  /\ Stoppable(q) => Kept(s, p, q, out) \/ Fresh(s, q, out)
  /\ q.breaker.failures <= p.breaker.failures
  /\ WindsDown(q) => \/ WindsDown(p) /\ q.phase.generation = p.phase.generation
                     \/ Stop(s, q.phase.generation) \in out

ReducedOut(st, new, out) ==
  \A x \in out :
    /\ x.tag = "Stop" => ~UpAt(new.services[x.id], x.generation)
    /\ x.tag = "Reprobe" =>
         /\ UpAt(st.services[x.id], x.generation)
         /\ st.services[x.id].readinessFailure /\ ~st.services[x.id].reprobing
         /\ UpAt(new.services[x.id], x.generation) => new.services[x.id].reprobing

Reduces(st, new, out) ==
  /\ Advances(st, new, out, {})
  /\ \A s \in Services : ReducedService(s, st.services[s], new.services[s], out)
  /\ ReducedOut(st, new, out)
  /\ Rooted(st) => Rooted(new)
  /\ Newest(st) => Newest(new)

\* A generation that a reduction launches is a new one.
LEMMA FreshIsNew ==
  ASSUME NEW st \in SoundState, NEW new, NEW out, Advances(st, new, out, {}), NEW s \in Services,
         NEW g, LifecycleCommand("Launch", s, g) \in out
  PROVE  g = st.generationCounters[s] /\ new.generationCounters[s] = g + 1
<1>1. PICK x \in out : x = LifecycleCommand("Launch", s, g)
  OBVIOUS
<1>2. x.tag = "Launch" /\ x.id = s /\ x.generation = g
  BY <1>1 DEF LifecycleCommand
<1>3. ServiceAdvances(st, new, s, out, {})
  BY DEF Advances
<1> QED
  BY <1>1, <1>2, <1>3 DEF ServiceAdvances

\* The counters only grow.
LEMMA CountersGrow ==
  ASSUME NEW st \in SoundState, NEW new, NEW out, Advances(st, new, out, {}), NEW s \in Services
  PROVE  /\ st.generationCounters[s] \in Nat /\ new.generationCounters[s] \in Nat
         /\ st.generationCounters[s] <= new.generationCounters[s]
         /\ st.services[s].phase.generation \in Nat
         /\ Stoppable(st.services[s]) => st.services[s].phase.generation < st.generationCounters[s]
<1>1. new \in SoundState
  BY DEF Advances
<1>2. ServiceAdvances(st, new, s, out, {})
  BY DEF Advances
<1>3. /\ st.generationCounters[s] \in Nat /\ new.generationCounters[s] \in Nat
      /\ st.services[s].phase.generation \in Nat
      /\ SoundService(st.services[s], st.generationCounters[s])
  BY <1>1, SoundFields
<1> QED
  BY <1>2, <1>3 DEF ServiceAdvances, SoundService

\* A calm event reduces.
LEMMA CalmReduces ==
  ASSUME NEW st \in SoundState, NEW new, NEW out, Leads(st, new, {}), Plain(st, out),
         Calm(st, new, out)
  PROVE  Reduces(st, new, out)
<1>1. Advances(st, new, out, {})
  BY LeadsAdvances
<1>2. ASSUME NEW s \in Services
      PROVE  ReducedService(s, st.services[s], new.services[s], out)
  <2>1. CalmService(s, st.services[s], new.services[s], out)
    BY DEF Calm
  <2>2. new.services[s].phase.tag # "Stopped" =>
          new.services[s].phase.generation = st.services[s].phase.generation
    BY <2>1 DEF CalmService
  <2> QED
    BY <2>1, <2>2 DEF CalmService, ReducedService, Kept, SameHealth, WindsDown
<1>3. ReducedOut(st, new, out)
  BY DEF ReducedOut, Calm, CalmOut
<1>4. ASSUME Newest(st)
      PROVE  Newest(new)
  <2>1. new \in SoundState /\ new.generationCounters = st.generationCounters
    BY DEF Leads
  <2>2. ASSUME NEW s \in Services, new.services[s].phase.tag # "Stopped"
        PROVE  new.services[s].phase.generation = new.generationCounters[s] - 1
    <3>1. /\ SoundService(st.services[s], st.generationCounters[s])
          /\ SoundService(new.services[s], new.generationCounters[s])
      BY <2>1, SoundFields
    <3>2. new.services[s].phase.generation = st.services[s].phase.generation
      BY <2>2 DEF Calm, CalmService
    <3>3. st.services[s].phase.tag # "Stopped"
      BY <2>2, <3>1, <3>2 DEF SoundService
    <3> QED
      BY <1>4, <2>1, <3>2, <3>3 DEF Newest
  <2> QED
    BY <2>2 DEF Newest
<1> QED
  BY <1>1, <1>2, <1>3, <1>4 DEF Reduces, Calm

\* One reduction after another.
LEMMA ReducesOn ==
  ASSUME NEW st \in SoundState, NEW a, NEW b, NEW o1, NEW o2, Reduces(st, a, o1), Reduces(a, b, o2)
  PROVE  Reduces(st, b, o1 \union o2)
<1>0. a \in SoundState /\ b \in SoundState /\ Advances(st, a, o1, {}) /\ Advances(a, b, o2, {})
  BY DEF Reduces, Advances
<1>1. Advances(st, b, o1 \union o2, {})
  BY <1>0, AdvancesOn
<1>2. ASSUME NEW s \in Services
      PROVE  ReducedService(s, st.services[s], b.services[s], o1 \union o2)
  <2>1. /\ ReducedService(s, st.services[s], a.services[s], o1)
        /\ ReducedService(s, a.services[s], b.services[s], o2)
    BY DEF Reduces
  <2>2. /\ st.services[s].breaker.failures \in Nat /\ a.services[s].breaker.failures \in Nat
        /\ b.services[s].breaker.failures \in Nat
    BY <1>0, FailuresTyped
  <2>3. ASSUME Stoppable(b.services[s])
        PROVE  Kept(s, st.services[s], b.services[s], o1 \union o2) \/ Fresh(s, b.services[s], o1 \union o2)
    <3>1. CASE Fresh(s, b.services[s], o2)
      BY <3>1 DEF Fresh
    <3>2. CASE Kept(s, a.services[s], b.services[s], o2)
      <4>1. Stoppable(a.services[s])
        BY <2>3, <3>2 DEF Kept, Stoppable
      <4>2. CASE Kept(s, st.services[s], a.services[s], o1)
        BY <3>2, <4>2 DEF Kept
      <4>3. CASE Fresh(s, a.services[s], o1)
        BY <3>2, <4>3 DEF Kept, Fresh, Unchecked
      <4> QED
        BY <2>1, <4>1, <4>2, <4>3 DEF ReducedService
    <3> QED
      BY <2>1, <2>3, <3>1, <3>2 DEF ReducedService
  <2>4. b.services[s].breaker.failures <= st.services[s].breaker.failures
    BY <2>1, <2>2 DEF ReducedService
  <2>5. WindsDown(b.services[s]) =>
          \/ WindsDown(st.services[s])
             /\ b.services[s].phase.generation = st.services[s].phase.generation
          \/ Stop(s, b.services[s].phase.generation) \in o1 \union o2
    BY <2>1 DEF ReducedService
  <2> QED
    BY <2>3, <2>4, <2>5 DEF ReducedService
<1>3. ASSUME NEW x \in o1 \union o2, x.tag = "Stop"
      PROVE  ~UpAt(b.services[x.id], x.generation)
  <2>1. CASE x \in o2
    BY <1>3, <2>1 DEF Reduces, ReducedOut
  <2>2. CASE x \in o1
    <3>1. x.id \in Services
      BY <1>0, <2>2 DEF Advances, LifecycleCommands
    <3>2. x.generation \in 1..(a.generationCounters[x.id] - 1)
      BY <1>0, <1>3, <2>2 DEF Advances
    <3>3. ~UpAt(a.services[x.id], x.generation)
      BY <1>3, <2>2 DEF Reduces, ReducedOut
    <3>4. ASSUME UpAt(b.services[x.id], x.generation)
          PROVE  FALSE
      <4>1. \/ Kept(x.id, a.services[x.id], b.services[x.id], o2)
            \/ Fresh(x.id, b.services[x.id], o2)
        BY <3>1, <3>4 DEF Reduces, ReducedService, UpAt
      <4>2. CASE Kept(x.id, a.services[x.id], b.services[x.id], o2)
        BY <3>3, <3>4, <4>2 DEF Kept, UpAt, Stoppable
      <4>3. CASE Fresh(x.id, b.services[x.id], o2)
        <5>1. x.generation = a.generationCounters[x.id]
          BY <1>0, <3>1, <3>4, <4>3, FreshIsNew DEF Fresh, UpAt
        <5>2. a.generationCounters[x.id] \in Nat
          BY <1>0, <3>1, CountersGrow
        <5> QED
          BY <3>2, <5>1, <5>2
      <4> QED
        BY <4>1, <4>2, <4>3
    <3> QED
      BY <3>4
  <2> QED
    BY <2>1, <2>2
<1>4. ASSUME NEW x \in o1 \union o2, x.tag = "Reprobe"
      PROVE  /\ UpAt(st.services[x.id], x.generation)
             /\ st.services[x.id].readinessFailure /\ ~st.services[x.id].reprobing
             /\ UpAt(b.services[x.id], x.generation) => b.services[x.id].reprobing
  <2>1. x.id \in Services
    BY <1>0 DEF Advances, LifecycleCommands
  <2>2. CASE x \in o2
    <3>1. /\ UpAt(a.services[x.id], x.generation)
          /\ a.services[x.id].readinessFailure /\ ~a.services[x.id].reprobing
          /\ UpAt(b.services[x.id], x.generation) => b.services[x.id].reprobing
      BY <1>4, <2>2 DEF Reduces, ReducedOut
    <3>2. Kept(x.id, st.services[x.id], a.services[x.id], o1)
      <4>1. \/ Kept(x.id, st.services[x.id], a.services[x.id], o1)
            \/ Fresh(x.id, a.services[x.id], o1)
        BY <2>1, <3>1 DEF Reduces, ReducedService, UpAt
      <4> QED
        BY <3>1, <4>1 DEF Fresh, Unchecked
    <3> QED
      BY <3>1, <3>2 DEF Kept, UpAt, Stoppable
  <2>3. CASE x \in o1
    <3>1. /\ UpAt(st.services[x.id], x.generation)
          /\ st.services[x.id].readinessFailure /\ ~st.services[x.id].reprobing
          /\ UpAt(a.services[x.id], x.generation) => a.services[x.id].reprobing
      BY <1>4, <2>3 DEF Reduces, ReducedOut
    <3>2. ASSUME UpAt(b.services[x.id], x.generation)
          PROVE  b.services[x.id].reprobing
      <4>1. \/ Kept(x.id, a.services[x.id], b.services[x.id], o2)
            \/ Fresh(x.id, b.services[x.id], o2)
        BY <2>1, <3>2 DEF Reduces, ReducedService, UpAt
      <4>2. CASE Kept(x.id, a.services[x.id], b.services[x.id], o2)
        BY <3>1, <3>2, <4>2 DEF Kept, UpAt, Stoppable
      <4>3. CASE Fresh(x.id, b.services[x.id], o2)
        <5>1. x.generation = a.generationCounters[x.id]
          BY <1>0, <2>1, <3>2, <4>3, FreshIsNew DEF Fresh, UpAt
        <5>2. /\ st.generationCounters[x.id] <= a.generationCounters[x.id]
              /\ st.generationCounters[x.id] \in Nat /\ a.generationCounters[x.id] \in Nat
              /\ x.generation < st.generationCounters[x.id]
          BY <1>0, <2>1, <3>1, CountersGrow DEF UpAt
        <5> QED
          BY <5>1, <5>2
      <4> QED
        BY <4>1, <4>2, <4>3
    <3> QED
      BY <3>1, <3>2
  <2> QED
    BY <2>2, <2>3
<1>5. ReducedOut(st, b, o1 \union o2)
  BY <1>3, <1>4 DEF ReducedOut
<1> QED
  BY <1>1, <1>2, <1>5 DEF Reduces

\* The pass reduces.
LEMMA SettleReduces ==
  ASSUME NEW step, step.st \in SoundState
  PROVE  Reduces(step.st, settle(step).st, Turns(step.st))
<1>1. PICK r : r = reserve(step.st)
  OBVIOUS
<1>2. r \in SoundState /\ Leads(step.st, r, {})
  BY <1>1, ReserveLeads DEF Leads
<1>3. PICK sv : sv = [s \in Services |-> settleService(r, s).st.services[s]]
  OBVIOUS
<1>4. PICK gc : gc = [s \in Services |-> settleService(r, s).st.generationCounters[s]]
  OBVIOUS
<1>5. PICK new : new = [r EXCEPT !.services = sv, !.generationCounters = gc]
  OBVIOUS
<1>6. PICK out : out = Turns(step.st)
  OBVIOUS
<1>7. settle(step).st = new
  <2>1. settle(step) = Step(new, step.out \union out)
    BY <1>1, <1>3, <1>4, <1>5, <1>6 DEF settle, Turns
  <2> QED
    BY <2>1, StepFields
<1>8. new.services = sv /\ new.generationCounters = gc /\ new.members = r.members
  <2>1. r \in LifecycleState
    BY <1>2, SoundMembers
  <2> QED
    BY <1>5, <2>1 DEF LifecycleState
<1>9. ASSUME NEW s \in Services
      PROVE  /\ settleService(r, s).out \subseteq out
             /\ \/ /\ Stays(s, r.services[s], new.services[s], settleService(r, s).out)
                   /\ new.generationCounters[s] = r.generationCounters[s]
                \/ /\ Starts(s, r, new.services[s], r.generationCounters[s], settleService(r, s).out)
                   /\ new.generationCounters[s] = r.generationCounters[s] + 1
  <2>1. settleService(r, s).out \subseteq out
    BY <1>1, <1>6 DEF Turns
  <2>2. TurnTaken(r, s, settleService(r, s))
    BY <1>2, SettleServiceTaken
  <2>3. new.services[s] = settleService(r, s).st.services[s]
        /\ new.generationCounters[s] = settleService(r, s).st.generationCounters[s]
    BY <1>3, <1>4, <1>8
  <2> QED
    BY <2>1, <2>2, <2>3 DEF TurnTaken
<1>10. ASSUME NEW x \in out
       PROVE  x.id \in Services /\ x \in settleService(r, x.id).out
  <2>1. PICK s \in Services : x \in settleService(r, s).out
    BY <1>1, <1>6, <1>10 DEF Turns
  <2>2. x.id = s
    BY <1>2, <2>1, SettleServiceTurn DEF TurnOf
  <2> QED
    BY <2>1, <2>2
<1>11. Reduces(step.st, r, {})
  <2>1. Plain(step.st, {})
    BY DEF Plain
  <2>2. Calm(step.st, r, {})
    BY <1>1, ReserveCalm
  <2> QED
    BY <1>2, <2>1, <2>2, CalmReduces
<1>12. Advances(step.st, new, out, {})
  BY <1>6, <1>7, SettleAdvances
<1>13. Advances(r, new, out, {})
  <2>1. r.generationCounters = step.st.generationCounters /\ r.members = step.st.members
    BY <1>1, <1>2, ReserveLeads DEF Leads
  <2>2. ASSUME NEW s \in Services
        PROVE  r.services[s].phase = step.st.services[s].phase
    <3>1. step.st.services[s] \in ServiceState
      BY SoundFields
    <3> QED
      BY <1>1, <3>1, SoundMembers DEF reserve, LifecycleState, ServiceState
  <2> QED
    BY <1>12, <2>1, <2>2 DEF Advances, ServiceAdvances
<1>14. ASSUME NEW s \in Services
       PROVE  ReducedService(s, r.services[s], new.services[s], out)
  <2>1. r.services[s].breaker.failures \in Nat
    BY <1>2, FailuresTyped
  <2>2. CASE Stays(s, r.services[s], new.services[s], settleService(r, s).out)
    <3>1. Kept(s, r.services[s], new.services[s], out)
      BY <1>9, <2>2 DEF Stays, Kept
    <3>2. WindsDown(new.services[s]) => WindsDown(r.services[s])
      BY <2>2 DEF Stays, WindsDown
    <3> QED
      BY <2>1, <2>2, <3>1, <3>2 DEF ReducedService, Stays
  <2>3. CASE Starts(s, r, new.services[s], r.generationCounters[s], settleService(r, s).out)
    <3>1. new.services[s].phase.tag = "Starting"
          /\ new.services[s].phase.generation = r.generationCounters[s]
      BY <2>3 DEF Starts, Starting, PhaseOf
    <3>2. Fresh(s, new.services[s], out)
      BY <1>9, <2>3, <3>1 DEF Starts, Fresh
    <3> QED
      BY <2>1, <2>3, <3>1, <3>2 DEF ReducedService, WindsDown, Starts
  <2> QED
    BY <1>9, <2>2, <2>3
<1>15. ASSUME NEW x \in out
       PROVE  /\ x.tag = "Stop" => ~UpAt(new.services[x.id], x.generation)
              /\ x.tag = "Reprobe" =>
                   /\ UpAt(r.services[x.id], x.generation)
                   /\ r.services[x.id].readinessFailure /\ ~r.services[x.id].reprobing
                   /\ UpAt(new.services[x.id], x.generation) => new.services[x.id].reprobing
  <2>1. x.id \in Services /\ x \in settleService(r, x.id).out
    BY <1>10
  <2>2. CASE Stays(x.id, r.services[x.id], new.services[x.id], settleService(r, x.id).out)
    BY <2>1, <2>2 DEF Stays, UpAt, Stoppable
  <2>3. CASE Starts(x.id, r, new.services[x.id], r.generationCounters[x.id], settleService(r, x.id).out)
    <3>1. x.tag = "Launch"
      BY <2>1, <2>3 DEF Starts, LifecycleCommand
    <3> QED
      BY <3>1
  <2> QED
    BY <1>9, <2>1, <2>2, <2>3
<1>16. ASSUME Rooted(r)
       PROVE  Rooted(new)
  <2>1. \A s \in Services : \A p \in prerequisiteClosure[s] : p \in Services
    BY DEF prerequisiteClosure
  <2>2. ASSUME NEW p \in Services, r.services[p].phase.tag = "Running"
        PROVE  new.services[p].phase = r.services[p].phase
    BY <1>9, <2>2 DEF Stays, Starts, Stoppable
  <2>3. ASSUME NEW s \in Services, Stoppable(new.services[s])
        PROVE  /\ s \in r.members
               /\ \A p \in prerequisiteClosure[s] : p \in r.members /\ r.services[p].phase.tag = "Running"
    <3>1. CASE Stays(s, r.services[s], new.services[s], settleService(r, s).out)
      BY <1>16, <2>3, <3>1 DEF Stays, Stoppable, Rooted
    <3>2. CASE Starts(s, r, new.services[s], r.generationCounters[s], settleService(r, s).out)
      BY <3>2 DEF Starts, prerequisitesSatisfied, isReady
    <3> QED
      BY <1>9, <3>1, <3>2
  <2> QED
    BY <1>8, <2>1, <2>2, <2>3 DEF Rooted
<1>17. ASSUME Newest(r)
       PROVE  Newest(new)
  <2>1. ASSUME NEW s \in Services, new.services[s].phase.tag # "Stopped"
        PROVE  new.services[s].phase.generation = new.generationCounters[s] - 1
    <3>0. r.generationCounters[s] \in Nat
      BY <1>2, SoundFields
    <3>1. CASE Stays(s, r.services[s], new.services[s], settleService(r, s).out)
               /\ new.generationCounters[s] = r.generationCounters[s]
      BY <1>17, <2>1, <3>1 DEF Stays, Newest
    <3>2. CASE Starts(s, r, new.services[s], r.generationCounters[s], settleService(r, s).out)
               /\ new.generationCounters[s] = r.generationCounters[s] + 1
      BY <3>0, <3>2 DEF Starts, Starting, PhaseOf
    <3> QED
      BY <1>9, <3>1, <3>2
  <2> QED
    BY <2>1 DEF Newest
<1>18. Reduces(r, new, out)
  BY <1>13, <1>14, <1>15, <1>16, <1>17 DEF Reduces, ReducedOut
<1>19. Reduces(step.st, new, {} \union out)
  BY <1>11, <1>18, ReducesOn
<1> QED
  BY <1>6, <1>7, <1>19

\* A calm event and the pass that settles it.
LEMMA SettledCalm ==
  ASSUME NEW st \in SoundState, NEW step, Leads(st, step.st, {}), Plain(st, step.out),
         CalmStep(st, step)
  PROVE  Reduces(st, settle(step).st, settle(step).out)
<1>1. step.st \in SoundState
  BY DEF Leads
<1>2. Reduces(st, step.st, step.out)
  BY CalmReduces DEF CalmStep
<1>3. Reduces(step.st, settle(step).st, Turns(step.st))
  BY <1>1, SettleReduces
<1>4. settle(step).out = step.out \union Turns(step.st)
  BY <1>1, SettleAdvances
<1> QED
  BY <1>2, <1>3, <1>4, ReducesOn
-----------------------------------------------------------------------------
(* What an outcome does to the service it is about, and to the others.      *)

Tells(st, new, out, s) ==
  /\ \A t \in Services \ {s} : CalmService(t, st.services[t], new.services[t], out)
  /\ CalmOut(new, out)
  /\ new.members = st.members

\* The outcome of a launch or a check that goes on: s runs.
Checked(st, new, out, s, g) ==
  /\ AtPhase(st, s, g, {"Starting", "Running"})
  /\ Tells(st, new, out, s)
  /\ new.services[s].phase.tag = "Running" /\ new.services[s].phase.generation = g
  /\ ~new.services[s].reprobing
  /\ new.services[s].breaker = st.services[s].breaker
  /\ Rooted(st) => Rooted(new)

\* One that ends the generation, or begins its end.
Downed(st, new, out, s, g) ==
  /\ s \in st.members /\ st.services[s].phase.generation = g /\ st.services[s].phase.tag # "Stopped"
  /\ Tells(st, new, out, s)
  /\ ~Stoppable(new.services[s])
  /\ new.services[s].phase.tag # "Stopped" => new.services[s].phase.generation = g
  /\ new.services[s].breaker.failures > st.services[s].breaker.failures => Stoppable(st.services[s])
  /\ Rooted(st) /\ st.services[s].phase.tag # "Running" => Rooted(new)

Undisturbed(p, q) == SameHealth(p, q) /\ q.cleanupFailure = p.cleanupFailure /\ q.breaker = p.breaker

\* A replaced service leaves the members and all others alone.
LEMMA PutMembers ==
  ASSUME NEW a \in SoundState, NEW s \in Services, NEW q \in ServiceState
  PROVE  /\ Put(a, s, q).members = a.members
         /\ Put(a, s, q).services[s] = q
         /\ \A t \in Services : Put(a, s, q).services[t] = IF t = s THEN q ELSE a.services[t]
<1>1. a \in LifecycleState
  BY SoundMembers
<1>2. Put(a, s, q).members = a.members
  BY <1>1, PutFields
<1>3. /\ Put(a, s, q).services[s] = q
      /\ \A t \in Services : Put(a, s, q).services[t] = IF t = s THEN q ELSE a.services[t]
  BY <1>1, PutServices
<1> QED
  BY <1>2, <1>3

\* One service replaced after others were told.
LEMMA TellsPut ==
  ASSUME NEW st \in SoundState, NEW a \in SoundState, a.members = st.members,
         NEW s \in Services, NEW q \in ServiceState, NEW out, Silent(out),
         \A t \in Services : Undisturbed(st.services[t], a.services[t])
  PROVE  /\ Tells(st, Put(a, s, q), out, s)
         /\ Put(a, s, q).services[s] = q
         /\ Rooted(st) /\ (Stoppable(q) => Stoppable(st.services[s]))
              /\ (st.services[s].phase.tag = "Running" => q.phase.tag = "Running")
              => Rooted(Put(a, s, q))
<1>0. /\ Put(a, s, q).members = a.members
      /\ Put(a, s, q).services[s] = q
      /\ \A t \in Services : Put(a, s, q).services[t] = IF t = s THEN q ELSE a.services[t]
  BY PutMembers
<1>1. \A t \in Services : Put(a, s, q).services[t] = IF t = s THEN q ELSE a.services[t]
  BY <1>0
<1>2. Put(a, s, q).members = st.members
  BY PutMembers
<1>3. ASSUME NEW t \in Services \ {s}
      PROVE  CalmService(t, st.services[t], Put(a, s, q).services[t], out)
  BY <1>1, FailuresTyped DEF CalmService, Undisturbed, SameHealth, WindsDown
<1>4. CalmOut(Put(a, s, q), out)
  BY DEF CalmOut, Silent
<1>5. ASSUME Rooted(st), Stoppable(q) => Stoppable(st.services[s]),
             st.services[s].phase.tag = "Running" => q.phase.tag = "Running"
      PROVE  Rooted(Put(a, s, q))
  <2>1. \A t \in Services : \A p \in prerequisiteClosure[t] : p \in Services
    BY DEF prerequisiteClosure
  <2>2. \A t \in Services :
          /\ Stoppable(Put(a, s, q).services[t]) => Stoppable(st.services[t])
          /\ st.services[t].phase.tag = "Running" => Put(a, s, q).services[t].phase.tag = "Running"
    BY <1>1, <1>5 DEF Undisturbed, SameHealth, Stoppable
  <2> QED
    BY <1>2, <1>5, <2>1, <2>2 DEF Rooted
<1> QED
  BY <1>1, <1>2, <1>3, <1>4, <1>5 DEF Tells

\* A session that runs.
LEMMA RunsChecked ==
  ASSUME NEW st \in SoundState, NEW s, NEW g, AtPhase(st, s, g, {"Starting", "Running"}),
         NEW ready \in BOOLEAN, NEW step,
         step = Step(Put(st, s, [st.services[s] EXCEPT !.phase = Running(g, ready),
                              !.readinessFailure = FALSE, !.reprobing = FALSE]), {})
  PROVE  Checked(st, step.st, step.out, s, g) /\ Unchecked(step.st.services[s])
<1>1. /\ s \in Services /\ g \in Nat /\ st.services[s].phase.generation = g
      /\ st.services[s].phase.tag \in {"Starting", "Running"}
  BY AtPhaseFacts
<1>2. PICK q : q = [st.services[s] EXCEPT !.phase = Running(g, ready),
                                          !.readinessFailure = FALSE, !.reprobing = FALSE]
  OBVIOUS
<1>3. /\ Running(g, ready) \in Phase /\ Running(g, ready).tag = "Running"
      /\ Running(g, ready).generation = g
  BY <1>1, Phases
<1>4. /\ q \in ServiceState /\ q.phase = Running(g, ready) /\ Unchecked(q)
      /\ q.breaker = st.services[s].breaker
  <2>1. st.services[s] \in ServiceState
    BY <1>1, SoundFields
  <2> QED
    BY <1>2, <1>3, <2>1 DEF ServiceState, Unchecked
<1>5. \A t \in Services : Undisturbed(st.services[t], st.services[t])
  BY DEF Undisturbed, SameHealth
<1>6. /\ Tells(st, Put(st, s, q), {}, s)
      /\ Put(st, s, q).services[s] = q
      /\ Rooted(st) => Rooted(Put(st, s, q))
  <2>1. Silent({})
    BY SilentCommands
  <2>2. Stoppable(st.services[s]) /\ q.phase.tag = "Running"
    BY <1>1, <1>3, <1>4 DEF Stoppable
  <2> QED
    BY <1>1, <1>4, <1>5, <2>1, <2>2, TellsPut
<1>7. step.st = Put(st, s, q) /\ step.out = {}
  BY <1>2, StepFields
<1> QED
  BY <1>3, <1>4, <1>6, <1>7 DEF Checked, Unchecked

\* A session that is available: its service runs, with no check failed yet.
LEMMA SessionAvailableTells ==
  ASSUME NEW st \in SoundState, NEW s, NEW g, NEW step, step = SessionAvailable(st, s, g)
  PROVE  \/ ~AtPhase(st, s, g, {"Starting"}) /\ step = Ignored(st)
         \/ Checked(st, step.st, step.out, s, g) /\ Unchecked(step.st.services[s])
<1>1. CASE AtPhase(st, s, g, {"Starting"})
  <2>1. AtPhase(st, s, g, {"Starting", "Running"})
    BY <1>1 DEF AtPhase
  <2>2. PICK ready \in BOOLEAN : ready = FALSE
    OBVIOUS
  <2>3. step = Step(Put(st, s, [st.services[s] EXCEPT !.phase = Running(g, ready),
                              !.readinessFailure = FALSE, !.reprobing = FALSE]), {})
    BY <1>1, <2>2 DEF SessionAvailable
  <2> QED
    BY <2>1, <2>3, RunsChecked
<1> QED
  BY <1>1 DEF SessionAvailable

\* A launch that succeeded: its service runs.
LEMMA LaunchSucceededTells ==
  ASSUME NEW st \in SoundState, NEW s, NEW g, NEW step, step = LaunchSucceeded(st, s, g)
  PROVE  \/ step = Ignored(st)
         \/ Checked(st, step.st, step.out, s, g)
<1>1. CASE AtPhase(st, s, g, {"Starting", "Running"}) /\ ~st.services[s].phase.ready
  <2>2. PICK ready \in BOOLEAN : ready = TRUE
    OBVIOUS
  <2>3. step = Step(Put(st, s, [st.services[s] EXCEPT !.phase = Running(g, ready),
                              !.readinessFailure = FALSE, !.reprobing = FALSE]), {})
    BY <1>1, <2>2 DEF LaunchSucceeded, Ready
  <2> QED
    BY <1>1, <2>3, RunsChecked
<1> QED
  BY <1>1 DEF LaunchSucceeded

\* A check that passed: its service, if running, is checked no more.
LEMMA ReadinessRecoveredTells ==
  ASSUME NEW st \in SoundState, NEW s, NEW g, NEW step, step = ReadinessRecovered(st, s, g)
  PROVE  \/ ~AtPhase(st, s, g, {"Running"}) /\ step = Ignored(st)
         \/ Checked(st, step.st, step.out, s, g) /\ st.services[s].phase.tag = "Running"
<1>1. CASE AtPhase(st, s, g, {"Running"})
  <2>1. AtPhase(st, s, g, {"Starting", "Running"}) /\ st.services[s].phase.tag = "Running"
    BY <1>1 DEF AtPhase
  <2>2. PICK ready \in BOOLEAN : ready = TRUE
    OBVIOUS
  <2>3. step = Step(Put(st, s, [st.services[s] EXCEPT !.phase = Running(g, ready),
                              !.readinessFailure = FALSE, !.reprobing = FALSE]), {})
    BY <1>1, <2>2 DEF ReadinessRecovered, Ready
  <2> QED
    BY <2>1, <2>3, RunsChecked
<1> QED
  BY <1>1 DEF ReadinessRecovered

\* One that failed: the service runs on, unready, until checked again.
LEMMA ReadinessLostTells ==
  ASSUME NEW st \in SoundState, NEW s, NEW g, NEW step, step = ReadinessLost(st, s, g)
  PROVE  \/ ~AtPhase(st, s, g, {"Running"}) /\ step = Ignored(st)
         \/ Checked(st, step.st, step.out, s, g) /\ st.services[s].phase.tag = "Running"
<1>1. CASE AtPhase(st, s, g, {"Running"})
  <2>1. PICK told : told = failExplicitDependentWaiters(st, s)
    OBVIOUS
  <2>2. PICK failed : failed = {w \in st.services[s].waiters : w.requireReady}
    OBVIOUS
  <2>3. PICK q : q = [st.services[s] EXCEPT !.phase = Running(g, FALSE), !.waiters = @ \ failed,
                      !.readinessFailure = TRUE, !.reprobing = FALSE]
    OBVIOUS
  <2>4. PICK out : out = told.out \union {Fail(s, w.client) : w \in failed}
    OBVIOUS
  <2>5. step = Step(Put(told.st, s, q), out)
    BY <1>1, <2>1, <2>2, <2>3, <2>4 DEF ReadinessLost
  <2>6. /\ s \in Services /\ st.services[s].phase.generation = g /\ g \in Nat
        /\ st.services[s].phase.tag = "Running"
    BY <1>1, RunningFacts
  <2>7. st.services[s] \in ServiceState
    BY <2>6, SoundFields
  <2>8. /\ told.st \in SoundState /\ told.st.members = st.members
    BY <2>1, <2>6, ToldQuiet DEF QuietStep, Quiet, Leads, LeavesStorage
  <2>9. \A t \in Services : Undisturbed(st.services[t], told.st.services[t])
    BY <2>1, <2>6, ToldCalm DEF Undisturbed
  <2>10. Silent(told.out)
    BY <2>1, <2>6, ToldCalm
  <2>11. Silent(out)
    BY <2>4, <2>10, SilentCommands DEF Silent
  <2>12. /\ Running(g, FALSE) \in Phase /\ Running(g, FALSE).tag = "Running"
         /\ Running(g, FALSE).generation = g
    BY <2>6, Phases
  <2>13. /\ q \in ServiceState /\ q.phase = Running(g, FALSE) /\ ~q.reprobing
         /\ q.breaker = st.services[s].breaker
    BY <2>3, <2>7, <2>12 DEF ServiceState
  <2>14. /\ Tells(st, Put(told.st, s, q), out, s)
         /\ Put(told.st, s, q).services[s] = q
         /\ Rooted(st) => Rooted(Put(told.st, s, q))
    <3>1. Stoppable(st.services[s]) /\ q.phase.tag = "Running"
      BY <2>6, <2>12, <2>13 DEF Stoppable
    <3>2. PICK a \in SoundState : a = told.st
      BY <2>8
    <3>3. a.members = st.members
      BY <2>8, <3>2
    <3>4. \A t \in Services : Undisturbed(st.services[t], a.services[t])
      BY <2>9, <3>2
    <3>5. s \in Services /\ q \in ServiceState
      BY <2>6, <2>13
    <3>6. /\ Tells(st, Put(a, s, q), out, s)
          /\ Put(a, s, q).services[s] = q
          /\ Rooted(st) /\ (Stoppable(q) => Stoppable(st.services[s]))
               /\ (st.services[s].phase.tag = "Running" => q.phase.tag = "Running")
               => Rooted(Put(a, s, q))
      BY <2>11, <3>3, <3>4, <3>5, TellsPut
    <3>7. Rooted(st) => Rooted(Put(a, s, q))
      BY <3>1, <3>6
    <3> QED
      BY <3>2, <3>6, <3>7
  <2>15. step.st = Put(told.st, s, q) /\ step.out = out
    BY <2>5, StepFields
  <2>16. AtPhase(st, s, g, {"Starting", "Running"})
    BY <1>1 DEF AtPhase
  <2> QED
    BY <2>6, <2>12, <2>13, <2>14, <2>15, <2>16 DEF Checked
<1> QED
  BY <1>1 DEF ReadinessLost

\* A failure on record: s goes down, and its breaker counts it.
LEMMA RecordDowned ==
  ASSUME NEW st \in SoundState, NEW s \in Services, NEW g \in Nat, NEW quiet,
         NEW phase \in Phase, Stoppable(st.services[s]), s \in st.members,
         st.services[s].phase.generation = g, phase.tag \in {"Failed", "Stopping"},
         phase.generation = g, NEW step, step = recordFailure(st, s, g, quiet, phase)
  PROVE  Downed(st, step.st, step.out, s, g) /\ step.st.services[s].phase = phase
         /\ Silent(step.out)
         /\ \A t \in Services \ {s} : step.st.services[t].phase = st.services[t].phase
<1>1. PICK told : told = failExplicitDependentWaiters(st, s)
  OBVIOUS
<1>2. PICK breaker : breaker = countFailure(st.services[s].breaker, g, quiet)
  OBVIOUS
<1>3. PICK q : q = [st.services[s] EXCEPT !.phase = phase, !.waiters = {}, !.breaker = breaker,
                             !.idleArmedEpoch = 0, !.relaunchForced = FALSE,
                             !.readinessFailure = FALSE, !.reprobing = FALSE]
  OBVIOUS
<1>4. PICK out : out = told.out \union failAllWaiters(s, st.services[s]) \union cooldown(s, breaker)
  OBVIOUS
<1>5. step = Step(Put(told.st, s, q), out)
  BY <1>1, <1>2, <1>3, <1>4 DEF recordFailure
<1>6. breaker \in [failures : Nat, openUntil : Nat]
  BY <1>2, SoundFields, CountTyped DEF ServiceState
<1>7. q \in ServiceState /\ q.phase = phase
  <2>1. st.services[s] \in ServiceState
    BY SoundFields
  <2> QED
    BY <1>3, <1>6, <2>1 DEF ServiceState
<1>8. /\ told.st \in SoundState /\ told.st.members = st.members
  BY <1>1, ToldQuiet DEF QuietStep, Quiet, Leads, LeavesStorage
<1>9. \A t \in Services : Undisturbed(st.services[t], told.st.services[t])
  BY <1>1, ToldCalm DEF Undisturbed
<1>10. Silent(told.out)
  BY <1>1, ToldCalm
<1>11. Silent(out)
  BY <1>4, <1>10, SilentCommands DEF Silent
<1>12. /\ Tells(st, Put(told.st, s, q), out, s)
       /\ Put(told.st, s, q).services[s] = q
       /\ Rooted(st) /\ st.services[s].phase.tag # "Running" => Rooted(Put(told.st, s, q))
  <2>1. ~Stoppable(q)
    BY <1>7 DEF Stoppable
  <2> QED
    BY <1>7, <1>8, <1>9, <1>11, <2>1, TellsPut
<1>13. step.st = Put(told.st, s, q) /\ step.out = out
  BY <1>5, StepFields
<1>14. \A t \in Services \ {s} : step.st.services[t].phase = st.services[t].phase
  <2>1. \A t \in Services : Put(told.st, s, q).services[t] = IF t = s THEN q ELSE told.st.services[t]
    <3>1. told.st \in LifecycleState
      BY <1>8, SoundMembers
    <3> QED
      BY <1>7, <3>1, PutServices
  <2>2. \A t \in Services : told.st.services[t].phase = st.services[t].phase
    BY <1>9 DEF Undisturbed, SameHealth
  <2> QED
    BY <1>13, <2>1, <2>2
<1>15. st.services[s].phase.tag # "Stopped" /\ ~Stoppable(q)
  BY <1>7 DEF Stoppable
<1> QED
  BY <1>7, <1>11, <1>12, <1>13, <1>14, <1>15 DEF Downed

\* A launch that failed ends its generation, if it was starting.
LEMMA LaunchFailedTells ==
  ASSUME NEW st \in SoundState, NEW s, NEW g, NEW quiet, NEW step, step = LaunchFailed(st, s, g, quiet)
  PROVE  \/ ~AtPhase(st, s, g, {"Starting"}) /\ step = Ignored(st)
         \/ /\ Downed(st, step.st, step.out, s, g) /\ ~WindsDown(step.st.services[s])
            /\ st.services[s].phase.tag = "Starting"
<1>1. CASE AtPhase(st, s, g, {"Starting"})
  <2>1. /\ s \in Services /\ g \in Nat /\ st.services[s].phase.tag = "Starting"
        /\ st.services[s].phase.generation = g
    <3>1. AtPhase(st, s, g, {"Starting", "Running"}) /\ st.services[s].phase.tag = "Starting"
      BY <1>1 DEF AtPhase
    <3> QED
      BY <3>1, AtPhaseFacts
  <2>2. Failed(g) \in Phase /\ Failed(g).tag = "Failed" /\ Failed(g).generation = g
    BY <2>1, Phases
  <2>3. step = recordFailure(st, s, g, quiet, Failed(g))
    BY <1>1 DEF LaunchFailed
  <2>4. Stoppable(st.services[s]) /\ s \in st.members
    BY <1>1, <2>1 DEF Stoppable, AtPhase
  <2>5. Downed(st, step.st, step.out, s, g) /\ step.st.services[s].phase = Failed(g)
    BY <2>1, <2>2, <2>3, <2>4, RecordDowned
  <2> QED
    BY <2>1, <2>2, <2>5 DEF WindsDown
<1> QED
  BY <1>1 DEF LaunchFailed

\* What a prerequisite needs is needed.
LEMMA ClosureTransitive ==
  ASSUME NEW s \in Services, NEW p \in prerequisiteClosure[s], NEW r \in prerequisiteClosure[p]
  PROVE  r \in prerequisiteClosure[s]
<1>1. p \in Services /\ r \in Services
  BY DEF prerequisiteClosure
<1>2. ASSUME NEW T \in SUBSET Services, Prerequisites[s] \subseteq T,
             \A t \in T : Prerequisites[t] \subseteq T
      PROVE  r \in T
  <2>1. p \in T
    BY <1>2 DEF prerequisiteClosure
  <2>2. Prerequisites[p] \subseteq T
    BY <1>2, <2>1
  <2> QED
    BY <1>1, <1>2, <2>2 DEF prerequisiteClosure
<1> QED
  BY <1>1, <1>2 DEF prerequisiteClosure

\* The dependents of s that are up are stopped.
LEMMA DependentsStopped ==
  ASSUME NEW st \in SoundState, NEW s \in Services, NEW rest, rest = stopDependentsOfLostSession(st, s)
  PROVE  /\ rest = Step(rest.st, rest.out)
         /\ rest.st.members = st.members
         /\ \A d \in Services :
              /\ rest.st.services[d].breaker = st.services[d].breaker
              /\ d \notin dependentsUp(st, s) => rest.st.services[d] = st.services[d]
              /\ d \in dependentsUp(st, s) =>
                   /\ rest.st.services[d].phase.tag = "Stopping"
                   /\ rest.st.services[d].phase.generation = st.services[d].phase.generation
                   /\ Stop(d, st.services[d].phase.generation) \in rest.out
         /\ \A x \in rest.out : \E d \in dependentsUp(st, s) :
              x = Stop(d, st.services[d].phase.generation)
<1>1. PICK up : up = dependentsUp(st, s)
  OBVIOUS
<1>2. PICK sv : sv = [d \in Services |->
             IF d \in up
               THEN [st.services[d] EXCEPT !.phase = Stopping(@.generation, FALSE)]
               ELSE st.services[d]]
  OBVIOUS
<1>3. PICK out : out = {Stop(d, st.services[d].phase.generation) : d \in up}
  OBVIOUS
<1>4. PICK new : new = [st EXCEPT !.services = sv]
  OBVIOUS
<1>5. rest = Step(new, out)
  BY <1>1, <1>2, <1>3, <1>4 DEF stopDependentsOfLostSession
<1>6. ASSUME NEW d \in Services
      PROVE  /\ sv[d] \in ServiceState
             /\ sv[d].breaker = st.services[d].breaker
             /\ d \notin up => sv[d] = st.services[d]
             /\ d \in up => /\ sv[d].phase.tag = "Stopping"
                            /\ sv[d].phase.generation = st.services[d].phase.generation
  <2>1. st.services[d] \in ServiceState
    BY SoundFields
  <2>2. CASE d \notin up
    BY <1>2, <2>1, <2>2
  <2>3. CASE d \in up
    <3>1. PICK phase : phase = Stopping(st.services[d].phase.generation, FALSE)
      OBVIOUS
    <3>2. phase \in Phase /\ phase.tag = "Stopping"
          /\ phase.generation = st.services[d].phase.generation
      BY <3>1, SoundFields, Phases
    <3>3. sv[d] = [st.services[d] EXCEPT !.phase = phase]
      BY <1>2, <2>3, <3>1
    <3>4. sv[d] \in ServiceState /\ sv[d].phase = phase /\ sv[d].breaker = st.services[d].breaker
      BY <2>1, <3>2, <3>3 DEF ServiceState
    <3> QED
      BY <2>3, <3>2, <3>4
  <2> QED
    BY <2>2, <2>3
<1>7. sv \in [Services -> ServiceState]
  BY <1>2, <1>6
<1>8. new.members = st.members /\ new.services = sv
  BY <1>4, <1>7, ServicesFields
<1>9. rest.st = new /\ rest.out = out
  BY <1>5, StepFields
<1>10. ASSUME NEW d \in Services
       PROVE  /\ rest.st.services[d].breaker = st.services[d].breaker
              /\ d \notin up => rest.st.services[d] = st.services[d]
              /\ d \in up => /\ rest.st.services[d].phase.tag = "Stopping"
                             /\ rest.st.services[d].phase.generation = st.services[d].phase.generation
                             /\ Stop(d, st.services[d].phase.generation) \in rest.out
  BY <1>3, <1>6, <1>8, <1>9
<1>11. \A x \in rest.out : \E d \in up : x = Stop(d, st.services[d].phase.generation)
  BY <1>3, <1>9
<1>12. rest = Step(rest.st, rest.out)
  BY <1>5, <1>9
<1> QED
  BY <1>1, <1>8, <1>9, <1>10, <1>11, <1>12

\* A session that is lost brings its service down, and all that stands on it.
LEMMA SessionLostTells ==
  ASSUME NEW st \in SoundState, NEW s, NEW g, NEW quiet, NEW step, step = SessionLost(st, s, g, quiet)
  PROVE  \/ ~AtPhase(st, s, g, {"Starting", "Running"}) /\ step = Ignored(st)
         \/ /\ Downed(st, step.st, step.out, s, g) /\ Stoppable(st.services[s])
            /\ Rooted(st) => Rooted(step.st)
<1>1. CASE AtPhase(st, s, g, {"Starting", "Running"})
  <2>1. /\ s \in Services /\ g \in Nat /\ st.services[s].phase.tag \in {"Starting", "Running"}
        /\ st.services[s].phase.generation = g
    BY <1>1, AtPhaseFacts
  <2>0. PICK phase : phase = Stopping(g, TRUE)
    OBVIOUS
  <2>2. phase \in Phase /\ phase.tag = "Stopping" /\ phase.generation = g
    BY <2>0, <2>1, Phases
  <2>3. Stoppable(st.services[s]) /\ s \in st.members
    BY <1>1, <2>1 DEF Stoppable, AtPhase
  <2>4. PICK lost : lost = recordFailure(st, s, g, quiet, phase)
    OBVIOUS
  <2>5. /\ Downed(st, lost.st, lost.out, s, g) /\ lost.st.services[s].phase = phase
        /\ Silent(lost.out)
        /\ \A t \in Services \ {s} : lost.st.services[t].phase = st.services[t].phase
    BY <2>1, <2>2, <2>3, <2>4, RecordDowned
  <2>6. lost.st \in SoundState
    <3>1. QuietStep(st, lost, {})
      BY <2>1, <2>2, <2>4, RecordQuiet
    <3> QED
      BY <3>1 DEF QuietStep, Quiet, Leads
  <2>7. PICK a \in SoundState : a = lost.st
    BY <2>6
  <2>8. PICK rest : rest = stopDependentsOfLostSession(a, s)
    OBVIOUS
  <2>9. PICK up : up = dependentsUp(a, s)
    OBVIOUS
  <2>10. /\ rest = Step(rest.st, rest.out)
         /\ rest.st.members = a.members
         /\ \A d \in Services :
              /\ rest.st.services[d].breaker = a.services[d].breaker
              /\ d \notin up => rest.st.services[d] = a.services[d]
              /\ d \in up =>
                   /\ rest.st.services[d].phase.tag = "Stopping"
                   /\ rest.st.services[d].phase.generation = a.services[d].phase.generation
                   /\ Stop(d, a.services[d].phase.generation) \in rest.out
         /\ \A x \in rest.out : \E d \in up : x = Stop(d, a.services[d].phase.generation)
    BY <2>1, <2>8, <2>9, DependentsStopped
  <2>11. step = Step(rest.st, rest.out \union lost.out)
    <3>1. step = Also(rest, lost.out)
      BY <1>1, <2>0, <2>4, <2>7, <2>8 DEF SessionLost
    <3>2. Also(Step(rest.st, rest.out), lost.out) = Step(rest.st, rest.out \union lost.out)
      BY AlsoFields
    <3>3. rest = Step(rest.st, rest.out)
      BY <2>10
    <3> QED
      BY <3>1, <3>2, <3>3
  <2>12. PICK out : out = rest.out \union lost.out
    OBVIOUS
  <2>13. step.st = rest.st /\ step.out = out
    BY <2>11, <2>12, StepFields
  <2>14. /\ a.members = st.members /\ a.services[s].phase = phase
         /\ \A t \in Services \ {s} : a.services[t].phase = st.services[t].phase
                                      /\ CalmService(t, st.services[t], a.services[t], lost.out)
         /\ a.services[s].breaker.failures > st.services[s].breaker.failures => Stoppable(st.services[s])
    BY <2>5, <2>7 DEF Downed, Tells
  <2>15. up = {d \in Dependents(st, s) : a.services[d].phase.tag \in {"Starting", "Running"}}
    BY <2>9, <2>14 DEF dependentsUp, Dependents
  <2>16. up \subseteq Services /\ s \notin up
    <3>1. s \notin up
      BY <2>2, <2>14, <2>15
    <3> QED
      BY <2>15, <3>1, SoundMembers DEF Dependents
  <2>17. ASSUME NEW t \in Services \ {s}
         PROVE  CalmService(t, st.services[t], rest.st.services[t], out)
    <3>1. CalmService(t, st.services[t], a.services[t], lost.out)
      BY <2>14
    <3>2. rest.st.services[t].breaker.failures <= st.services[t].breaker.failures
      BY <2>10, <3>1 DEF CalmService
    <3>3. CASE t \notin up
      <4>1. rest.st.services[t] = a.services[t]
        BY <2>10, <3>3
      <4> QED
        BY <2>12, <3>1, <4>1 DEF CalmService
    <3>4. CASE t \in up
      <4>1. /\ rest.st.services[t].phase.tag = "Stopping"
            /\ rest.st.services[t].phase.generation = st.services[t].phase.generation
            /\ Stop(t, rest.st.services[t].phase.generation) \in out
        BY <2>10, <2>12, <2>14, <3>4
      <4> QED
        BY <3>2, <4>1 DEF CalmService, Stoppable
    <3> QED
      BY <3>3, <3>4
  <2>18. ASSUME NEW x \in out
         PROVE  /\ x.tag \notin {"Launch", "Reprobe"}
                /\ x.tag = "Stop" => ~UpAt(rest.st.services[x.id], x.generation)
    <3>1. CASE x \in lost.out
      BY <2>5, <3>1 DEF Silent
    <3>2. CASE x \in rest.out
      <4>1. PICK d \in up : x = Stop(d, a.services[d].phase.generation)
        BY <2>10, <3>2
      <4>2. x.tag = "Stop" /\ x.id = d
        BY <4>1, StopFields
      <4>3. rest.st.services[d].phase.tag = "Stopping"
        BY <2>10, <2>16
      <4> QED
        BY <4>2, <4>3 DEF UpAt, Stoppable
    <3> QED
      BY <2>12, <3>1, <3>2
  <2>19. rest.st.members = st.members
    BY <2>10, <2>14
  <2>20. rest.st.services[s] = a.services[s]
    BY <2>1, <2>10, <2>16
  <2>21. ASSUME Rooted(st)
         PROVE  Rooted(rest.st)
    <3>1. ASSUME NEW t \in Services, Stoppable(rest.st.services[t])
          PROVE  t \notin up /\ t # s /\ Stoppable(st.services[t]) /\ t \in st.members
      <4>1. t \notin up
        BY <2>10, <3>1 DEF Stoppable
      <4>2. t # s
        BY <2>2, <2>14, <2>20, <3>1 DEF Stoppable
      <4>3. rest.st.services[t].phase = st.services[t].phase
        BY <2>10, <2>14, <4>1, <4>2
      <4> QED
        BY <2>21, <3>1, <4>1, <4>2, <4>3 DEF Rooted, Stoppable
    <3>2. ASSUME NEW t \in Services, Stoppable(rest.st.services[t]), NEW p \in prerequisiteClosure[t]
          PROVE  p \in st.members /\ rest.st.services[p].phase.tag = "Running"
      <4>0. t \notin up /\ t # s /\ Stoppable(st.services[t]) /\ t \in st.members
        BY <3>1, <3>2
      <4>1. p \in Services
        BY DEF prerequisiteClosure
      <4>2. p \in st.members /\ st.services[p].phase.tag = "Running"
        BY <2>21, <4>0 DEF Rooted
      <4>3. s \notin prerequisiteClosure[t]
        <5>1. a.services[t].phase = st.services[t].phase
          BY <2>14, <4>0
        <5> QED
          BY <2>1, <2>15, <4>0, <5>1 DEF Dependents, transitiveDependents, Stoppable
      <4>4. p # s /\ p \notin up
        <5>1. p \in up => s \in prerequisiteClosure[p]
          BY <2>1, <2>15 DEF Dependents, transitiveDependents
        <5> QED
          BY <4>3, <5>1, ClosureTransitive
      <4> QED
        BY <2>10, <2>14, <4>1, <4>2, <4>4
    <3> QED
      BY <2>19, <3>1, <3>2 DEF Rooted
  <2>22. Tells(st, rest.st, out, s)
    BY <2>17, <2>18, <2>19 DEF Tells, CalmOut
  <2>23. Downed(st, rest.st, out, s, g)
    <3>1. ~Stoppable(rest.st.services[s]) /\ rest.st.services[s].phase.generation = g
      BY <2>2, <2>14, <2>20 DEF Stoppable
    <3>2. st.services[s].phase.tag # "Stopped"
      BY <2>1
    <3> QED
      BY <2>1, <2>3, <2>21, <2>22, <3>1, <3>2 DEF Downed
  <2> QED
    BY <2>3, <2>13, <2>21, <2>23
<1> QED
  BY <1>1 DEF SessionLost

\* An execution that is over ends its generation.
LEMMA ExitedTells ==
  ASSUME NEW st \in SoundState, NEW s, NEW g \in Nat \ {0}, NEW requested, NEW step,
         step = Exited(st, s, g, requested)
  PROVE  \/ ~AtPhase(st, s, g, {"Stopping"}) /\ step = Ignored(st)
         \/ Downed(st, step.st, step.out, s, g) /\ ~WindsDown(step.st.services[s])
<1>1. PICK stopping \in BOOLEAN : stopping <=> st.services[s].phase.tag = "Stopping"
  OBVIOUS
<1>2. PICK phase : phase = IF stopping /\ st.services[s].intent # "stopped"
                              /\ st.services[s].phase.crash THEN Failed(g) ELSE Stopped
  OBVIOUS
<1>3. PICK q : q = [st.services[s] EXCEPT !.phase = phase,
                               !.idleArmedEpoch = 0, !.readinessFailure = FALSE,
                               !.reprobing = FALSE, !.cleanupFailure = FALSE]
  OBVIOUS
<1>4. CASE s \in st.members /\ Current(st.services[s], g) /\ (stopping \/ requested)
  <2>1. s \in Services /\ st.services[s].phase.generation = g
    BY <1>4, SoundMembers DEF Current
  <2>2. st.services[s] \in ServiceState /\ st.services[s].phase.tag # "Stopped"
    BY <2>1, SoundFields DEF SoundService
  <2>3. /\ phase \in Phase
        /\ \/ phase.tag = "Failed" /\ phase.generation = g
           \/ phase.tag = "Stopped" /\ phase.generation = 0
    BY <1>2, Phases
  <2>4. /\ q \in ServiceState /\ q.phase = phase /\ q.breaker = st.services[s].breaker
    BY <1>3, <2>2, <2>3 DEF ServiceState
  <2>5. \A t \in Services : Undisturbed(st.services[t], st.services[t])
    BY DEF Undisturbed, SameHealth
  <2>6. /\ Tells(st, Put(st, s, q), {}, s)
        /\ Put(st, s, q).services[s] = q
        /\ Rooted(st) /\ st.services[s].phase.tag # "Running" => Rooted(Put(st, s, q))
    <3>1. ~Stoppable(q)
      BY <2>3, <2>4 DEF Stoppable
    <3>2. Silent({})
      BY SilentCommands
    <3> QED
      BY <2>1, <2>4, <2>5, <3>1, <3>2, TellsPut
  <2>7. step.st = Put(st, s, q) /\ step.out = {}
    <3>1. step = Step(Put(st, s, q), {})
      BY <1>1, <1>2, <1>3, <1>4 DEF Exited
    <3> QED
      BY <3>1, StepFields
  <2>8. st.services[s].breaker.failures \in Nat
    BY <2>1, FailuresTyped
  <2>9. ~Stoppable(q) /\ ~WindsDown(q) /\ (q.phase.tag # "Stopped" => q.phase.generation = g)
    BY <2>3, <2>4 DEF Stoppable, WindsDown
  <2> QED
    BY <1>4, <2>1, <2>2, <2>4, <2>6, <2>7, <2>8, <2>9 DEF Downed
<1>5. CASE ~(s \in st.members /\ Current(st.services[s], g) /\ (stopping \/ requested))
  <2>1. step = Ignored(st)
    BY <1>1, <1>5 DEF Exited
  <2>2. ~AtPhase(st, s, g, {"Stopping"})
    BY <1>1, <1>5 DEF AtPhase, Current
  <2> QED
    BY <2>1, <2>2
<1> QED
  BY <1>4, <1>5

\* A stop that failed leaves its generation winding down, for a retry.
LEMMA StopFailedTells ==
  ASSUME NEW st \in SoundState, NEW s, NEW g \in Nat \ {0}, NEW failure \in BOOLEAN, NEW quiet,
         NEW step, step = StopFailed(st, s, g, failure, quiet)
  PROVE  \/ /\ ~(s \in st.members /\ st.services[s].phase.generation = g)
            /\ step = Ignored(st)
         \/ Downed(st, step.st, step.out, s, g) /\ ~WindsDown(step.st.services[s])
<1>1. CASE s \in st.members /\ Current(st.services[s], g)
  <2>1. PICK told : told = failExplicitDependentWaiters(st, s)
    OBVIOUS
  <2>2. PICK breaker : breaker = IF Counts(st.services[s], failure)
                                   THEN countFailure(st.services[s].breaker, g, quiet)
                                   ELSE st.services[s].breaker
    OBVIOUS
  <2>3. PICK phase : phase = Stopping(g, IF st.services[s].phase.tag = "Stopping"
                                           THEN st.services[s].phase.crash ELSE failure)
    OBVIOUS
  <2>4. PICK q : q = [st.services[s] EXCEPT !.phase = phase, !.waiters = {},
                      !.breaker = breaker, !.idleArmedEpoch = 0, !.relaunchForced = FALSE,
                      !.readinessFailure = FALSE, !.reprobing = FALSE, !.cleanupFailure = TRUE]
    OBVIOUS
  <2>5. PICK timer : timer = IF Counts(st.services[s], failure) THEN cooldown(s, breaker) ELSE {}
    OBVIOUS
  <2>6. PICK out : out = told.out \union failAllWaiters(s, st.services[s]) \union timer
    OBVIOUS
  <2>7. step = Step(Put(told.st, s, q), out)
    BY <1>1, <2>1, <2>2, <2>3, <2>4, <2>5, <2>6 DEF StopFailed
  <2>8. s \in Services /\ st.services[s].phase.generation = g
    BY <1>1, SoundMembers DEF Current
  <2>9. /\ st.services[s] \in ServiceState /\ st.services[s].phase.tag # "Stopped"
        /\ st.services[s].phase \in Phase
    BY <2>8, SoundFields DEF SoundService
  <2>10. breaker \in [failures : Nat, openUntil : Nat]
    BY <2>2, <2>9, CountTyped DEF ServiceState
  <2>11. phase \in Phase /\ phase.tag = "Stopping" /\ phase.generation = g
    <3>1. (IF st.services[s].phase.tag = "Stopping" THEN st.services[s].phase.crash ELSE failure)
            \in BOOLEAN
      BY <2>9 DEF Phase
    <3> QED
      BY <2>3, <2>8, <3>1, Phases
  <2>12. /\ q \in ServiceState /\ q.phase = phase /\ q.breaker = breaker /\ q.cleanupFailure
    BY <2>4, <2>9, <2>10, <2>11 DEF ServiceState
  <2>13. /\ told.st \in SoundState /\ told.st.members = st.members
    BY <2>1, <2>8, ToldQuiet DEF QuietStep, Quiet, Leads, LeavesStorage
  <2>14. \A t \in Services : Undisturbed(st.services[t], told.st.services[t])
    BY <2>1, <2>8, ToldCalm DEF Undisturbed
  <2>15. Silent(told.out)
    BY <2>1, <2>8, ToldCalm
  <2>16. Silent(timer)
    BY <2>5, SilentCommands
  <2>17. Silent(out)
    BY <2>6, <2>15, <2>16, SilentCommands DEF Silent
  <2>18. ~Stoppable(q) /\ ~WindsDown(q) /\ q.phase.generation = g
    BY <2>11, <2>12 DEF Stoppable, WindsDown
  <2>19. PICK a \in SoundState : a = told.st
    BY <2>13
  <2>20. a.members = st.members
    BY <2>13, <2>19
  <2>21. \A t \in Services : Undisturbed(st.services[t], a.services[t])
    BY <2>14, <2>19
  <2>22. /\ Tells(st, Put(a, s, q), out, s)
         /\ Put(a, s, q).services[s] = q
         /\ Rooted(st) /\ (Stoppable(q) => Stoppable(st.services[s]))
              /\ (st.services[s].phase.tag = "Running" => q.phase.tag = "Running")
              => Rooted(Put(a, s, q))
    BY <2>8, <2>12, <2>17, <2>20, <2>21, TellsPut
  <2>23. step.st = Put(a, s, q) /\ step.out = out
    BY <2>7, <2>19, StepFields
  <2>24. q.breaker.failures > st.services[s].breaker.failures => Stoppable(st.services[s])
    <3>1. CASE Counts(st.services[s], failure)
      BY <2>9, <3>1 DEF Counts, Stoppable, Phase
    <3>2. CASE ~Counts(st.services[s], failure)
      <4>1. st.services[s].breaker.failures \in Nat
        BY <2>8, FailuresTyped
      <4> QED
        BY <2>2, <2>12, <3>2, <4>1
    <3> QED
      BY <3>1, <3>2
  <2> QED
    BY <1>1, <2>8, <2>9, <2>18, <2>22, <2>23, <2>24 DEF Downed
<1>2. CASE ~(s \in st.members /\ Current(st.services[s], g))
  BY <1>2 DEF StopFailed, Current
<1> QED
  BY <1>1, <1>2
-----------------------------------------------------------------------------
(* What an event does to the waits and the leases of the services.          *)

\* Every wait that ends without a lease has its answer, and no lease moves.
Drained(s, p, q, out) ==
  /\ q.leases = p.leases /\ q.waiters \subseteq p.waiters
  /\ \A c \in Clients : Fail(s, c) \in out => \E w \in p.waiters \ q.waiters : w.client = c

\* Nobody is admitted.
Drains(st, new, out) ==
  /\ new.members \subseteq st.members
  /\ \A s \in new.members : Drained(s, st.services[s], new.services[s], out)
  /\ \A x \in out : x.tag # "AdmitConnection"

DrainStep(st, step) == Drains(st, step.st, step.out)

\* Commands that answer no wait.
Mute(out) == \A x \in out : x.tag \notin {"AdmitConnection", "FailConnection"}

\* The commands of the waits, field by field.
LEMMA AnswerFields ==
  ASSUME NEW s, NEW c
  PROVE  /\ Fail(s, c).tag = "FailConnection" /\ Fail(s, c).id = s /\ Fail(s, c).client = c
         /\ Admit(s, c).tag = "AdmitConnection" /\ Admit(s, c).id = s /\ Admit(s, c).client = c
BY DEF Fail, Admit, WaiterCommand

\* Stops, refusals and timers answer no wait.
LEMMA MuteCommands ==
  /\ Mute({})
  /\ \A s, g : Mute({Stop(s, g)})
  /\ \A s : Mute({Rejected(s)})
  /\ \A s, b : Mute(cooldown(s, b))
  /\ \A s, p : Mute(StopNow(s, p))
BY DEF Mute, Stop, Rejected, cooldown, StopNow, LifecycleCommand

\* An event that leaves the waits and the leases alone.
LEMMA MuteDrains ==
  ASSUME NEW st, NEW new, NEW out, new.members \subseteq st.members,
         \A s \in new.members : /\ new.services[s].leases = st.services[s].leases
                                /\ new.services[s].waiters = st.services[s].waiters,
         Mute(out)
  PROVE  Drains(st, new, out)
BY AnswerFields DEF Drains, Drained, Mute

\* One event after another.
LEMMA DrainsOn ==
  ASSUME NEW st, NEW a, NEW b, NEW o1, NEW o2, Drains(st, a, o1), Drains(a, b, o2)
  PROVE  Drains(st, b, o1 \union o2)
<1>1. ASSUME NEW s \in b.members
      PROVE  Drained(s, st.services[s], b.services[s], o1 \union o2)
  <2>1. Drained(s, st.services[s], a.services[s], o1) /\ Drained(s, a.services[s], b.services[s], o2)
    BY DEF Drains
  <2> QED
    BY <2>1 DEF Drained
<1> QED
  BY <1>1 DEF Drains

\* One service replaced.
LEMMA PutDrains ==
  ASSUME NEW st \in LifecycleState, NEW s \in Services, NEW q, NEW out,
         Drained(s, st.services[s], q, out),
         \A x \in out : x.tag # "AdmitConnection" /\ (x.tag = "FailConnection" => x.id = s)
  PROVE  Drains(st, Put(st, s, q), out)
<1>1. /\ Put(st, s, q).members = st.members
      /\ \A t \in st.members : Put(st, s, q).services[t] = IF t = s THEN q ELSE st.services[t]
  BY DEF Put, LifecycleState
<1>2. \A t \in st.members : t # s => Drained(t, st.services[t], st.services[t], out)
  BY AnswerFields DEF Drained
<1> QED
  BY <1>1, <1>2 DEF Drains

\* One service replaced by another with the same waits and leases.
LEMMA PutMute ==
  ASSUME NEW st \in LifecycleState, NEW s \in Services, NEW q, NEW out,
         q.leases = st.services[s].leases, q.waiters = st.services[s].waiters, Mute(out)
  PROVE  Drains(st, Put(st, s, q), out)
BY PutDrains, AnswerFields DEF Drained, Mute

\* Many services replaced.
LEMMA EachDrains ==
  ASSUME NEW st \in LifecycleState, NEW sv, NEW out,
         \A d \in Services : Drained(d, st.services[d], sv[d], out),
         \A x \in out : x.tag # "AdmitConnection"
  PROVE  Drains(st, [st EXCEPT !.services = sv], out)
<1>1. PICK new : new = [st EXCEPT !.services = sv]
  OBVIOUS
<1>2. new.members = st.members /\ new.services = sv /\ st.members \subseteq Services
  BY <1>1 DEF LifecycleState
<1>3. Drains(st, new, out)
  BY <1>2 DEF Drains
<1> QED
  BY <1>1, <1>3

\* An event that is ignored.
LEMMA IgnoredDrains ==
  ASSUME NEW st
  PROVE  DrainStep(st, Ignored(st))
BY MuteDrains, StepFields, MuteCommands DEF DrainStep, Ignored

\* A request that is refused.
LEMMA RefusedDrains ==
  ASSUME NEW st, NEW s
  PROVE  DrainStep(st, Refused(st, s))
BY MuteDrains, StepFields, MuteCommands DEF DrainStep, Refused

\* No service needs itself.
LEMMA Acyclic ==
  ASSUME NEW s \in Services
  PROVE  s \notin transitiveDependents[s]
<1>1. PICK i \in DOMAIN Order : Order[i] = s
  BY OrderAssumption
<1>2. i \in Nat /\ ~(i < i)
  BY OrderAssumption
<1>3. s \notin prerequisiteClosure[s]
  BY <1>1, <1>2, OrderAssumption
<1> QED
  BY <1>3 DEF transitiveDependents

\* The explicit waits on the dependents end, each with its answer.
LEMMA ToldDrains ==
  ASSUME NEW st \in SoundState, NEW s \in Services
  PROVE  /\ DrainStep(st, failExplicitDependentWaiters(st, s))
         /\ failExplicitDependentWaiters(st, s).st \in LifecycleState
         /\ failExplicitDependentWaiters(st, s).st.services[s] = st.services[s]
<1>1. PICK sv : sv = [d \in Services |->
                        IF d \in Dependents(st, s)
                          THEN [st.services[d] EXCEPT !.waiters = @ \ Explicit(st.services[d])]
                          ELSE st.services[d]]
  OBVIOUS
<1>2. PICK out : out = UNION {{Fail(d, w.client) : w \in Explicit(st.services[d])} : d \in Dependents(st, s)}
  OBVIOUS
<1>3. PICK new : new = [st EXCEPT !.services = sv]
  OBVIOUS
<1>4. failExplicitDependentWaiters(st, s) = Step(new, out)
  BY <1>1, <1>2, <1>3 DEF failExplicitDependentWaiters
<1>5. \A x \in out : \E d \in Dependents(st, s) : \E w \in Explicit(st.services[d]) :
        x = Fail(d, w.client)
  BY <1>2
<1>6. \A x \in out : x.tag # "AdmitConnection"
  BY <1>5, AnswerFields
<1>7. ASSUME NEW d \in Services
      PROVE  Drained(d, st.services[d], sv[d], out)
  <2>1. st.services[d] \in ServiceState
    BY SoundFields
  <2>2. CASE d \in Dependents(st, s)
    <3>1. sv[d].leases = st.services[d].leases
          /\ sv[d].waiters = st.services[d].waiters \ Explicit(st.services[d])
      BY <1>1, <2>1, <2>2 DEF ServiceState
    <3>2. ASSUME NEW c \in Clients, Fail(d, c) \in out
          PROVE  \E w \in st.services[d].waiters \ sv[d].waiters : w.client = c
      <4>1. PICK e \in Dependents(st, s) : \E w \in Explicit(st.services[e]) : Fail(d, c) = Fail(e, w.client)
        BY <1>5, <3>2
      <4>2. PICK w \in Explicit(st.services[e]) : Fail(d, c) = Fail(e, w.client)
        BY <4>1
      <4>3. e = d /\ w.client = c
        BY <4>2, AnswerFields
      <4> QED
        BY <3>1, <4>2, <4>3 DEF Explicit
    <3> QED
      BY <3>1, <3>2 DEF Drained
  <2>3. CASE d \notin Dependents(st, s)
    <3>1. sv[d] = st.services[d]
      BY <1>1, <2>3
    <3>2. ASSUME NEW c \in Clients, Fail(d, c) \in out
          PROVE  FALSE
      <4>1. PICK e \in Dependents(st, s) : \E w \in Explicit(st.services[e]) : Fail(d, c) = Fail(e, w.client)
        BY <1>5, <3>2
      <4>2. e = d
        BY <4>1, AnswerFields
      <4> QED
        BY <2>3, <4>1, <4>2
    <3> QED
      BY <3>1, <3>2 DEF Drained
  <2> QED
    BY <2>2, <2>3
<1>8. st \in LifecycleState
  BY SoundMembers
<1>9. Drains(st, new, out)
  BY <1>3, <1>6, <1>7, <1>8, EachDrains
<1>10. new.services[s] = st.services[s]
  <2>1. s \notin Dependents(st, s)
    BY Acyclic DEF Dependents
  <2> QED
    BY <1>1, <1>3, <1>8, <2>1 DEF LifecycleState
<1>11. failExplicitDependentWaiters(st, s).st \in LifecycleState
  BY ToldQuiet, SoundMembers DEF QuietStep, Quiet, Leads
<1> QED
  BY <1>4, <1>9, <1>10, <1>11, StepFields DEF DrainStep

\* Blocked cleanups are tried again: no wait ends.
LEMMA RetryDrains ==
  ASSUME NEW st \in LifecycleState, NEW Ss
  PROVE  DrainStep(st, retryCleanups(st, Ss))
<1>1. PICK sv : sv = [s \in Services |->
                        IF s \in CleanupsPending(st, Ss)
                          THEN [st.services[s] EXCEPT !.cleanupFailure = FALSE] ELSE st.services[s]]
  OBVIOUS
<1>2. PICK out : out = {Stop(s, st.services[s].phase.generation) : s \in CleanupsPending(st, Ss)}
  OBVIOUS
<1>3. PICK new : new = [st EXCEPT !.services = sv]
  OBVIOUS
<1>4. retryCleanups(st, Ss) = Step(new, out)
  BY <1>1, <1>2, <1>3 DEF retryCleanups
<1>5. Mute(out)
  BY <1>2 DEF Mute, Stop, LifecycleCommand
<1>6. new.members = st.members /\ new.services = sv /\ st.members \subseteq Services
  BY <1>3 DEF LifecycleState
<1>7. ASSUME NEW d \in Services
      PROVE  sv[d].leases = st.services[d].leases /\ sv[d].waiters = st.services[d].waiters
  <2>1. st.services[d] \in ServiceState
    BY DEF LifecycleState
  <2> QED
    BY <1>1, <2>1 DEF ServiceState
<1>8. Drains(st, new, out)
  BY <1>5, <1>6, <1>7, MuteDrains
<1> QED
  BY <1>4, <1>8, StepFields DEF DrainStep

\* Nor when prerequisites are armed again.
LEMMA RearmDrains ==
  ASSUME NEW st \in LifecycleState, NEW s \in Services
  PROVE  Drains(st, rearmPrerequisites(st, s), {})
<1>1. PICK sv : sv = [p \in Services |->
                        IF p \in prerequisiteClosure[s] \intersect st.members
                           /\ st.services[p].intent = "stopped"
                          THEN [st.services[p] EXCEPT !.intent = Activation[p]] ELSE st.services[p]]
  OBVIOUS
<1>2. PICK new : new = rearmPrerequisites(st, s)
  OBVIOUS
<1>3. new = [st EXCEPT !.services = sv]
  BY <1>1, <1>2 DEF rearmPrerequisites
<1>4. new.members = st.members /\ new.services = sv /\ st.members \subseteq Services
  BY <1>3 DEF LifecycleState
<1>5. ASSUME NEW d \in Services
      PROVE  sv[d].leases = st.services[d].leases /\ sv[d].waiters = st.services[d].waiters
  <2>1. st.services[d] \in ServiceState
    BY DEF LifecycleState
  <2> QED
    BY <1>1, <2>1 DEF ServiceState
<1>6. Drains(st, new, {})
  BY <1>4, <1>5, MuteDrains, MuteCommands
<1> QED
  BY <1>2, <1>6

\* A session that is running, whatever its readiness.
LEMMA RunsDrains ==
  ASSUME NEW st \in SoundState, NEW s \in Services, NEW g, NEW ready
  PROVE  DrainStep(st, Step(Put(st, s, [st.services[s] EXCEPT !.phase = Running(g, ready),
                              !.readinessFailure = FALSE, !.reprobing = FALSE]), {}))
<1>1. PICK q : q = [st.services[s] EXCEPT !.phase = Running(g, ready),
                                          !.readinessFailure = FALSE, !.reprobing = FALSE]
  OBVIOUS
<1>2. q.leases = st.services[s].leases /\ q.waiters = st.services[s].waiters
  <2>1. st.services[s] \in ServiceState
    BY SoundFields
  <2> QED
    BY <1>1, <2>1 DEF ServiceState
<1>3. Drains(st, Put(st, s, q), {})
  BY <1>2, SoundMembers, PutMute, MuteCommands
<1> QED
  BY <1>1, <1>3, StepFields DEF DrainStep

\* The outcomes of a launch or a check that goes on.
LEMMA CheckedDrains ==
  ASSUME NEW st \in SoundState, NEW s \in Services, NEW g
  PROVE  /\ DrainStep(st, SessionAvailable(st, s, g))
         /\ DrainStep(st, LaunchSucceeded(st, s, g))
         /\ DrainStep(st, ReadinessRecovered(st, s, g))
<1>1. DrainStep(st, Ready(st, s, g))
  BY RunsDrains DEF Ready
<1> QED
  BY <1>1, RunsDrains, IgnoredDrains DEF SessionAvailable, LaunchSucceeded, ReadinessRecovered

\* The waits on s that fail, after the explicit ones on its dependents.
LEMMA ToldPutDrains ==
  ASSUME NEW st \in SoundState, NEW s \in Services, NEW q, NEW F \in SUBSET st.services[s].waiters,
         NEW rest, q.leases = st.services[s].leases, q.waiters = st.services[s].waiters \ F, Mute(rest)
  PROVE  Drains(st, Put(failExplicitDependentWaiters(st, s).st, s, q),
                failExplicitDependentWaiters(st, s).out
                  \union ({Fail(s, w.client) : w \in F} \union rest))
<1>1. PICK told : told = failExplicitDependentWaiters(st, s)
  OBVIOUS
<1>2. Drains(st, told.st, told.out) /\ told.st \in LifecycleState
      /\ told.st.services[s] = st.services[s]
  BY <1>1, ToldDrains DEF DrainStep
<1>3. PICK out : out = {Fail(s, w.client) : w \in F} \union rest
  OBVIOUS
<1>4. \A x \in out : x.tag # "AdmitConnection" /\ (x.tag = "FailConnection" => x.id = s)
  BY <1>3, AnswerFields DEF Mute
<1>5. ASSUME NEW c \in Clients, Fail(s, c) \in out
      PROVE  \E w \in st.services[s].waiters \ q.waiters : w.client = c
  <2>1. PICK w \in F : Fail(s, c) = Fail(s, w.client)
    BY <1>3, <1>5, AnswerFields DEF Mute
  <2>2. w.client = c
    BY <2>1, AnswerFields
  <2> QED
    BY <2>1, <2>2
<1>6. Drained(s, told.st.services[s], q, out)
  BY <1>2, <1>5 DEF Drained
<1>7. Drains(told.st, Put(told.st, s, q), out)
  BY <1>2, <1>4, <1>6, PutDrains
<1>8. Drains(st, Put(told.st, s, q), told.out \union out)
  BY <1>2, <1>7, DrainsOn
<1> QED
  BY <1>1, <1>3, <1>8

\* A failure is recorded, and everybody who waits is told.
LEMMA RecordDrains ==
  ASSUME NEW st \in SoundState, NEW s \in Services, NEW g, NEW quiet, NEW phase
  PROVE  DrainStep(st, recordFailure(st, s, g, quiet, phase))
<1>1. PICK told : told = failExplicitDependentWaiters(st, s)
  OBVIOUS
<1>2. PICK breaker : breaker = countFailure(st.services[s].breaker, g, quiet)
  OBVIOUS
<1>3. PICK q : q = [st.services[s] EXCEPT !.phase = phase, !.waiters = {}, !.breaker = breaker,
                             !.idleArmedEpoch = 0, !.relaunchForced = FALSE,
                             !.readinessFailure = FALSE, !.reprobing = FALSE]
  OBVIOUS
<1>4. recordFailure(st, s, g, quiet, phase)
        = Step(Put(told.st, s, q),
               told.out \union ({Fail(s, w.client) : w \in st.services[s].waiters} \union cooldown(s, breaker)))
  BY <1>1, <1>2, <1>3 DEF recordFailure, failAllWaiters
<1>5. q.leases = st.services[s].leases /\ q.waiters = st.services[s].waiters \ st.services[s].waiters
  <2>1. st.services[s] \in ServiceState
    BY SoundFields
  <2> QED
    BY <1>3, <2>1 DEF ServiceState
<1>6. Mute(cooldown(s, breaker))
  BY MuteCommands
<1>7. Drains(st, Put(told.st, s, q),
             told.out \union ({Fail(s, w.client) : w \in st.services[s].waiters} \union cooldown(s, breaker)))
  BY <1>1, <1>5, <1>6, ToldPutDrains
<1> QED
  BY <1>4, <1>7, StepFields DEF DrainStep

\* A launch fails.
LEMMA LaunchFailedDrains ==
  ASSUME NEW st \in SoundState, NEW s \in Services, NEW g, NEW quiet
  PROVE  DrainStep(st, LaunchFailed(st, s, g, quiet))
BY RecordDrains, IgnoredDrains DEF LaunchFailed

\* A session is lost, and the dependents with it.
LEMMA SessionLostDrains ==
  ASSUME NEW st \in SoundState, NEW s \in Services, NEW g, NEW quiet
  PROVE  DrainStep(st, SessionLost(st, s, g, quiet))
<1>1. CASE AtPhase(st, s, g, {"Starting", "Running"})
  <2>1. PICK lost : lost = recordFailure(st, s, g, quiet, Stopping(g, TRUE))
    OBVIOUS
  <2>2. Drains(st, lost.st, lost.out)
    BY <2>1, RecordDrains DEF DrainStep
  <2>3. lost.st \in SoundState
    <3>1. /\ st.services[s].phase.tag # "Stopped" /\ st.services[s].phase.generation = g /\ g \in Nat
      BY <1>1, AtPhaseFacts
    <3>2. /\ Stopping(g, TRUE) \in Phase /\ Stopping(g, TRUE).tag = "Stopping"
          /\ Stopping(g, TRUE).generation = g
      BY <3>1, Phases
    <3>3. Quiet(st, lost.st, {})
      BY <2>1, <3>1, <3>2, RecordQuiet DEF QuietStep
    <3> QED
      BY <3>3 DEF Quiet, Leads
  <2>4. PICK up : up = dependentsUp(lost.st, s)
    OBVIOUS
  <2>5. PICK sv : sv = [d \in Services |->
               IF d \in up
                 THEN [lost.st.services[d] EXCEPT !.phase = Stopping(@.generation, FALSE)]
                 ELSE lost.st.services[d]]
    OBVIOUS
  <2>6. PICK out : out = {Stop(d, lost.st.services[d].phase.generation) : d \in up}
    OBVIOUS
  <2>7. PICK new : new = [lost.st EXCEPT !.services = sv]
    OBVIOUS
  <2>8. stopDependentsOfLostSession(lost.st, s) = Step(new, out)
    BY <2>4, <2>5, <2>6, <2>7 DEF stopDependentsOfLostSession
  <2>9. Mute(out)
    BY <2>6 DEF Mute, Stop, LifecycleCommand
  <2>10. new.members = lost.st.members /\ new.services = sv /\ lost.st.members \subseteq Services
    BY <2>3, <2>7, SoundMembers DEF LifecycleState
  <2>11. ASSUME NEW d \in Services
         PROVE  sv[d].leases = lost.st.services[d].leases /\ sv[d].waiters = lost.st.services[d].waiters
    <3>1. lost.st.services[d] \in ServiceState
      BY <2>3, SoundFields
    <3> QED
      BY <2>5, <3>1 DEF ServiceState
  <2>12. Drains(lost.st, new, out)
    BY <2>9, <2>10, <2>11, MuteDrains
  <2>13. Drains(st, new, lost.out \union out)
    BY <2>2, <2>12, DrainsOn
  <2>14. SessionLost(st, s, g, quiet) = Step(new, out \union lost.out)
    <3>1. SessionLost(st, s, g, quiet) = Also(stopDependentsOfLostSession(lost.st, s), lost.out)
      BY <1>1, <2>1 DEF SessionLost
    <3> QED
      BY <2>8, <3>1, AlsoFields
  <2>15. out \union lost.out = lost.out \union out
    OBVIOUS
  <2> QED
    BY <2>13, <2>14, <2>15, StepFields DEF DrainStep
<1>2. CASE ~AtPhase(st, s, g, {"Starting", "Running"})
  BY <1>2, IgnoredDrains DEF SessionLost
<1> QED
  BY <1>1, <1>2

\* A generation ends.
LEMMA ExitedDrains ==
  ASSUME NEW st \in SoundState, NEW s \in Services, NEW g, NEW requested
  PROVE  DrainStep(st, Exited(st, s, g, requested))
<1>1. PICK crash \in BOOLEAN : crash <=> /\ st.services[s].phase.tag = "Stopping"
                                         /\ st.services[s].intent # "stopped"
                                         /\ st.services[s].phase.crash
  BY SoundFields DEF ServiceState, Phase
<1>2. PICK q : q = [st.services[s] EXCEPT !.phase = IF crash THEN Failed(g) ELSE Stopped,
                               !.idleArmedEpoch = 0, !.readinessFailure = FALSE,
                               !.reprobing = FALSE, !.cleanupFailure = FALSE]
  OBVIOUS
<1>3. Exited(st, s, g, requested) = Step(Put(st, s, q), {}) \/ Exited(st, s, g, requested) = Ignored(st)
  BY <1>1, <1>2 DEF Exited
<1>4. q.leases = st.services[s].leases /\ q.waiters = st.services[s].waiters
  <2>1. st.services[s] \in ServiceState
    BY SoundFields
  <2> QED
    BY <1>2, <2>1 DEF ServiceState
<1>5. Drains(st, Put(st, s, q), {})
  BY <1>4, SoundMembers, PutMute, MuteCommands
<1> QED
  BY <1>3, <1>5, IgnoredDrains, StepFields DEF DrainStep

\* A cleanup fails.
LEMMA StopFailedDrains ==
  ASSUME NEW st \in SoundState, NEW s \in Services, NEW g, NEW failure, NEW quiet
  PROVE  DrainStep(st, StopFailed(st, s, g, failure, quiet))
<1>1. CASE s \in st.members /\ Current(st.services[s], g)
  <2>1. PICK told : told = failExplicitDependentWaiters(st, s)
    OBVIOUS
  <2>2. PICK breaker : breaker = IF Counts(st.services[s], failure)
                                   THEN countFailure(st.services[s].breaker, g, quiet)
                                   ELSE st.services[s].breaker
    OBVIOUS
  <2>3. PICK phase : phase = Stopping(g, IF st.services[s].phase.tag = "Stopping"
                                           THEN st.services[s].phase.crash ELSE failure)
    OBVIOUS
  <2>4. PICK q : q = [st.services[s] EXCEPT !.phase = phase, !.waiters = {},
                      !.breaker = breaker, !.idleArmedEpoch = 0, !.relaunchForced = FALSE,
                      !.readinessFailure = FALSE, !.reprobing = FALSE, !.cleanupFailure = TRUE]
    OBVIOUS
  <2>5. PICK timer : timer = IF Counts(st.services[s], failure) THEN cooldown(s, breaker) ELSE {}
    OBVIOUS
  <2>6. StopFailed(st, s, g, failure, quiet)
          = Step(Put(told.st, s, q),
                 told.out \union ({Fail(s, w.client) : w \in st.services[s].waiters} \union timer))
    BY <1>1, <2>1, <2>2, <2>3, <2>4, <2>5 DEF StopFailed, failAllWaiters
  <2>7. q.leases = st.services[s].leases /\ q.waiters = st.services[s].waiters \ st.services[s].waiters
    <3>1. st.services[s] \in ServiceState
      BY SoundFields
    <3> QED
      BY <2>4, <3>1 DEF ServiceState
  <2>8. Mute(timer)
    BY <2>5, MuteCommands
  <2>9. Drains(st, Put(told.st, s, q),
               told.out \union ({Fail(s, w.client) : w \in st.services[s].waiters} \union timer))
    BY <2>1, <2>7, <2>8, ToldPutDrains
  <2> QED
    BY <2>6, <2>9, StepFields DEF DrainStep
<1>2. CASE ~(s \in st.members /\ Current(st.services[s], g))
  BY <1>2, IgnoredDrains DEF StopFailed
<1> QED
  BY <1>1, <1>2

\* A running service fails its check: those who wait for its readiness are told.
LEMMA ReadinessLostDrains ==
  ASSUME NEW st \in SoundState, NEW s \in Services, NEW g
  PROVE  DrainStep(st, ReadinessLost(st, s, g))
<1>1. CASE AtPhase(st, s, g, {"Running"})
  <2>1. PICK told : told = failExplicitDependentWaiters(st, s)
    OBVIOUS
  <2>2. PICK failed : failed = {w \in st.services[s].waiters : w.requireReady}
    OBVIOUS
  <2>3. PICK q : q = [st.services[s] EXCEPT !.phase = Running(g, FALSE), !.waiters = @ \ failed,
                      !.readinessFailure = TRUE, !.reprobing = FALSE]
    OBVIOUS
  <2>4. ReadinessLost(st, s, g)
          = Step(Put(told.st, s, q), told.out \union {Fail(s, w.client) : w \in failed})
    BY <1>1, <2>1, <2>2, <2>3 DEF ReadinessLost
  <2>5. q.leases = st.services[s].leases /\ q.waiters = st.services[s].waiters \ failed
    <3>1. st.services[s] \in ServiceState
      BY SoundFields
    <3> QED
      BY <2>3, <3>1 DEF ServiceState
  <2>6. failed \in SUBSET st.services[s].waiters
    BY <2>2
  <2>7. Drains(st, Put(told.st, s, q), told.out \union ({Fail(s, w.client) : w \in failed} \union {}))
    BY <2>1, <2>5, <2>6, ToldPutDrains, MuteCommands
  <2>8. {Fail(s, w.client) : w \in failed} \union {} = {Fail(s, w.client) : w \in failed}
    OBVIOUS
  <2> QED
    BY <2>4, <2>7, <2>8, StepFields DEF DrainStep
<1>2. CASE ~AtPhase(st, s, g, {"Running"})
  BY <1>2, IgnoredDrains DEF ReadinessLost
<1> QED
  BY <1>1, <1>2

\* A timer elapses.
LEMMA TimersDrain ==
  ASSUME NEW st \in SoundState, NEW s, NEW g
  PROVE  /\ \A epoch : DrainStep(st, IdleElapsed(st, s, g, epoch))
         /\ DrainStep(st, CooldownElapsed(st, s, g))
<1>1. CASE s \notin st.members
  BY <1>1, IgnoredDrains DEF IdleElapsed, CooldownElapsed, AtPhase
<1>2. CASE s \in st.members
  <2>0. s \in Services /\ st.services[s] \in ServiceState /\ st \in LifecycleState
    BY <1>2, SoundMembers, SoundFields
  <2>1. PICK q : q = [st.services[s] EXCEPT !.phase = Stopping(g, FALSE), !.idleArmedEpoch = 0]
    OBVIOUS
  <2>2. PICK r : r = [st.services[s] EXCEPT !.breaker.openUntil = 0]
    OBVIOUS
  <2>3. /\ q.leases = st.services[s].leases /\ q.waiters = st.services[s].waiters
        /\ r.leases = st.services[s].leases /\ r.waiters = st.services[s].waiters
    BY <2>0, <2>1, <2>2 DEF ServiceState
  <2>4. Drains(st, Put(st, s, q), {Stop(s, g)}) /\ Drains(st, Put(st, s, r), {})
    BY <2>0, <2>3, PutMute, MuteCommands
  <2>5. DrainStep(st, CooldownElapsed(st, s, g))
    BY <2>2, <2>4, IgnoredDrains, StepFields DEF DrainStep, CooldownElapsed
  <2>6. \A epoch : DrainStep(st, IdleElapsed(st, s, g, epoch))
    BY <2>1, <2>4, IgnoredDrains, StepFields DEF DrainStep, IdleElapsed
  <2> QED
    BY <2>5, <2>6
<1> QED
  BY <1>1, <1>2

\* A stop is requested: whoever waits for the service is refused.
LEMMA StopRequestedDrains ==
  ASSUME NEW st \in SoundState, NEW s
  PROVE  DrainStep(st, StopRequested(st, s))
<1>1. CASE s \notin st.members \/ activeDependents(st, s) # {}
  BY <1>1, IgnoredDrains, RefusedDrains DEF StopRequested
<1>2. CASE s \in st.members /\ activeDependents(st, s) = {}
  <2>0. s \in Services /\ st.services[s] \in ServiceState /\ st \in LifecycleState
    BY <1>2, SoundMembers, SoundFields
  <2>1. PICK p : p = st.services[s]
    OBVIOUS
  <2>2. PICK phase : phase = CASE Stoppable(p) -> Stopping(p.phase.generation, FALSE)
                               [] p.phase.tag = "Failed" -> Stopped
                               [] OTHER -> p.phase
    OBVIOUS
  <2>3. PICK q : q = [p EXCEPT !.intent = "stopped", !.waiters = {},
                               !.relaunchForced = FALSE, !.phase = phase]
    OBVIOUS
  <2>4. q.leases = p.leases /\ q.waiters = {}
    BY <2>0, <2>1, <2>3 DEF ServiceState
  <2>5. PICK out : out = failAllWaiters(s, p) \union StopNow(s, p)
    OBVIOUS
  <2>6. \A x \in out : x.tag # "AdmitConnection" /\ (x.tag = "FailConnection" => x.id = s)
    BY <2>5, MuteCommands, AnswerFields DEF Mute, failAllWaiters
  <2>7. ASSUME NEW c \in Clients, Fail(s, c) \in out
        PROVE  \E w \in p.waiters \ q.waiters : w.client = c
    <3>1. Fail(s, c) \in failAllWaiters(s, p)
      BY <2>5, <2>7, MuteCommands, AnswerFields DEF Mute
    <3>2. PICK w \in p.waiters : Fail(s, c) = Fail(s, w.client)
      BY <3>1 DEF failAllWaiters
    <3> QED
      BY <2>4, <3>2, AnswerFields
  <2>8. PICK a : a = Put(st, s, q)
    OBVIOUS
  <2>9. Drains(st, a, out)
    <3>1. Drained(s, st.services[s], q, out)
      BY <2>1, <2>4, <2>7 DEF Drained
    <3> QED
      BY <2>0, <2>6, <2>8, <3>1, PutDrains
  <2>10. a \in LifecycleState
    <3>1. p.phase \in Phase /\ p.phase.generation \in Nat
      BY <2>0, <2>1 DEF ServiceState, Phase
    <3>2. phase \in Phase
      <4>1. CASE Stoppable(p)
        BY <2>2, <3>1, <4>1, Phases
      <4>2. CASE ~Stoppable(p)
        BY <2>2, <3>1, <4>2, Phases
      <4> QED
        BY <4>1, <4>2
    <3>3. q \in ServiceState
      BY <2>0, <2>1, <2>3, <3>2 DEF ServiceState
    <3> QED
      BY <2>0, <2>8, <3>3, PutFields
  <2>11. PICK retried : retried = retryCleanups(a, {s})
    OBVIOUS
  <2>12. Drains(a, retried.st, retried.out)
    BY <2>10, <2>11, RetryDrains DEF DrainStep
  <2>13. Drains(st, retried.st, out \union retried.out)
    BY <2>9, <2>12, DrainsOn
  <2>14. StopRequested(st, s) = Step(retried.st, retried.out \union out)
    <3>1. StopRequested(st, s) = Also(retried, out)
      BY <1>2, <2>1, <2>2, <2>3, <2>5, <2>8, <2>11 DEF StopRequested
    <3>2. retried = Step(retried.st, retried.out)
      BY <2>11 DEF retryCleanups, Step
    <3>3. Also(Step(retried.st, retried.out), out) = Step(retried.st, retried.out \union out)
      BY AlsoFields
    <3> QED
      BY <3>1, <3>2, <3>3
  <2>15. retried.out \union out = out \union retried.out
    OBVIOUS
  <2> QED
    BY <2>13, <2>14, <2>15, StepFields DEF DrainStep
<1> QED
  BY <1>1, <1>2

\* A service replaced, its blocked cleanup retried and its prerequisites armed.
LEMMA RestartedDrains ==
  ASSUME NEW st \in SoundState, NEW a, Quiet(st, a, {}), Drains(st, a, {}), NEW s \in Services,
         NEW out, Mute(out)
  PROVE  Drains(st, rearmPrerequisites(retryCleanups(a, {s}).st, s),
                retryCleanups(a, {s}).out \union out)
<1>1. a \in SoundState
  BY DEF Quiet, Leads
<1>2. PICK retried : retried = retryCleanups(a, {s})
  OBVIOUS
<1>3. retried.st \in LifecycleState /\ Drains(a, retried.st, retried.out)
  <2>1. retried.st \in SoundState
    BY <1>1, <1>2, RetryQuiet DEF QuietStep, Quiet, Leads
  <2> QED
    BY <1>1, <1>2, <2>1, RetryDrains, SoundMembers DEF DrainStep
<1>4. Drains(retried.st, rearmPrerequisites(retried.st, s), {})
  BY <1>3, RearmDrains
<1>5. PICK new : new = rearmPrerequisites(retried.st, s)
  OBVIOUS
<1>6. Drains(new, new, out)
  BY MuteDrains
<1>7. Drains(st, retried.st, {} \union retried.out)
  BY <1>3, DrainsOn
<1>8. Drains(st, new, ({} \union retried.out) \union {})
  BY <1>4, <1>5, <1>7, DrainsOn
<1>9. Drains(st, new, (({} \union retried.out) \union {}) \union out)
  BY <1>6, <1>8, DrainsOn
<1>10. (({} \union retried.out) \union {}) \union out = retried.out \union out
  OBVIOUS
<1> QED
  BY <1>2, <1>5, <1>9, <1>10

\* A start is requested.
LEMMA StartRequestedDrains ==
  ASSUME NEW st \in SoundState, NEW s
  PROVE  DrainStep(st, StartRequested(st, s))
<1>1. CASE s \notin st.members \/ st.services[s].destroy # "none"
  BY <1>1, IgnoredDrains, RefusedDrains DEF StartRequested
<1>2. CASE s \in st.members /\ st.services[s].destroy = "none"
  <2>0. s \in Services /\ st.services[s] \in ServiceState /\ IsFiniteSet(st.services[s].waiters)
        /\ st \in LifecycleState
    BY <1>2, SoundMembers, SoundFields DEF SoundService
  <2>1. PICK forced : forced = (st.services[s].relaunchForced
                                 \/ st.services[s].phase.tag \in {"Stopped", "Failed", "Stopping"})
    OBVIOUS
  <2>2. PICK q : q = [st.services[s] EXCEPT !.intent = Activation[s], !.breaker = initialBreaker,
                               !.relaunchForced = forced]
    OBVIOUS
  <2>3. /\ q \in ServiceState /\ q.phase = st.services[s].phase /\ SameStorage(st.services[s], q)
        /\ q.waiters = st.services[s].waiters /\ q.leases = st.services[s].leases
    <3>1. Activation[s] \in {"eager", "lazy"}
      BY <2>0, LifecycleAssumption
    <3>2. initialBreaker \in [failures : Nat, openUntil : Nat] /\ forced \in BOOLEAN
      BY <2>1 DEF initialBreaker
    <3> QED
      BY <2>0, <2>2, <3>1, <3>2 DEF ServiceState, SameStorage
  <2>4. PICK a : a = Put(st, s, q)
    OBVIOUS
  <2>5. Quiet(st, a, {}) /\ Drains(st, a, {})
    BY <2>0, <2>3, <2>4, StaysQuiet, PutMute, MuteCommands
  <2>6. StartRequested(st, s) = Step(rearmPrerequisites(retryCleanups(a, {s}).st, s),
                                     retryCleanups(a, {s}).out)
    BY <1>2, <2>1, <2>2, <2>4 DEF StartRequested
  <2>7. Drains(st, rearmPrerequisites(retryCleanups(a, {s}).st, s), retryCleanups(a, {s}).out \union {})
    BY <2>0, <2>5, RestartedDrains, MuteCommands
  <2>8. retryCleanups(a, {s}).out \union {} = retryCleanups(a, {s}).out
    OBVIOUS
  <2> QED
    BY <2>6, <2>7, <2>8, StepFields DEF DrainStep
<1> QED
  BY <1>1, <1>2

\* A restart is requested.
LEMMA RestartRequestedDrains ==
  ASSUME NEW st \in SoundState, NEW s
  PROVE  DrainStep(st, RestartRequested(st, s))
<1>1. CASE s \notin st.members \/ st.services[s].destroy # "none" \/ activeDependents(st, s) # {}
  BY <1>1, IgnoredDrains, RefusedDrains DEF RestartRequested
<1>2. CASE s \in st.members /\ st.services[s].destroy = "none" /\ activeDependents(st, s) = {}
  <2>0. s \in Services /\ st.services[s] \in ServiceState /\ IsFiniteSet(st.services[s].waiters)
        /\ st \in LifecycleState
    BY <1>2, SoundMembers, SoundFields DEF SoundService
  <2>1. PICK p : p = st.services[s]
    OBVIOUS
  <2>2. p.phase \in Phase /\ p.phase.generation \in Nat
    BY <2>0, <2>1, SoundFields
  <2>3. PICK phase : phase = IF Stoppable(p) THEN Stopping(p.phase.generation, FALSE) ELSE p.phase
    OBVIOUS
  <2>4. /\ phase \in Phase
        /\ \/ phase = p.phase
           \/ /\ p.phase.tag \in {"Starting", "Running"} /\ phase.tag = "Stopping"
              /\ phase.generation = p.phase.generation
    <3>1. CASE Stoppable(p)
      BY <2>2, <2>3, <3>1, Phases DEF Stoppable
    <3>2. CASE ~Stoppable(p)
      BY <2>2, <2>3, <3>2
    <3> QED
      BY <3>1, <3>2
  <2>5. PICK q : q = [p EXCEPT !.intent = Activation[s], !.breaker = initialBreaker,
                               !.relaunchForced = TRUE, !.phase = phase]
    OBVIOUS
  <2>6. /\ q \in ServiceState /\ q.phase = phase /\ SameStorage(p, q) /\ q.waiters = p.waiters
        /\ q.leases = p.leases
    <3>1. Activation[s] \in {"eager", "lazy"}
      BY <2>0, LifecycleAssumption
    <3>2. initialBreaker \in [failures : Nat, openUntil : Nat]
      BY DEF initialBreaker
    <3> QED
      BY <2>0, <2>1, <2>4, <2>5, <3>1, <3>2 DEF ServiceState, SameStorage
  <2>7. Follows(p, q) /\ PhaseKept(p.phase, q.phase)
    BY <2>0, <2>1, <2>4, <2>6 DEF Follows, PhaseKept, isUpOrWindingDown
  <2>8. PICK a : a = Put(st, s, q)
    OBVIOUS
  <2>9. Quiet(st, a, {})
    BY <2>0, <2>1, <2>6, <2>7, <2>8, PutQuiet
  <2>10. Drains(st, a, {})
    BY <2>0, <2>1, <2>6, <2>8, PutMute, MuteCommands
  <2>11. RestartRequested(st, s) = Step(rearmPrerequisites(retryCleanups(a, {s}).st, s),
                                        retryCleanups(a, {s}).out \union StopNow(s, p))
    BY <1>2, <2>1, <2>3, <2>5, <2>8 DEF RestartRequested
  <2>12. Drains(st, rearmPrerequisites(retryCleanups(a, {s}).st, s),
                retryCleanups(a, {s}).out \union StopNow(s, p))
    BY <2>0, <2>9, <2>10, RestartedDrains, MuteCommands
  <2> QED
    BY <2>11, <2>12, StepFields DEF DrainStep
<1> QED
  BY <1>1, <1>2

\* A lazy service is armed, a storage reserved or released.
LEMMA ReservationsDrain ==
  ASSUME NEW st \in SoundState, NEW s
  PROVE  /\ DrainStep(st, ArmRequested(st, s))
         /\ DrainStep(st, StorageReserved(st, s))
<1>1. CASE s \notin st.members
  BY <1>1, IgnoredDrains DEF ArmRequested, StorageReserved
<1>2. CASE s \in st.members
  <2>0. s \in Services /\ st.services[s] \in ServiceState /\ st \in LifecycleState
    BY <1>2, SoundMembers, SoundFields
  <2>1. PICK q : q = [st.services[s] EXCEPT !.intent = Activation[s], !.breaker = initialBreaker]
    OBVIOUS
  <2>2. PICK r : r = [st.services[s] EXCEPT !.storageReserved = TRUE]
    OBVIOUS
  <2>3. /\ q.leases = st.services[s].leases /\ q.waiters = st.services[s].waiters
        /\ r.leases = st.services[s].leases /\ r.waiters = st.services[s].waiters
    BY <2>0, <2>1, <2>2 DEF ServiceState
  <2>4. Drains(st, Put(st, s, q), {}) /\ Drains(st, Put(st, s, r), {})
    BY <2>0, <2>3, PutMute, MuteCommands
  <2>5. DrainStep(st, Step(Put(st, s, q), {})) /\ DrainStep(st, Step(Put(st, s, r), {}))
    BY <2>4, StepFields DEF DrainStep
  <2> QED
    BY <1>2, <2>1, <2>2, <2>5, IgnoredDrains, RefusedDrains DEF ArmRequested, StorageReserved
<1> QED
  BY <1>1, <1>2

\* The end of a reservation.
LEMMA ReleasesDrain ==
  ASSUME NEW st \in SoundState, NEW s \in Services
  PROVE  /\ DrainStep(st, StorageReleased(st, s))
         /\ DrainStep(st, DestroyReleased(st, s))
<1>0. st.services[s] \in ServiceState /\ st \in LifecycleState
  BY SoundFields
<1>1. PICK q : q = [st.services[s] EXCEPT !.destroy = "none",
                        !.storageReserved = @ /\ st.services[s].destroy # "reserved"]
  OBVIOUS
<1>2. PICK r : r = [st.services[s] EXCEPT !.storageReserved = @ /\ st.services[s].destroy = "reserved"]
  OBVIOUS
<1>3. /\ q.leases = st.services[s].leases /\ q.waiters = st.services[s].waiters
      /\ r.leases = st.services[s].leases /\ r.waiters = st.services[s].waiters
  BY <1>0, <1>1, <1>2 DEF ServiceState
<1>4. Drains(st, Put(st, s, q), {}) /\ Drains(st, Put(st, s, r), {})
  BY <1>0, <1>3, PutMute, MuteCommands
<1>5. StorageReleased(st, s) = Step(Put(st, s, r), {})
  BY <1>0, <1>2 DEF StorageReleased, Put, LifecycleState
<1>6. DestroyReleased(st, s) = Step(Put(st, s, q), {})
  BY <1>1 DEF DestroyReleased
<1> QED
  BY <1>4, <1>5, <1>6, StepFields DEF DrainStep

\* A destroy is requested.
LEMMA DestroyRequestedDrains ==
  ASSUME NEW st \in SoundState, NEW s
  PROVE  DrainStep(st, DestroyRequested(st, s))
<1>1. PICK stopped : stopped = StopRequested(st, s)
  OBVIOUS
<1>2. Drains(st, stopped.st, stopped.out) /\ stopped.st \in SoundState
  BY <1>1, StopRequestedDrains, StopRequestedQuiet DEF DrainStep, QuietStep, Quiet, Leads
<1>3. CASE s \notin st.members \/ Rejected(s) \in stopped.out
  BY <1>1, <1>2, <1>3 DEF DestroyRequested, DrainStep
<1>4. CASE ~(s \notin st.members \/ Rejected(s) \in stopped.out)
  <2>0. s \in Services
    BY <1>4, SoundMembers
  <2>1. stopped.st.services[s] \in ServiceState /\ stopped.st \in LifecycleState
    BY <1>2, <2>0, SoundFields
  <2>2. PICK d : d = IF stopped.st.services[s].destroy = "none" THEN "requested"
                       ELSE stopped.st.services[s].destroy
    OBVIOUS
  <2>3. PICK q : q = [stopped.st.services[s] EXCEPT !.destroy = d]
    OBVIOUS
  <2>4. q.leases = stopped.st.services[s].leases /\ q.waiters = stopped.st.services[s].waiters
    BY <2>1, <2>3 DEF ServiceState
  <2>5. Drains(stopped.st, Put(stopped.st, s, q), {})
    BY <2>0, <2>1, <2>4, PutMute, MuteCommands
  <2>6. Drains(st, Put(stopped.st, s, q), stopped.out \union {})
    BY <1>2, <2>5, DrainsOn
  <2>7. DestroyRequested(st, s).st = Put(stopped.st, s, q) /\ DestroyRequested(st, s).out = stopped.out
    <3>1. DestroyRequested(st, s)
            = [stopped EXCEPT !.st.services[s].destroy = IF @ = "none" THEN "requested" ELSE @]
      BY <1>1, <1>4 DEF DestroyRequested
    <3>2. stopped = Step(stopped.st, stopped.out)
      BY <1>1 DEF StopRequested, Ignored, Refused, Also, retryCleanups, Step
    <3> QED
      BY <2>0, <2>1, <2>2, <2>3, <3>1, <3>2 DEF Put, Step, LifecycleState, ServiceState
  <2>8. stopped.out \union {} = stopped.out
    OBVIOUS
  <2> QED
    BY <2>6, <2>7, <2>8 DEF DrainStep
<1> QED
  BY <1>3, <1>4

\* A wait is withdrawn: nothing is left of it.
LEMMA WaiterCancelledDrains ==
  ASSUME NEW st \in SoundState, NEW s \in Services, NEW c
  PROVE  /\ DrainStep(st, WaiterCancelled(st, s, c))
         /\ WaiterCancelled(st, s, c).out = {}
         /\ \A w \in WaiterCancelled(st, s, c).st.services[s].waiters : w.client # c
<1>1. st.services[s] \in ServiceState /\ st \in LifecycleState
  BY SoundFields
<1>2. PICK W : W = {w \in st.services[s].waiters : w.client # c}
  OBVIOUS
<1>3. PICK q : q = [st.services[s] EXCEPT !.waiters = W]
  OBVIOUS
<1>4. q.leases = st.services[s].leases /\ q.waiters = W
  BY <1>1, <1>3 DEF ServiceState
<1>5. WaiterCancelled(st, s, c) = Step(Put(st, s, q), {})
  BY <1>1, <1>2, <1>3 DEF WaiterCancelled, Put, LifecycleState
<1>6. Drained(s, st.services[s], q, {})
  BY <1>2, <1>4 DEF Drained
<1>7. Drains(st, Put(st, s, q), {})
  BY <1>1, <1>6, PutDrains
<1>8. Put(st, s, q).services[s] = q
  BY <1>1 DEF Put, LifecycleState
<1> QED
  BY <1>2, <1>4, <1>5, <1>7, <1>8, StepFields DEF DrainStep

\* A service leaves the graph, and its waits and leases with it.
LEMMA GraphUpdatedDrains ==
  ASSUME NEW st \in SoundState, NEW s \in Services
  PROVE  DrainStep(st, GraphUpdated(st, s))
<1>1. CASE st.services[s].destroy # "reserved" /\ isActiveForGraphUpdate(st.services[s])
  BY <1>1, RefusedDrains DEF GraphUpdated
<1>2. CASE ~(st.services[s].destroy # "reserved" /\ isActiveForGraphUpdate(st.services[s]))
  <2>1. PICK q : q = initialService("stopped")
    OBVIOUS
  <2>2. PICK new : new = [Put(st, s, q) EXCEPT !.members = @ \ {s}]
    OBVIOUS
  <2>3. /\ new.members = st.members \ {s} /\ st.members \subseteq Services
        /\ \A t \in new.members : new.services[t] = st.services[t]
    BY <2>2, SoundMembers DEF Put, LifecycleState
  <2>4. GraphUpdated(st, s) = Step(new, {})
    BY <1>2, <2>1, <2>2 DEF GraphUpdated
  <2>5. Drains(st, new, {})
    BY <2>3, MuteDrains, MuteCommands
  <2> QED
    BY <2>4, <2>5, StepFields DEF DrainStep
<1> QED
  BY <1>1, <1>2
-----------------------------------------------------------------------------
(* Who is admitted, and who waits.                                          *)

\* The waits of A are admitted and counted, and others end with a failure.
Serves(s, p, q, A, out) ==
  /\ q.waiters \subseteq p.waiters \ A
  /\ q.leases = p.leases + Cardinality({w \in A : w.kind = "traffic"})
  /\ \A c \in Clients : Admit(s, c) \in out <=> \E w \in A : w.client = c
  /\ \A c \in Clients : Fail(s, c) \in out =>
       \E w \in p.waiters \ (A \union q.waiters) : w.client = c

Served(st, new, out) ==
  /\ new.members \subseteq st.members
  /\ \A s \in new.members :
       \E A \in SUBSET st.services[s].waiters : Serves(s, st.services[s], new.services[s], A, out)

\* Nobody is admitted where nobody is.
LEMMA NoneServed ==
  ASSUME NEW s, NEW p, NEW q, NEW out, p.leases \in Nat, q.leases = p.leases,
         q.waiters \subseteq p.waiters, \A c \in Clients : Admit(s, c) \notin out,
         \A c \in Clients : Fail(s, c) \in out => \E w \in p.waiters \ q.waiters : w.client = c
  PROVE  Serves(s, p, q, {}, out)
<1>1. PICK none : none = {w \in {} : w.kind = "traffic"}
  OBVIOUS
<1>2. Cardinality(none) = 0
  BY <1>1, FS_EmptySet
<1>3. p.leases + Cardinality(none) = p.leases
  BY <1>2
<1> QED
  BY <1>1, <1>3 DEF Serves

\* An event that admits nobody serves those that it answers.
LEMMA DrainsServe ==
  ASSUME NEW st \in SoundState, NEW new, NEW out, Drains(st, new, out)
  PROVE  Served(st, new, out)
<1>1. ASSUME NEW s \in new.members
      PROVE  Serves(s, st.services[s], new.services[s], {}, out)
  <2>1. s \in Services
    BY SoundMembers DEF Drains
  <2>2. st.services[s].leases \in Nat
    BY <2>1, SoundFields DEF ServiceState
  <2>3. Drained(s, st.services[s], new.services[s], out) /\ \A c \in Clients : Admit(s, c) \notin out
    BY AnswerFields DEF Drains
  <2> QED
    BY <2>2, <2>3, NoneServed DEF Drained
<1> QED
  BY <1>1 DEF Drains, Served

\* A service keeps its waits and its leases, whatever its turn commands of it.
SameWaits(p, q) == q.waiters = p.waiters /\ q.leases = p.leases

\* A turn that admits nobody: a launch, a check, a timer, or nothing.
LEMMA LaunchWaits ==
  ASSUME NEW st \in SoundState, NEW s \in Services
  PROVE  /\ SameWaits(st.services[s], launch(st, s).st.services[s])
         /\ \A x \in launch(st, s).out : x.tag = "Launch"
<1>1. PICK g : g = st.generationCounters[s]
  OBVIOUS
<1>2. PICK q : q = [st.services[s] EXCEPT !.phase = Starting(g), !.relaunchForced = FALSE,
                                         !.readinessFailure = FALSE, !.reprobing = FALSE]
  OBVIOUS
<1>3. PICK new : new = [Put(st, s, q) EXCEPT !.generationCounters[s] = g + 1]
  OBVIOUS
<1>4. launch(st, s) = Step(new, {LifecycleCommand("Launch", s, g)})
  BY <1>1, <1>2, <1>3 DEF launch, NextGeneration
<1>5. st.services[s] \in ServiceState /\ st \in LifecycleState
  BY SoundFields
<1>6. SameWaits(st.services[s], q)
  BY <1>2, <1>5 DEF ServiceState, SameWaits
<1>7. new.services[s] = q
  BY <1>3, <1>5 DEF Put, LifecycleState
<1> QED
  BY <1>4, <1>6, <1>7, StepFields DEF LifecycleCommand

\* A readiness check.
LEMMA ReprobeWaits ==
  ASSUME NEW st \in SoundState, NEW s \in Services
  PROVE  /\ SameWaits(st.services[s], reprobe(st, s).st.services[s])
         /\ \A x \in reprobe(st, s).out : x.tag = "Reprobe"
<1>1. PICK q : q = [st.services[s] EXCEPT !.reprobing = TRUE]
  OBVIOUS
<1>2. PICK out : out = {LifecycleCommand("Reprobe", s, st.services[s].phase.generation)}
  OBVIOUS
<1>3. reprobe(st, s) = Step(Put(st, s, q), out) \/ reprobe(st, s) = Ignored(st)
  BY <1>1, <1>2 DEF reprobe
<1>4. st.services[s] \in ServiceState /\ st \in LifecycleState
  BY SoundFields
<1>5. SameWaits(st.services[s], q) /\ SameWaits(st.services[s], st.services[s])
  BY <1>1, <1>4 DEF ServiceState, SameWaits
<1>6. Put(st, s, q).services[s] = q
  BY <1>4 DEF Put, LifecycleState
<1>7. \A x \in out : x.tag = "Reprobe"
  BY <1>2 DEF LifecycleCommand
<1> QED
  BY <1>3, <1>5, <1>6, <1>7, StepFields DEF Ignored

\* An idle timer.
LEMMA IdleWaits ==
  ASSUME NEW st \in SoundState, NEW s \in Services
  PROVE  /\ SameWaits(st.services[s], idle(st, s).st.services[s])
         /\ \A x \in idle(st, s).out : x.tag = "ArmIdleTimer"
<1>1. PICK p : p = st.services[s]
  OBVIOUS
<1>2. p \in ServiceState /\ st \in LifecycleState
  BY <1>1, SoundFields
<1>3. PICK q : q = [p EXCEPT !.idleArmedEpoch = 0]
  OBVIOUS
<1>4. PICK epoch : epoch = p.idleEpoch + 1
  OBVIOUS
<1>5. PICK r : r = [p EXCEPT !.idleEpoch = epoch, !.idleArmedEpoch = epoch]
  OBVIOUS
<1>6. PICK out : out = {[tag |-> "ArmIdleTimer", id |-> s, generation |-> p.phase.generation,
                         epoch |-> epoch]}
  OBVIOUS
<1>7. SameWaits(p, q) /\ SameWaits(p, r) /\ SameWaits(p, p)
  BY <1>2, <1>3, <1>5 DEF ServiceState, SameWaits
<1>8. Put(st, s, q).services[s] = q /\ Put(st, s, r).services[s] = r
  BY <1>2 DEF Put, LifecycleState
<1>9. \/ idle(st, s) = Step(Put(st, s, q), {})
      \/ idle(st, s) = Step(Put(st, s, r), out)
      \/ idle(st, s) = Ignored(st)
  BY <1>1, <1>3, <1>4, <1>5, <1>6 DEF idle
<1>10. \A x \in out : x.tag = "ArmIdleTimer"
  BY <1>6
<1> QED
  BY <1>1, <1>7, <1>8, <1>9, <1>10, StepFields DEF Ignored

\* A turn that admits.
LEMMA AdmitWaits ==
  ASSUME NEW st \in SoundState, NEW s \in Services
  PROVE  \E A \in SUBSET st.services[s].waiters :
           /\ admit(st, s).st.services[s].waiters = st.services[s].waiters \ A
           /\ admit(st, s).st.services[s].leases
                = st.services[s].leases + Cardinality({w \in A : w.kind = "traffic"})
           /\ admit(st, s).out = {Admit(s, w.client) : w \in A}
<1>1. PICK A : A = {w \in st.services[s].waiters : prerequisitesSatisfied(st, s)
                                    /\ (~w.requireReady \/ st.services[s].phase.ready)}
  OBVIOUS
<1>2. PICK n : n = st.services[s].leases + Cardinality({w \in A : w.kind = "traffic"})
  OBVIOUS
<1>3. PICK W : W = st.services[s].waiters \ A
  OBVIOUS
<1>4. PICK q : q = [st.services[s] EXCEPT !.waiters = W, !.leases = n]
  OBVIOUS
<1>5. admit(st, s) = Step(Put(st, s, q), {Admit(s, w.client) : w \in A})
  BY <1>1, <1>2, <1>3, <1>4 DEF admit
<1>6. st.services[s] \in ServiceState /\ st \in LifecycleState
  BY SoundFields
<1>7. q.waiters = W /\ q.leases = n
  BY <1>4, <1>6 DEF ServiceState
<1>8. Put(st, s, q).services[s] = q
  BY <1>6 DEF Put, LifecycleState
<1>9. A \in SUBSET st.services[s].waiters
  BY <1>1
<1>10. admit(st, s).st.services[s] = q /\ admit(st, s).out = {Admit(s, w.client) : w \in A}
  BY <1>5, <1>8, StepFields
<1>11. /\ admit(st, s).st.services[s].waiters = st.services[s].waiters \ A
       /\ admit(st, s).st.services[s].leases
            = st.services[s].leases + Cardinality({w \in A : w.kind = "traffic"})
  BY <1>2, <1>3, <1>7, <1>10
<1> QED
  BY <1>9, <1>10, <1>11

\* Commands that refuse nobody.
Unrefusing(out) == \A x \in out : x.tag \notin {"FailConnection", "RequestRejected"}

\* One turn of the pass.
LEMMA TurnServes ==
  ASSUME NEW st \in SoundState, NEW s \in Services
  PROVE  /\ \E A \in SUBSET st.services[s].waiters :
              Serves(s, st.services[s], settleService(st, s).st.services[s], A, settleService(st, s).out)
         /\ Unrefusing(settleService(st, s).out)
<1>1. ASSUME NEW step, SameWaits(st.services[s], step.st.services[s]),
             \A x \in step.out : x.tag \in {"Launch", "Reprobe", "ArmIdleTimer"}
      PROVE  Serves(s, st.services[s], step.st.services[s], {}, step.out) /\ Unrefusing(step.out)
  <2>1. st.services[s].leases \in Nat
    BY SoundFields DEF ServiceState
  <2>2. \A c \in Clients : Admit(s, c) \notin step.out /\ Fail(s, c) \notin step.out
    BY <1>1, AnswerFields
  <2>3. Unrefusing(step.out)
    BY <1>1 DEF Unrefusing
  <2>4. Serves(s, st.services[s], step.st.services[s], {}, step.out)
    BY <1>1, <2>1, <2>2, NoneServed DEF SameWaits
  <2> QED
    BY <2>3, <2>4
<1>2. CASE s \in st.members /\ MayLaunch(st, s)
  <2>1. settleService(st, s) = launch(st, s)
    BY <1>2 DEF settleService
  <2>2. PICK step : step = launch(st, s)
    OBVIOUS
  <2>3. Serves(s, st.services[s], step.st.services[s], {}, step.out) /\ Unrefusing(step.out)
    BY <1>1, <2>2, LaunchWaits
  <2> QED
    BY <2>1, <2>2, <2>3
<1>3. CASE ~(s \in st.members /\ MayLaunch(st, s)) /\ s \in st.members
           /\ st.services[s].phase.tag = "Running"
  <2>1. PICK probed : probed = reprobe(st, s)
    OBVIOUS
  <2>2. PICK a \in SoundState : a = probed.st
    BY <1>3, <2>1, ReprobeRests DEF Rests, QuietStep, Quiet, Leads
  <2>3. SameWaits(st.services[s], a.services[s]) /\ \A x \in probed.out : x.tag = "Reprobe"
    BY <2>1, <2>2, ReprobeWaits
  <2>4. PICK admitted : admitted = admit(a, s)
    OBVIOUS
  <2>5. PICK b \in SoundState : b = admitted.st
    BY <2>4, AdmitRests DEF Rests, QuietStep, Quiet, Leads
  <2>6. PICK A \in SUBSET a.services[s].waiters :
          /\ b.services[s].waiters = a.services[s].waiters \ A
          /\ b.services[s].leases = a.services[s].leases + Cardinality({w \in A : w.kind = "traffic"})
          /\ admitted.out = {Admit(s, w.client) : w \in A}
    <3>1. \E A \in SUBSET a.services[s].waiters :
            /\ admit(a, s).st.services[s].waiters = a.services[s].waiters \ A
            /\ admit(a, s).st.services[s].leases
                 = a.services[s].leases + Cardinality({w \in A : w.kind = "traffic"})
            /\ admit(a, s).out = {Admit(s, w.client) : w \in A}
      BY <2>2, AdmitWaits
    <3> QED
      BY <2>4, <2>5, <3>1
  <2>7. PICK rests : rests = idle(b, s)
    OBVIOUS
  <2>8. SameWaits(b.services[s], rests.st.services[s]) /\ \A x \in rests.out : x.tag = "ArmIdleTimer"
    BY <2>7, IdleWaits
  <2>9. PICK out : out = rests.out \union (probed.out \union admitted.out)
    OBVIOUS
  <2>10. settleService(st, s) = Step(rests.st, out)
    <3>1. settleService(st, s) = Also(rests, probed.out \union admitted.out)
      BY <1>3, <2>1, <2>2, <2>4, <2>5, <2>7 DEF settleService
    <3>2. rests = Step(rests.st, rests.out)
      BY <2>7 DEF idle, Ignored, Step
    <3>3. Also(Step(rests.st, rests.out), probed.out \union admitted.out) = Step(rests.st, out)
      BY <2>9, AlsoFields
    <3> QED
      BY <3>1, <3>2, <3>3
  <2>11. \A w \in A : w.client \in Clients
    BY <2>6, SoundFields DEF ServiceState, Waiter
  <2>12. \A x \in out : x.tag \in {"Reprobe", "ArmIdleTimer", "AdmitConnection"}
    BY <2>3, <2>6, <2>8, <2>9, AnswerFields
  <2>13. ASSUME NEW c \in Clients
         PROVE  Admit(s, c) \in out <=> \E w \in A : w.client = c
    <3>1. Admit(s, c) \in out <=> Admit(s, c) \in admitted.out
      BY <2>3, <2>8, <2>9, AnswerFields
    <3>2. Admit(s, c) \in admitted.out <=> \E w \in A : Admit(s, c) = Admit(s, w.client)
      BY <2>6
    <3>3. \A w \in A : Admit(s, c) = Admit(s, w.client) <=> w.client = c
      BY AnswerFields
    <3> QED
      BY <3>1, <3>2, <3>3
  <2>14. \A c \in Clients : Fail(s, c) \notin out
    BY <2>12, AnswerFields
  <2>15. Serves(s, st.services[s], rests.st.services[s], A, out)
    BY <2>3, <2>6, <2>8, <2>13, <2>14 DEF Serves, SameWaits
  <2>16. A \in SUBSET st.services[s].waiters
    BY <2>3, <2>6 DEF SameWaits
  <2>17. Unrefusing(out)
    BY <2>12 DEF Unrefusing
  <2> QED
    BY <2>10, <2>15, <2>16, <2>17, StepFields
<1>4. CASE ~(s \in st.members /\ MayLaunch(st, s))
           /\ ~(s \in st.members /\ st.services[s].phase.tag = "Running")
  <2>1. settleService(st, s) = Ignored(st)
    BY <1>4 DEF settleService
  <2>2. PICK step : step = Ignored(st)
    OBVIOUS
  <2>3. step.st = st /\ step.out = {}
    BY <2>2, StepFields DEF Ignored
  <2>4. SameWaits(st.services[s], step.st.services[s])
    BY <2>3 DEF SameWaits
  <2>5. Serves(s, st.services[s], step.st.services[s], {}, step.out) /\ Unrefusing(step.out)
    BY <1>1, <2>3, <2>4
  <2> QED
    BY <2>1, <2>2, <2>5
<1> QED
  BY <1>2, <1>3, <1>4

\* The whole pass.
LEMMA SettleServes ==
  ASSUME NEW step, step.st \in SoundState
  PROVE  /\ Served(step.st, settle(step).st, Turns(step.st))
         /\ Unrefusing(Turns(step.st))
<1>1. PICK r : r = reserve(step.st)
  OBVIOUS
<1>2. r \in SoundState /\ r.members = step.st.members
  BY <1>1, ReserveLeads DEF Leads
<1>3. PICK sv : sv = [s \in Services |-> settleService(r, s).st.services[s]]
  OBVIOUS
<1>4. PICK gc : gc = [s \in Services |-> settleService(r, s).st.generationCounters[s]]
  OBVIOUS
<1>5. PICK new : new = [r EXCEPT !.services = sv, !.generationCounters = gc]
  OBVIOUS
<1>6. PICK out : out = Turns(step.st)
  OBVIOUS
<1>7. settle(step).st = new
  <2>1. settle(step) = Step(new, step.out \union out)
    BY <1>1, <1>3, <1>4, <1>5, <1>6 DEF settle, Turns
  <2> QED
    BY <2>1, StepFields
<1>8. new.services = sv /\ new.members = step.st.members /\ step.st.members \subseteq Services
  <2>1. r \in LifecycleState
    BY <1>2, SoundMembers
  <2> QED
    BY <1>2, <1>5, <2>1, SoundMembers DEF LifecycleState
<1>9. out = UNION {settleService(r, s).out : s \in Services}
  BY <1>1, <1>6 DEF Turns
<1>10. ASSUME NEW s \in Services
       PROVE  SameWaits(step.st.services[s], r.services[s])
  <2>1. step.st.services[s] \in ServiceState
    BY SoundFields
  <2> QED
    BY <1>1, <2>1, SoundMembers DEF reserve, LifecycleState, ServiceState, SameWaits
<1>11. ASSUME NEW s \in Services, NEW x, x.id = s
       PROVE  x \in out <=> x \in settleService(r, s).out
  <2>1. \A t \in Services : \A y \in settleService(r, t).out : y.id = t
    BY <1>2, SettleServiceTurn DEF TurnOf
  <2> QED
    BY <1>9, <1>11, <2>1
<1>12. ASSUME NEW s \in new.members
       PROVE  \E A \in SUBSET step.st.services[s].waiters :
                Serves(s, step.st.services[s], new.services[s], A, out)
  <2>1. s \in Services
    BY <1>8
  <2>2. PICK A \in SUBSET r.services[s].waiters :
          Serves(s, r.services[s], settleService(r, s).st.services[s], A, settleService(r, s).out)
    BY <1>2, <2>1, TurnServes
  <2>3. \A c \in Clients : /\ Admit(s, c) \in out <=> Admit(s, c) \in settleService(r, s).out
                           /\ Fail(s, c) \in out <=> Fail(s, c) \in settleService(r, s).out
    BY <1>11, <2>1, AnswerFields
  <2>4. new.services[s] = settleService(r, s).st.services[s]
    BY <1>3, <1>8, <2>1
  <2>5. SameWaits(step.st.services[s], r.services[s])
    BY <1>10, <2>1
  <2>6. Serves(s, step.st.services[s], new.services[s], A, out)
    BY <2>2, <2>3, <2>4, <2>5 DEF Serves, SameWaits
  <2> QED
    BY <2>5, <2>6 DEF SameWaits
<1>13. Unrefusing(out)
  <2>1. \A s \in Services : Unrefusing(settleService(r, s).out)
    BY <1>2, TurnServes
  <2> QED
    BY <1>9, <2>1 DEF Unrefusing
<1> QED
  BY <1>6, <1>7, <1>8, <1>12, <1>13 DEF Served

\* What opening a wait of client c for s does: it fails, is admitted at once, or waits.
Opens(st, step, s, c, kind) ==
  /\ step.st.members = st.members
  /\ \A t \in Services \ {s} : SameWaits(st.services[t], step.st.services[t])
  /\ \/ /\ SameWaits(st.services[s], step.st.services[s])
        /\ step.out = {Fail(s, c)} \/ (step.out = {} /\ s \notin st.members)
     \/ /\ step.out = {Admit(s, c)}
        /\ step.st.services[s].waiters = st.services[s].waiters
        /\ step.st.services[s].leases = st.services[s].leases + (IF kind = "traffic" THEN 1 ELSE 0)
     \/ /\ \A x \in step.out : x.tag = "Stop"
        /\ step.st.services[s].leases = st.services[s].leases
        /\ \E w \in Waiter : /\ w.client = c /\ w.kind = kind
                             /\ step.st.services[s].waiters = st.services[s].waiters \union {w}

\* That is what openWaiter does.
LEMMA OpenWaiterOpens ==
  ASSUME NEW st \in SoundState, NEW s \in Services, NEW c \in Clients, NEW requireReady \in BOOLEAN,
         NEW kind \in {"traffic", "explicit"}
  PROVE  Opens(st, openWaiter(st, s, c, requireReady, kind), s, c, kind)
<1>0. st.services[s] \in ServiceState /\ st \in LifecycleState
  BY SoundFields
<1>1. \A t \in Services : SameWaits(st.services[t], st.services[t])
  BY DEF SameWaits
<1>2. st.services[s].leases + 0 = st.services[s].leases
  BY <1>0 DEF ServiceState
<1>3. CASE openWaiter(st, s, c, requireReady, kind) = Ignored(st) /\ s \notin st.members
  <2>1. PICK step : step = Ignored(st)
    OBVIOUS
  <2>2. step.st = st /\ step.out = {}
    BY <2>1, StepFields DEF Ignored
  <2>3. Opens(st, step, s, c, kind)
    BY <1>1, <1>3, <2>2 DEF Opens
  <2> QED
    BY <1>3, <2>1, <2>3
<1>4. CASE openWaiter(st, s, c, requireReady, kind) = Step(st, {Fail(s, c)})
  <2>1. PICK step : step = Step(st, {Fail(s, c)})
    OBVIOUS
  <2>2. step.st = st /\ step.out = {Fail(s, c)}
    BY <2>1, StepFields
  <2>3. Opens(st, step, s, c, kind)
    BY <1>1, <2>2 DEF Opens
  <2> QED
    BY <1>4, <2>1, <2>3
<1>5. CASE openWaiter(st, s, c, requireReady, kind) = Step(st, {Admit(s, c)}) /\ kind # "traffic"
  <2>1. PICK step : step = Step(st, {Admit(s, c)})
    OBVIOUS
  <2>2. step.st = st /\ step.out = {Admit(s, c)}
    BY <2>1, StepFields
  <2>3. Opens(st, step, s, c, kind)
    BY <1>1, <1>2, <1>5, <2>2 DEF Opens
  <2> QED
    BY <1>5, <2>1, <2>3
<1>6. PICK q : q = [st.services[s] EXCEPT !.leases = @ + 1]
  OBVIOUS
<1>7. CASE openWaiter(st, s, c, requireReady, kind) = Step(Put(st, s, q), {Admit(s, c)})
           /\ kind = "traffic"
  <2>1. PICK step : step = Step(Put(st, s, q), {Admit(s, c)})
    OBVIOUS
  <2>2. step.st = Put(st, s, q) /\ step.out = {Admit(s, c)}
    BY <2>1, StepFields
  <2>3. /\ step.st.members = st.members /\ step.st.services[s] = q
        /\ \A t \in Services \ {s} : step.st.services[t] = st.services[t]
    BY <1>0, <2>2 DEF Put, LifecycleState
  <2>4. q.waiters = st.services[s].waiters /\ q.leases = st.services[s].leases + 1
    BY <1>0, <1>6 DEF ServiceState
  <2>5. Opens(st, step, s, c, kind)
    BY <1>1, <1>7, <2>2, <2>3, <2>4 DEF Opens
  <2> QED
    BY <1>7, <2>1, <2>5
<1>8. PICK w : w = [client |-> c, kind |-> kind, requireReady |-> requireReady]
  OBVIOUS
<1>9. PICK r : r = [st.services[s] EXCEPT !.waiters = @ \union {w}]
  OBVIOUS
<1>10. CASE openWaiter(st, s, c, requireReady, kind) = retryBlockedCleanup(Put(st, s, r), s)
  <2>1. PICK a : a = Put(st, s, r)
    OBVIOUS
  <2>2. PICK Ss : Ss = prerequisiteClosure[s] \union {s}
    OBVIOUS
  <2>3. PICK sv : sv = [t \in Services |->
                          IF t \in CleanupsPending(a, Ss)
                            THEN [a.services[t] EXCEPT !.cleanupFailure = FALSE] ELSE a.services[t]]
    OBVIOUS
  <2>4. PICK out : out = {Stop(t, a.services[t].phase.generation) : t \in CleanupsPending(a, Ss)}
    OBVIOUS
  <2>5. PICK new : new = [a EXCEPT !.services = sv]
    OBVIOUS
  <2>6. retryBlockedCleanup(a, s) = Step(new, out)
    BY <2>2, <2>3, <2>4, <2>5 DEF retryBlockedCleanup, retryCleanups
  <2>7. w \in Waiter /\ w.client = c /\ w.kind = kind
    BY <1>8 DEF Waiter
  <2>8. r \in ServiceState /\ r.leases = st.services[s].leases /\ r.waiters = st.services[s].waiters \union {w}
    BY <1>0, <1>9, <2>7 DEF ServiceState
  <2>9. a \in LifecycleState /\ a.members = st.members
    BY <1>0, <2>1, <2>8, PutFields
  <2>10. \A t \in Services : a.services[t] = IF t = s THEN r ELSE st.services[t]
    BY <1>0, <2>1, <2>8, PutServices
  <2>11. new.members = st.members /\ new.services = sv
    BY <2>5, <2>9 DEF LifecycleState
  <2>12. ASSUME NEW t \in Services
         PROVE  SameWaits(a.services[t], sv[t])
    <3>1. a.services[t] \in ServiceState
      BY <2>9 DEF LifecycleState
    <3> QED
      BY <2>3, <3>1 DEF ServiceState, SameWaits
  <2>13. \A x \in out : x.tag = "Stop"
    BY <2>4, StopFields
  <2>14. \A t \in Services \ {s} : SameWaits(st.services[t], new.services[t])
    BY <2>10, <2>11, <2>12
  <2>15. new.services[s].leases = st.services[s].leases
         /\ new.services[s].waiters = st.services[s].waiters \union {w}
    BY <2>8, <2>10, <2>11, <2>12 DEF SameWaits
  <2>16. PICK step : step = Step(new, out)
    OBVIOUS
  <2>17. step.st = new /\ step.out = out
    BY <2>16, StepFields
  <2>18. Opens(st, step, s, c, kind)
    BY <2>7, <2>11, <2>13, <2>14, <2>15, <2>17 DEF Opens
  <2> QED
    BY <1>10, <2>1, <2>6, <2>16, <2>18
<1> QED
  BY <1>3, <1>4, <1>5, <1>6, <1>7, <1>8, <1>9, <1>10 DEF openWaiter

\* A lease is given back, if there is one.
LEMMA ClosedWaits ==
  ASSUME NEW st \in SoundState, NEW s \in Services
  PROVE  LET step == ConnectionClosed(st, s)
         IN /\ step.st.members = st.members /\ step.out = {}
            /\ \A t \in Services \ {s} : SameWaits(st.services[t], step.st.services[t])
            /\ step.st.services[s].waiters = st.services[s].waiters
            /\ step.st.services[s].leases
                 = IF st.services[s].leases = 0 THEN 0 ELSE st.services[s].leases - 1
<1>0. st.services[s] \in ServiceState /\ st \in LifecycleState
  BY SoundFields
<1>1. PICK n : n = IF st.services[s].leases = 0 THEN 0 ELSE st.services[s].leases - 1
  OBVIOUS
<1>2. PICK q : q = [st.services[s] EXCEPT !.leases = n]
  OBVIOUS
<1>3. ConnectionClosed(st, s) = Step(Put(st, s, q), {})
  BY <1>0, <1>1, <1>2 DEF ConnectionClosed, Put, LifecycleState
<1>4. q.waiters = st.services[s].waiters /\ q.leases = n
  BY <1>0, <1>2 DEF ServiceState
<1>5. PICK new : new = Put(st, s, q)
  OBVIOUS
<1>6. /\ new.members = st.members /\ new.services[s] = q
      /\ \A t \in Services \ {s} : new.services[t] = st.services[t]
  BY <1>0, <1>5 DEF Put, LifecycleState
<1> QED
  BY <1>1, <1>3, <1>4, <1>5, <1>6, StepFields DEF SameWaits
-----------------------------------------------------------------------------
(* Where a lease is held: what it is of runs, and goes on running.           *)

\* The members stay, and the services of Ss are where they were.
SamePhases(st, new, Ss) ==
  /\ new.members = st.members
  /\ \A t \in Ss : new.services[t].phase = st.services[t].phase

\* One event after another.
LEMMA SamePhasesOn ==
  ASSUME NEW st, NEW a, NEW b, NEW Ss, SamePhases(st, a, Ss), SamePhases(a, b, Ss)
  PROVE  SamePhases(st, b, Ss)
BY DEF SamePhases

\* One service replaced.
LEMMA PutPhases ==
  ASSUME NEW st \in LifecycleState, NEW s \in Services, NEW q
  PROVE  /\ SamePhases(st, Put(st, s, q), Services \ {s})
         /\ q.phase = st.services[s].phase => SamePhases(st, Put(st, s, q), Services)
<1>1. PICK new : new = Put(st, s, q)
  OBVIOUS
<1>2. /\ new.members = st.members
      /\ \A t \in Services : new.services[t] = IF t = s THEN q ELSE st.services[t]
  BY <1>1 DEF Put, LifecycleState
<1> QED
  BY <1>1, <1>2 DEF SamePhases

\* Many services replaced.
LEMMA EachPhases ==
  ASSUME NEW st \in LifecycleState, NEW sv,
         \A t \in Services : sv[t].phase = st.services[t].phase
  PROVE  SamePhases(st, [st EXCEPT !.services = sv], Services)
<1>1. PICK new : new = [st EXCEPT !.services = sv]
  OBVIOUS
<1>2. new.members = st.members /\ new.services = sv
  BY <1>1 DEF LifecycleState
<1> QED
  BY <1>1, <1>2 DEF SamePhases

\* The helpers that several events share.
LEMMA ToldPhases ==
  ASSUME NEW st \in SoundState, NEW s \in Services
  PROVE  SamePhases(st, failExplicitDependentWaiters(st, s).st, Services)
<1>1. PICK sv : sv = [d \in Services |->
                        IF d \in Dependents(st, s)
                          THEN [st.services[d] EXCEPT !.waiters = @ \ Explicit(st.services[d])]
                          ELSE st.services[d]]
  OBVIOUS
<1>2. failExplicitDependentWaiters(st, s).st = [st EXCEPT !.services = sv]
  BY <1>1, StepFields DEF failExplicitDependentWaiters
<1>3. ASSUME NEW t \in Services
      PROVE  sv[t].phase = st.services[t].phase
  <2>1. st.services[t] \in ServiceState
    BY SoundFields
  <2> QED
    BY <1>1, <2>1 DEF ServiceState
<1>4. st \in LifecycleState
  BY SoundMembers
<1> QED
  BY <1>2, <1>3, <1>4, EachPhases

\* Blocked cleanups tried again.
LEMMA RetryPhases ==
  ASSUME NEW st \in LifecycleState, NEW Ss
  PROVE  SamePhases(st, retryCleanups(st, Ss).st, Services)
<1>1. PICK sv : sv = [s \in Services |->
                        IF s \in CleanupsPending(st, Ss)
                          THEN [st.services[s] EXCEPT !.cleanupFailure = FALSE] ELSE st.services[s]]
  OBVIOUS
<1>2. retryCleanups(st, Ss).st = [st EXCEPT !.services = sv]
  BY <1>1, StepFields DEF retryCleanups
<1>3. \A t \in Services : sv[t].phase = st.services[t].phase
  BY <1>1 DEF ServiceState, LifecycleState
<1> QED
  BY <1>2, <1>3, EachPhases

\* Prerequisites armed again.
LEMMA RearmPhases ==
  ASSUME NEW st \in LifecycleState, NEW s
  PROVE  SamePhases(st, rearmPrerequisites(st, s), Services)
<1>1. PICK sv : sv = [p \in Services |->
                        IF p \in prerequisiteClosure[s] \intersect st.members
                           /\ st.services[p].intent = "stopped"
                          THEN [st.services[p] EXCEPT !.intent = Activation[p]] ELSE st.services[p]]
  OBVIOUS
<1>2. rearmPrerequisites(st, s) = [st EXCEPT !.services = sv]
  BY <1>1 DEF rearmPrerequisites
<1>3. \A t \in Services : sv[t].phase = st.services[t].phase
  BY <1>1 DEF ServiceState, LifecycleState
<1> QED
  BY <1>2, <1>3, EachPhases

\* An event that changes nothing, or only the one service.
LEMMA StillPhases ==
  ASSUME NEW st, NEW s
  PROVE  /\ SamePhases(st, Ignored(st).st, Services) /\ SamePhases(st, Refused(st, s).st, Services)
         /\ SamePhases(st, Ignored(st).st, Services \ {s})
         /\ SamePhases(st, Refused(st, s).st, Services \ {s})
BY StepFields DEF Ignored, Refused, SamePhases

\* A service's blocked cleanup tried again, and its prerequisites armed.
LEMMA RestartedPhases ==
  ASSUME NEW a \in LifecycleState, NEW s
  PROVE  SamePhases(a, rearmPrerequisites(retryCleanups(a, {s}).st, s), Services)
<1>1. PICK Ss : Ss = {s}
  OBVIOUS
<1>2. PICK b : b = retryCleanups(a, Ss).st
  OBVIOUS
<1>3. SamePhases(a, b, Services) /\ b \in LifecycleState
  <2>1. PICK sv : sv = [t \in Services |->
                          IF t \in CleanupsPending(a, Ss)
                            THEN [a.services[t] EXCEPT !.cleanupFailure = FALSE] ELSE a.services[t]]
    OBVIOUS
  <2>2. b = [a EXCEPT !.services = sv]
    BY <1>2, <2>1, StepFields DEF retryCleanups
  <2>3. sv \in [Services -> ServiceState]
    <3>1. ASSUME NEW t \in Services
          PROVE  sv[t] \in ServiceState
      <4>1. a.services[t] \in ServiceState
        BY DEF LifecycleState
      <4>2. [a.services[t] EXCEPT !.cleanupFailure = FALSE] \in ServiceState
        BY <4>1 DEF ServiceState
      <4> QED
        BY <2>1, <4>1, <4>2
    <3> QED
      BY <2>1, <3>1
  <2>4. b \in LifecycleState
    BY <2>2, <2>3 DEF LifecycleState
  <2> QED
    BY <1>2, <2>4, RetryPhases
<1>4. SamePhases(b, rearmPrerequisites(b, s), Services)
  BY <1>3, RearmPhases
<1> QED
  BY <1>1, <1>2, <1>3, <1>4, SamePhasesOn
-----------------------------------------------------------------------------
\* One service replaced by one at the same phase.
LEMMA PutSamePhase ==
  ASSUME NEW st \in LifecycleState, NEW s \in Services, NEW q, NEW out,
         q.phase = st.services[s].phase
  PROVE  SamePhases(st, Step(Put(st, s, q), out).st, Services)
<1>1. PICK new : new = Put(st, s, q)
  OBVIOUS
<1>2. SamePhases(st, new, Services)
  BY <1>1, PutPhases
<1>3. Step(new, out).st = new
  BY StepFields
<1> QED
  BY <1>1, <1>2, <1>3

\* The timers, the storage and the waits leave every service where it is.
LEMMA CooldownElapsedPhases ==
  ASSUME NEW st \in SoundState, NEW s, NEW openUntil
  PROVE  SamePhases(st, CooldownElapsed(st, s, openUntil).st, Services)
<1>1. CASE s \in st.members /\ st.services[s].breaker.openUntil = openUntil
  <2>1. s \in Services /\ st.services[s] \in ServiceState /\ st \in LifecycleState
    BY <1>1, SoundMembers, SoundFields
  <2>2. PICK q : q = [st.services[s] EXCEPT !.breaker.openUntil = 0]
    OBVIOUS
  <2>3. q.phase = st.services[s].phase
    BY <2>1, <2>2 DEF ServiceState
  <2>4. CooldownElapsed(st, s, openUntil) = Step(Put(st, s, q), {})
    BY <1>1, <2>2 DEF CooldownElapsed
  <2> QED
    BY <2>1, <2>3, <2>4, PutSamePhase
<1>2. CASE ~(s \in st.members /\ st.services[s].breaker.openUntil = openUntil)
  BY <1>2, StillPhases DEF CooldownElapsed
<1> QED
  BY <1>1, <1>2

\* A lease that is given back.
LEMMA ConnectionClosedPhases ==
  ASSUME NEW st \in SoundState, NEW s \in Services
  PROVE  SamePhases(st, ConnectionClosed(st, s).st, Services)
<1>0. st.services[s] \in ServiceState /\ st \in LifecycleState
  BY SoundFields
<1>1. PICK n : n = IF st.services[s].leases = 0 THEN 0 ELSE st.services[s].leases - 1
  OBVIOUS
<1>2. PICK q : q = [st.services[s] EXCEPT !.leases = n]
  OBVIOUS
<1>3. ConnectionClosed(st, s) = Step(Put(st, s, q), {})
  BY <1>0, <1>1, <1>2 DEF ConnectionClosed, Put, LifecycleState
<1>4. q.phase = st.services[s].phase
  BY <1>0, <1>2 DEF ServiceState
<1> QED
  BY <1>0, <1>3, <1>4, PutSamePhase

\* A wait that is withdrawn.
LEMMA WaiterCancelledPhases ==
  ASSUME NEW st \in SoundState, NEW s \in Services, NEW c
  PROVE  SamePhases(st, WaiterCancelled(st, s, c).st, Services)
<1>0. st.services[s] \in ServiceState /\ st \in LifecycleState
  BY SoundFields
<1>1. PICK W : W = {w \in st.services[s].waiters : w.client # c}
  OBVIOUS
<1>2. PICK q : q = [st.services[s] EXCEPT !.waiters = W]
  OBVIOUS
<1>3. WaiterCancelled(st, s, c) = Step(Put(st, s, q), {})
  BY <1>0, <1>1, <1>2 DEF WaiterCancelled, Put, LifecycleState
<1>4. q.phase = st.services[s].phase
  BY <1>0, <1>2 DEF ServiceState
<1> QED
  BY <1>0, <1>3, <1>4, PutSamePhase

\* An arming.
LEMMA ArmRequestedPhases ==
  ASSUME NEW st \in SoundState, NEW s
  PROVE  SamePhases(st, ArmRequested(st, s).st, Services)
<1>1. CASE s \in st.members /\ st.services[s].destroy = "none"
  <2>1. s \in Services /\ st.services[s] \in ServiceState /\ st \in LifecycleState
    BY <1>1, SoundMembers, SoundFields
  <2>2. PICK q : q = [st.services[s] EXCEPT !.intent = Activation[s], !.breaker = initialBreaker]
    OBVIOUS
  <2>3. q.phase = st.services[s].phase
    BY <2>1, <2>2 DEF ServiceState
  <2>4. ArmRequested(st, s) = Step(Put(st, s, q), {})
    BY <1>1, <2>2 DEF ArmRequested
  <2> QED
    BY <2>1, <2>3, <2>4, PutSamePhase
<1>2. CASE ~(s \in st.members /\ st.services[s].destroy = "none")
  BY <1>2, StillPhases DEF ArmRequested
<1> QED
  BY <1>1, <1>2

\* A reservation that is made, or given back.
LEMMA StoragePhases ==
  ASSUME NEW st \in SoundState, NEW s \in Services
  PROVE  /\ SamePhases(st, StorageReserved(st, s).st, Services)
         /\ SamePhases(st, StorageReleased(st, s).st, Services)
         /\ SamePhases(st, DestroyReleased(st, s).st, Services)
<1>0. st.services[s] \in ServiceState /\ st \in LifecycleState
  BY SoundFields
<1>1. SamePhases(st, StorageReserved(st, s).st, Services)
  <2>1. PICK q : q = [st.services[s] EXCEPT !.storageReserved = TRUE]
    OBVIOUS
  <2>2. q.phase = st.services[s].phase
    BY <1>0, <2>1 DEF ServiceState
  <2>3. \/ StorageReserved(st, s) = Step(Put(st, s, q), {})
        \/ StorageReserved(st, s) = Ignored(st)
        \/ StorageReserved(st, s) = Refused(st, s)
    BY <2>1 DEF StorageReserved
  <2> QED
    BY <1>0, <2>2, <2>3, PutSamePhase, StillPhases
<1>2. SamePhases(st, StorageReleased(st, s).st, Services)
  <2>1. PICK kept \in BOOLEAN :
          kept = (st.services[s].storageReserved /\ st.services[s].destroy = "reserved")
    OBVIOUS
  <2>2. PICK q : q = [st.services[s] EXCEPT !.storageReserved = kept]
    OBVIOUS
  <2>3. StorageReleased(st, s) = Step(Put(st, s, q), {})
    BY <1>0, <2>1, <2>2 DEF StorageReleased, Put, LifecycleState
  <2>4. q.phase = st.services[s].phase
    BY <1>0, <2>2 DEF ServiceState
  <2> QED
    BY <1>0, <2>3, <2>4, PutSamePhase
<1>3. SamePhases(st, DestroyReleased(st, s).st, Services)
  <2>1. PICK kept \in BOOLEAN :
          kept = (st.services[s].storageReserved /\ st.services[s].destroy # "reserved")
    OBVIOUS
  <2>2. PICK q : q = [st.services[s] EXCEPT !.destroy = "none", !.storageReserved = kept]
    OBVIOUS
  <2>3. DestroyReleased(st, s) = Step(Put(st, s, q), {})
    BY <2>1, <2>2 DEF DestroyReleased
  <2>4. q.phase = st.services[s].phase
    BY <1>0, <2>2 DEF ServiceState
  <2> QED
    BY <1>0, <2>3, <2>4, PutSamePhase
<1> QED
  BY <1>1, <1>2, <1>3

\* A start leaves every service where it is; the pass launches.
LEMMA StartRequestedPhases ==
  ASSUME NEW st \in SoundState, NEW s
  PROVE  SamePhases(st, StartRequested(st, s).st, Services)
<1>1. CASE s \notin st.members
  BY <1>1, StillPhases DEF StartRequested
<1>2. CASE s \in st.members /\ st.services[s].destroy # "none"
  BY <1>2, StillPhases DEF StartRequested
<1>3. CASE s \in st.members /\ st.services[s].destroy = "none"
  <2>1. s \in Services /\ st.services[s] \in ServiceState /\ st \in LifecycleState
        /\ Activation[s] \in {"eager", "lazy"}
    BY <1>3, SoundMembers, SoundFields, LifecycleAssumption
  <2>2. PICK forced : forced = (st.services[s].relaunchForced
                                 \/ st.services[s].phase.tag \in {"Stopped", "Failed", "Stopping"})
    OBVIOUS
  <2>3. PICK q : q = [st.services[s] EXCEPT !.intent = Activation[s], !.breaker = initialBreaker,
                               !.relaunchForced = forced]
    OBVIOUS
  <2>4. q \in ServiceState /\ q.phase = st.services[s].phase
    <3>1. initialBreaker \in [failures : Nat, openUntil : Nat] /\ forced \in BOOLEAN
      BY <2>2 DEF initialBreaker
    <3> QED
      BY <2>1, <2>3, <3>1 DEF ServiceState
  <2>5. PICK a : a = Put(st, s, q)
    OBVIOUS
  <2>6. a \in LifecycleState /\ SamePhases(st, a, Services)
    BY <2>1, <2>4, <2>5, PutFields, PutPhases
  <2>7. StartRequested(st, s) = Step(rearmPrerequisites(retryCleanups(a, {s}).st, s),
                                     retryCleanups(a, {s}).out)
    BY <1>3, <2>2, <2>3, <2>5 DEF StartRequested
  <2>8. PICK new : new = rearmPrerequisites(retryCleanups(a, {s}).st, s)
    OBVIOUS
  <2>9. StartRequested(st, s).st = new
    BY <2>7, <2>8, StepFields
  <2>10. SamePhases(a, new, Services)
    BY <2>6, <2>8, RestartedPhases
  <2> QED
    BY <2>6, <2>9, <2>10, SamePhasesOn
<1> QED
  BY <1>1, <1>2, <1>3

\* A stop changes the phase of its service only.
LEMMA StopRequestedPhases ==
  ASSUME NEW st \in SoundState, NEW s
  PROVE  SamePhases(st, StopRequested(st, s).st, Services \ {s})
<1>1. CASE s \notin st.members
  BY <1>1, StillPhases DEF StopRequested
<1>2. CASE s \in st.members /\ activeDependents(st, s) # {}
  BY <1>2, StillPhases DEF StopRequested
<1>3. CASE s \in st.members /\ activeDependents(st, s) = {}
  <2>1. s \in Services /\ st \in LifecycleState
    BY <1>3, SoundMembers
  <2>2. PICK p : p = st.services[s]
    OBVIOUS
  <2>3. p \in ServiceState /\ p.phase \in Phase /\ p.phase.generation \in Nat
    BY <2>1, <2>2, SoundFields
  <2>4. PICK phase : phase = CASE Stoppable(p) -> Stopping(p.phase.generation, FALSE)
                               [] p.phase.tag = "Failed" -> Stopped
                               [] OTHER -> p.phase
    OBVIOUS
  <2>5. phase \in Phase
    <3>1. CASE Stoppable(p)
      BY <2>3, <2>4, <3>1, Phases DEF Stoppable
    <3>2. CASE ~Stoppable(p) /\ p.phase.tag = "Failed"
      BY <2>3, <2>4, <3>2, Phases
    <3>3. CASE ~Stoppable(p) /\ p.phase.tag # "Failed"
      BY <2>3, <2>4, <3>3
    <3> QED
      BY <3>1, <3>2, <3>3
  <2>6. PICK q : q = [p EXCEPT !.intent = "stopped", !.waiters = {},
                               !.relaunchForced = FALSE, !.phase = phase]
    OBVIOUS
  <2>7. q \in ServiceState
    BY <2>3, <2>5, <2>6 DEF ServiceState
  <2>8. PICK a : a = Put(st, s, q)
    OBVIOUS
  <2>9. a \in LifecycleState /\ SamePhases(st, a, Services \ {s})
    BY <2>1, <2>7, <2>8, PutFields, PutPhases
  <2>10. PICK retried : retried = retryCleanups(a, {s})
    OBVIOUS
  <2>11. StopRequested(st, s).st = retried.st
    <3>1. StopRequested(st, s) = Also(retried, failAllWaiters(s, p) \union StopNow(s, p))
      BY <1>3, <2>2, <2>4, <2>6, <2>8, <2>10 DEF StopRequested
    <3>2. retried = Step(retried.st, retried.out)
      BY <2>10 DEF retryCleanups, Step
    <3>3. Also(Step(retried.st, retried.out), failAllWaiters(s, p) \union StopNow(s, p))
            = Step(retried.st, retried.out \union (failAllWaiters(s, p) \union StopNow(s, p)))
      BY AlsoFields
    <3> QED
      BY <3>1, <3>2, <3>3, StepFields
  <2>12. SamePhases(a, retried.st, Services)
    BY <2>9, <2>10, RetryPhases
  <2> QED
    BY <2>9, <2>11, <2>12 DEF SamePhases
<1> QED
  BY <1>1, <1>2, <1>3

\* So does a restart.
LEMMA RestartRequestedPhases ==
  ASSUME NEW st \in SoundState, NEW s
  PROVE  SamePhases(st, RestartRequested(st, s).st, Services \ {s})
<1>1. CASE s \notin st.members
  BY <1>1, StillPhases DEF RestartRequested
<1>2. CASE s \in st.members /\ (st.services[s].destroy # "none" \/ activeDependents(st, s) # {})
  BY <1>2, StillPhases DEF RestartRequested
<1>3. CASE s \in st.members /\ st.services[s].destroy = "none" /\ activeDependents(st, s) = {}
  <2>1. s \in Services /\ st \in LifecycleState /\ Activation[s] \in {"eager", "lazy"}
    BY <1>3, SoundMembers, LifecycleAssumption
  <2>2. PICK p : p = st.services[s]
    OBVIOUS
  <2>3. p \in ServiceState /\ p.phase \in Phase /\ p.phase.generation \in Nat
    BY <2>1, <2>2, SoundFields
  <2>4. PICK phase : phase = IF Stoppable(p) THEN Stopping(p.phase.generation, FALSE) ELSE p.phase
    OBVIOUS
  <2>5. phase \in Phase
    BY <2>3, <2>4, Phases
  <2>6. PICK q : q = [p EXCEPT !.intent = Activation[s], !.breaker = initialBreaker,
                               !.relaunchForced = TRUE, !.phase = phase]
    OBVIOUS
  <2>7. q \in ServiceState
    <3>1. initialBreaker \in [failures : Nat, openUntil : Nat]
      BY DEF initialBreaker
    <3> QED
      BY <2>1, <2>3, <2>5, <2>6, <3>1 DEF ServiceState
  <2>8. PICK a : a = Put(st, s, q)
    OBVIOUS
  <2>9. a \in LifecycleState /\ SamePhases(st, a, Services \ {s})
    BY <2>1, <2>7, <2>8, PutFields, PutPhases
  <2>10. RestartRequested(st, s) = Step(rearmPrerequisites(retryCleanups(a, {s}).st, s),
                                        retryCleanups(a, {s}).out \union StopNow(s, p))
    BY <1>3, <2>2, <2>4, <2>6, <2>8 DEF RestartRequested
  <2>11. SamePhases(a, RestartRequested(st, s).st, Services)
    <3>1. PICK new : new = rearmPrerequisites(retryCleanups(a, {s}).st, s)
      OBVIOUS
    <3>2. RestartRequested(st, s).st = new
      BY <2>10, <3>1, StepFields
    <3> QED
      BY <2>9, <3>1, <3>2, RestartedPhases
  <2> QED
    BY <2>9, <2>11 DEF SamePhases
<1> QED
  BY <1>1, <1>2, <1>3

\* And a destroy.
LEMMA DestroyRequestedPhases ==
  ASSUME NEW st \in SoundState, NEW s \in Services
  PROVE  SamePhases(st, DestroyRequested(st, s).st, Services \ {s})
<1>1. PICK stopped : stopped = StopRequested(st, s)
  OBVIOUS
<1>2. SamePhases(st, stopped.st, Services \ {s}) /\ stopped.st \in SoundState
  BY <1>1, StopRequestedPhases, StopRequestedQuiet DEF QuietStep, Quiet, Leads
<1>3. CASE s \notin st.members \/ Rejected(s) \in stopped.out
  BY <1>1, <1>2, <1>3 DEF DestroyRequested
<1>4. CASE ~(s \notin st.members \/ Rejected(s) \in stopped.out)
  <2>1. PICK a \in SoundState : a = stopped.st
    BY <1>2
  <2>2. a.services[s] \in ServiceState /\ a \in LifecycleState
    BY SoundFields
  <2>3. PICK destroy : destroy = IF a.services[s].destroy = "none" THEN "requested" ELSE a.services[s].destroy
    OBVIOUS
  <2>4. PICK q : q = [a.services[s] EXCEPT !.destroy = destroy]
    OBVIOUS
  <2>5. DestroyRequested(st, s).st = Put(a, s, q)
    <3>1. DestroyRequested(st, s)
            = [stopped EXCEPT !.st.services[s].destroy = IF @ = "none" THEN "requested" ELSE @]
      BY <1>1, <1>4 DEF DestroyRequested
    <3>2. DOMAIN stopped = {"st", "out"} /\ stopped = [st |-> stopped.st, out |-> stopped.out]
      BY <1>1 DEF StopRequested, Ignored, Refused, Also, retryCleanups, Step
    <3> QED
      BY <2>1, <2>2, <2>3, <2>4, <3>1, <3>2 DEF Put, LifecycleState, ServiceState
  <2>6. SamePhases(a, Put(a, s, q), Services \ {s})
    BY <2>2, PutPhases
  <2> QED
    BY <1>2, <2>1, <2>5, <2>6, SamePhasesOn
<1> QED
  BY <1>3, <1>4
-----------------------------------------------------------------------------
\* What runs and has a lease goes on running.
KeepsRunning(st, new, Ss) ==
  /\ Ss \intersect st.members \subseteq new.members
  /\ \A t \in Ss : st.services[t].phase.tag = "Running" /\ st.services[t].leases # 0 =>
       new.services[t].phase.tag = "Running"

\* So it does where no phase changes.
LEMMA SamePhasesRun ==
  ASSUME NEW st, NEW new, NEW Ss, SamePhases(st, new, Ss)
  PROVE  KeepsRunning(st, new, Ss)
BY DEF SamePhases, KeepsRunning

\* An event that admits nobody, and stops nobody who is leased.
LEMMA DrainsRun ==
  ASSUME NEW st \in SoundState, NEW new, NEW out, NEW Ss, KeepsRunning(st, new, Ss), Drains(st, new, out),
         LeasedRun(st, Ss)
  PROVE  LeasedRun(new, Ss)
<1>1. ASSUME NEW s \in Ss
      PROVE  s \in new.members /\ (new.services[s].leases # 0 => new.services[s].phase.tag = "Running")
  <2>1. s \in new.members
    BY DEF LeasedRun, KeepsRunning
  <2>2. new.services[s].leases = st.services[s].leases
    BY <2>1 DEF Drains, Drained
  <2> QED
    BY <2>1, <2>2 DEF LeasedRun, KeepsRunning
<1> QED
  BY <1>1 DEF LeasedRun

\* One service replaced: if it had leases and ran, it runs.
LEMMA PutRuns ==
  ASSUME NEW st, NEW a \in LifecycleState, SamePhases(st, a, Services), NEW s \in Services, NEW q,
         NEW out, NEW Ss \in SUBSET Services,
         s \in Ss /\ st.services[s].phase.tag = "Running" /\ st.services[s].leases # 0 =>
           q.phase.tag = "Running"
  PROVE  KeepsRunning(st, Step(Put(a, s, q), out).st, Ss)
<1>1. PICK new : new = Put(a, s, q)
  OBVIOUS
<1>2. new.members = st.members /\ new.services[s] = q
      /\ \A t \in Services \ {s} : new.services[t].phase = st.services[t].phase
  BY <1>1 DEF Put, LifecycleState, SamePhases
<1>3. KeepsRunning(st, new, Ss)
  BY <1>2 DEF KeepsRunning
<1> QED
  BY <1>1, <1>3, StepFields

\* Nothing done.
LEMMA IgnoredRuns ==
  ASSUME NEW st, NEW Ss
  PROVE  KeepsRunning(st, Ignored(st).st, Ss)
BY StepFields DEF KeepsRunning, Ignored

\* A session that runs.
LEMMA ReadyRuns ==
  ASSUME NEW st \in SoundState, NEW s \in Services, NEW g, NEW ready \in BOOLEAN
  PROVE  KeepsRunning(st, Step(Put(st, s, [st.services[s] EXCEPT !.phase = Running(g, ready),
                              !.readinessFailure = FALSE, !.reprobing = FALSE]), {}).st, Services)
<1>1. st.services[s] \in ServiceState /\ st \in LifecycleState
  BY SoundFields
<1>2. PICK phase : phase = Running(g, ready)
  OBVIOUS
<1>3. phase.tag = "Running"
  BY <1>2 DEF Running, PhaseOf
<1>4. PICK q : q = [st.services[s] EXCEPT !.phase = phase,
                                          !.readinessFailure = FALSE, !.reprobing = FALSE]
  OBVIOUS
<1>5. q.phase.tag = "Running"
  BY <1>1, <1>3, <1>4 DEF ServiceState
<1>6. SamePhases(st, st, Services)
  BY DEF SamePhases
<1>7. KeepsRunning(st, Step(Put(st, s, q), {}).st, Services)
  BY <1>1, <1>5, <1>6, PutRuns
<1> QED
  BY <1>2, <1>4, <1>7

\* The outcomes of a launch or a check that succeeds.
LEMMA CheckedRuns ==
  ASSUME NEW st \in SoundState, NEW s \in Services, NEW g
  PROVE  /\ KeepsRunning(st, SessionAvailable(st, s, g).st, Services)
         /\ KeepsRunning(st, LaunchSucceeded(st, s, g).st, Services)
         /\ KeepsRunning(st, ReadinessRecovered(st, s, g).st, Services)
<1>1. KeepsRunning(st, SessionAvailable(st, s, g).st, Services)
  BY ReadyRuns, IgnoredRuns DEF SessionAvailable
<1>2. KeepsRunning(st, Ready(st, s, g).st, Services)
  BY ReadyRuns DEF Ready
<1> QED
  BY <1>1, <1>2, IgnoredRuns DEF LaunchSucceeded, ReadinessRecovered

\* A check that fails leaves its service running.
LEMMA ReadinessLostRuns ==
  ASSUME NEW st \in SoundState, NEW s \in Services, NEW g
  PROVE  KeepsRunning(st, ReadinessLost(st, s, g).st, Services)
<1>1. CASE AtPhase(st, s, g, {"Running"})
  <2>1. PICK told : told = failExplicitDependentWaiters(st, s)
    OBVIOUS
  <2>2. PICK failed : failed = {w \in st.services[s].waiters : w.requireReady}
    OBVIOUS
  <2>3. PICK q : q = [st.services[s] EXCEPT !.phase = Running(g, FALSE), !.waiters = @ \ failed,
                      !.readinessFailure = TRUE, !.reprobing = FALSE]
    OBVIOUS
  <2>4. PICK out : out = told.out \union {Fail(s, w.client) : w \in failed}
    OBVIOUS
  <2>5. ReadinessLost(st, s, g) = Step(Put(told.st, s, q), out)
    BY <1>1, <2>1, <2>2, <2>3, <2>4 DEF ReadinessLost
  <2>6. PICK a \in SoundState : a = told.st
    BY <2>1, ToldQuiet DEF QuietStep, Quiet, Leads
  <2>7. SamePhases(st, a, Services) /\ a \in LifecycleState
    BY <2>1, <2>6, ToldPhases, SoundMembers
  <2>8. q.phase.tag = "Running"
    <3>1. st.services[s] \in ServiceState
      BY SoundFields
    <3>2. q.phase = Running(g, FALSE)
      BY <2>3, <3>1 DEF ServiceState
    <3> QED
      BY <3>2 DEF Running, PhaseOf
  <2>9. KeepsRunning(st, Step(Put(a, s, q), out).st, Services)
    BY <2>7, <2>8, PutRuns
  <2> QED
    BY <2>5, <2>6, <2>9
<1>2. CASE ~AtPhase(st, s, g, {"Running"})
  BY <1>2, IgnoredRuns DEF ReadinessLost
<1> QED
  BY <1>1, <1>2

\* An exit is of what is not up, unless it was asked for.
LEMMA ExitedRuns ==
  ASSUME NEW st \in SoundState, NEW s \in Services, NEW g, NEW requested, ~UpAt(st.services[s], g)
  PROVE  KeepsRunning(st, Exited(st, s, g, requested).st, Services)
<1>1. PICK crash \in BOOLEAN : crash <=> /\ st.services[s].phase.tag = "Stopping"
                                         /\ st.services[s].intent # "stopped"
                                         /\ st.services[s].phase.crash
  OBVIOUS
<1>2. PICK q : q = [st.services[s] EXCEPT !.phase = IF crash THEN Failed(g) ELSE Stopped,
                               !.idleArmedEpoch = 0, !.readinessFailure = FALSE,
                               !.reprobing = FALSE, !.cleanupFailure = FALSE]
  OBVIOUS
<1>3. CASE Exited(st, s, g, requested) = Ignored(st)
  BY <1>3, IgnoredRuns
<1>4. CASE Exited(st, s, g, requested) = Step(Put(st, s, q), {}) /\ Current(st.services[s], g)
  <2>1. st.services[s].phase.tag # "Running"
    BY <1>4 DEF Current, UpAt, Stoppable
  <2>2. SamePhases(st, st, Services) /\ st \in LifecycleState
    BY SoundMembers DEF SamePhases
  <2>3. KeepsRunning(st, Step(Put(st, s, q), {}).st, Services)
    BY <2>1, <2>2, PutRuns
  <2> QED
    BY <1>4, <2>3
<1> QED
  BY <1>1, <1>2, <1>3, <1>4 DEF Exited

\* No service sleeps while anybody holds a lease of it.
LEMMA IdleElapsedRuns ==
  ASSUME NEW st \in SoundState, NEW s, NEW g, NEW epoch
  PROVE  KeepsRunning(st, IdleElapsed(st, s, g, epoch).st, Services)
<1>1. CASE /\ AtPhase(st, s, g, {"Running"}) /\ st.services[s].idleArmedEpoch = epoch
           /\ ~hasDemand(st, s)
  <2>1. s \in Services
    BY <1>1, RunningFacts
  <2>2. st.services[s] \in ServiceState /\ st \in LifecycleState
    BY <2>1, SoundFields
  <2>3. st.services[s].leases = 0
    <3>1. ~(st.services[s].leases > 0)
      BY <1>1 DEF hasDemand, ownsDemand
    <3> QED
      BY <2>2, <3>1 DEF ServiceState
  <2>4. PICK q : q = [st.services[s] EXCEPT !.phase = Stopping(g, FALSE), !.idleArmedEpoch = 0]
    OBVIOUS
  <2>5. IdleElapsed(st, s, g, epoch) = Step(Put(st, s, q), {Stop(s, g)})
    BY <1>1, <2>4 DEF IdleElapsed
  <2>6. SamePhases(st, st, Services)
    BY DEF SamePhases
  <2>7. PICK out : out = {Stop(s, g)}
    OBVIOUS
  <2>8. KeepsRunning(st, Step(Put(st, s, q), out).st, Services)
    BY <2>1, <2>2, <2>3, <2>6, PutRuns
  <2> QED
    BY <2>5, <2>7, <2>8
<1>2. CASE ~ /\ AtPhase(st, s, g, {"Running"}) /\ st.services[s].idleArmedEpoch = epoch
             /\ ~hasDemand(st, s)
  BY <1>2, IgnoredRuns DEF IdleElapsed
<1> QED
  BY <1>1, <1>2

\* What leaves the graph is one service.
LEMMA GraphUpdatedRuns ==
  ASSUME NEW st \in SoundState, NEW s \in Services
  PROVE  KeepsRunning(st, GraphUpdated(st, s).st, Services \ {s})
<1>1. CASE st.services[s].destroy # "reserved" /\ isActiveForGraphUpdate(st.services[s])
  BY <1>1, StepFields DEF GraphUpdated, Refused, KeepsRunning
<1>2. CASE ~(st.services[s].destroy # "reserved" /\ isActiveForGraphUpdate(st.services[s]))
  <2>1. PICK q : q = initialService("stopped")
    OBVIOUS
  <2>2. PICK a : a = Put(st, s, q)
    OBVIOUS
  <2>3. PICK new : new = [a EXCEPT !.members = @ \ {s}]
    OBVIOUS
  <2>4. GraphUpdated(st, s).st = new
    BY <1>2, <2>1, <2>2, <2>3, StepFields DEF GraphUpdated
  <2>5. st \in LifecycleState
    BY SoundMembers
  <2>6. /\ new.members = st.members \ {s}
        /\ \A t \in Services \ {s} : new.services[t] = st.services[t]
    BY <2>2, <2>3, <2>5 DEF Put, LifecycleState
  <2> QED
    BY <2>4, <2>6 DEF KeepsRunning
<1> QED
  BY <1>1, <1>2
-----------------------------------------------------------------------------
\* A service runs if anybody holds a lease of it.
RunsIfLeased(p) == p.leases # 0 => p.phase.tag = "Running"

\* A lease that is given back.
LEMMA ClosedRuns ==
  ASSUME NEW st \in SoundState, NEW s \in Services, NEW Ss \in SUBSET Services, LeasedRun(st, Ss)
  PROVE  LeasedRun(ConnectionClosed(st, s).st, Ss)
<1>1. PICK step : step = ConnectionClosed(st, s)
  OBVIOUS
<1>2. SamePhases(st, step.st, Services)
  BY <1>1, ConnectionClosedPhases
<1>3. /\ \A t \in Services \ {s} : SameWaits(st.services[t], step.st.services[t])
      /\ step.st.services[s].leases
           = IF st.services[s].leases = 0 THEN 0 ELSE st.services[s].leases - 1
  BY <1>1, ClosedWaits
<1>4. ASSUME NEW t \in Ss
      PROVE  RunsIfLeased(step.st.services[t])
  <2>1. RunsIfLeased(st.services[t]) /\ t \in Services
    BY DEF LeasedRun, RunsIfLeased
  <2>2. step.st.services[t].phase = st.services[t].phase
    BY <1>2, <2>1 DEF SamePhases
  <2>3. step.st.services[t].leases # 0 => st.services[t].leases # 0
    BY <1>3, <2>1 DEF SameWaits
  <2> QED
    BY <2>1, <2>2, <2>3 DEF RunsIfLeased
<1> QED
  BY <1>1, <1>2, <1>4 DEF LeasedRun, SamePhases, RunsIfLeased

\* A wait that is opened is admitted at once only where the service runs.
LEMMA OpenWaiterPhases ==
  ASSUME NEW st \in SoundState, NEW s \in Services, NEW c \in Clients, NEW requireReady \in BOOLEAN,
         NEW kind \in {"traffic", "explicit"}
  PROVE  LET step == openWaiter(st, s, c, requireReady, kind)
         IN /\ SamePhases(st, step.st, Services)
            /\ step.out = {Admit(s, c)} => st.services[s].phase.tag = "Running"
<1>0. st.services[s] \in ServiceState /\ st \in LifecycleState
  BY SoundFields
<1>1. CASE openWaiter(st, s, c, requireReady, kind) = Ignored(st)
  <2>1. {} # {Admit(s, c)}
    OBVIOUS
  <2> QED
    BY <1>1, <2>1, StepFields, StillPhases DEF Ignored
<1>2. CASE openWaiter(st, s, c, requireReady, kind) = Step(st, {Fail(s, c)})
  <2>1. {Fail(s, c)} # {Admit(s, c)}
    <3>1. Fail(s, c).tag = "FailConnection" /\ Admit(s, c).tag = "AdmitConnection"
      BY AnswerFields
    <3>2. Fail(s, c) # Admit(s, c)
      BY <3>1
    <3> QED
      BY <3>2
  <2> QED
    BY <1>2, <2>1, StepFields DEF SamePhases
<1>3. PICK q : q = [st.services[s] EXCEPT !.leases = @ + 1]
  OBVIOUS
<1>4. PICK a : a = IF kind = "traffic" THEN Put(st, s, q) ELSE st
  OBVIOUS
<1>5. CASE openWaiter(st, s, c, requireReady, kind) = Step(a, {Admit(s, c)})
           /\ st.services[s].phase.tag = "Running"
  <2>1. q.phase = st.services[s].phase
    BY <1>0, <1>3 DEF ServiceState
  <2>2. SamePhases(st, Put(st, s, q), Services) /\ SamePhases(st, st, Services)
    BY <1>0, <2>1, PutPhases DEF SamePhases
  <2> QED
    BY <1>4, <1>5, <2>2, StepFields
<1>6. PICK w : w = [client |-> c, kind |-> kind, requireReady |-> requireReady]
  OBVIOUS
<1>7. PICK r : r = [st.services[s] EXCEPT !.waiters = @ \union {w}]
  OBVIOUS
<1>8. CASE openWaiter(st, s, c, requireReady, kind) = retryBlockedCleanup(Put(st, s, r), s)
  <2>1. w \in Waiter
    BY <1>6 DEF Waiter
  <2>2. r \in ServiceState /\ r.phase = st.services[s].phase
    BY <1>0, <1>7, <2>1 DEF ServiceState
  <2>3. PICK b : b = Put(st, s, r)
    OBVIOUS
  <2>4. b \in LifecycleState /\ SamePhases(st, b, Services)
    BY <1>0, <2>2, <2>3, PutFields, PutPhases
  <2>5. PICK Ss : Ss = prerequisiteClosure[s] \union {s}
    OBVIOUS
  <2>6. SamePhases(b, retryCleanups(b, Ss).st, Services)
    BY <2>4, RetryPhases
  <2>7. SamePhases(st, retryCleanups(b, Ss).st, Services)
    BY <2>4, <2>6, SamePhasesOn
  <2>8. retryCleanups(b, Ss).out # {Admit(s, c)}
    <3>1. retryCleanups(b, Ss).out
            = {Stop(t, b.services[t].phase.generation) : t \in CleanupsPending(b, Ss)}
      BY StepFields DEF retryCleanups
    <3>2. \A x \in retryCleanups(b, Ss).out : x.tag = "Stop"
      BY <3>1, StopFields
    <3> QED
      BY <3>2, AnswerFields
  <2> QED
    BY <1>8, <2>3, <2>5, <2>7, <2>8 DEF retryBlockedCleanup
<1>9. \/ openWaiter(st, s, c, requireReady, kind) = Ignored(st)
      \/ openWaiter(st, s, c, requireReady, kind) = Step(st, {Fail(s, c)})
      \/ openWaiter(st, s, c, requireReady, kind) = Step(a, {Admit(s, c)})
         /\ st.services[s].phase.tag = "Running"
      \/ openWaiter(st, s, c, requireReady, kind) = retryBlockedCleanup(Put(st, s, r), s)
  <2>1. PICK eligible \in BOOLEAN :
          eligible <=> IF requireReady THEN admissionReady(st, s) ELSE sessionReady(st, s)
    OBVIOUS
  <2>2. eligible => st.services[s].phase.tag = "Running"
    BY <2>1 DEF admissionReady, sessionReady, isReady
  <2>3. CASE s \notin st.members
    BY <2>3 DEF openWaiter
  <2>4. CASE s \in st.members /\ st.services[s].intent = "stopped"
    BY <2>4 DEF openWaiter
  <2>5. CASE s \in st.members /\ st.services[s].intent # "stopped" /\ eligible
    BY <1>3, <1>4, <2>1, <2>2, <2>5 DEF openWaiter
  <2>6. CASE s \in st.members /\ st.services[s].intent # "stopped" /\ ~eligible
    BY <1>6, <1>7, <2>1, <2>6 DEF openWaiter
  <2> QED
    BY <2>3, <2>4, <2>5, <2>6
<1> QED
  BY <1>1, <1>2, <1>5, <1>8, <1>9

\* A wait that is opened, and at once admitted where the service runs: no lease is counted elsewhere.
LEMMA OpenWaiterRuns ==
  ASSUME NEW st \in SoundState, NEW s \in Services, NEW c \in Clients, NEW requireReady \in BOOLEAN,
         NEW kind \in {"traffic", "explicit"}, NEW Ss \in SUBSET Services, LeasedRun(st, Ss)
  PROVE  LeasedRun(openWaiter(st, s, c, requireReady, kind).st, Ss)
<1>1. PICK step : step = openWaiter(st, s, c, requireReady, kind)
  OBVIOUS
<1>2. /\ SamePhases(st, step.st, Services)
      /\ step.out = {Admit(s, c)} => st.services[s].phase.tag = "Running"
  BY <1>1, OpenWaiterPhases
<1>3. Opens(st, step, s, c, kind)
  BY <1>1, OpenWaiterOpens
<1>4. ASSUME NEW t \in Ss
      PROVE  RunsIfLeased(step.st.services[t])
  <2>1. RunsIfLeased(st.services[t]) /\ t \in Services
    BY DEF LeasedRun, RunsIfLeased
  <2>2. step.st.services[t].phase = st.services[t].phase
    BY <1>2, <2>1 DEF SamePhases
  <2>3. step.st.services[t].leases = st.services[t].leases
        \/ (t = s /\ st.services[s].phase.tag = "Running")
    BY <1>2, <1>3, <2>1 DEF Opens, SameWaits
  <2> QED
    BY <2>1, <2>2, <2>3 DEF RunsIfLeased
<1> QED
  BY <1>1, <1>2, <1>4 DEF LeasedRun, SamePhases, RunsIfLeased

\* A turn of the pass admits only where the service runs, and stops nothing.
LEMMA TurnRuns ==
  ASSUME NEW st \in SoundState, NEW s \in Services, RunsIfLeased(st.services[s])
  PROVE  RunsIfLeased(settleService(st, s).st.services[s])
<1>1. PICK step : step = settleService(st, s)
  OBVIOUS
<1>2. CASE s \in st.members /\ MayLaunch(st, s)
  <2>1. step = launch(st, s)
    BY <1>1, <1>2 DEF settleService
  <2>2. SameWaits(st.services[s], step.st.services[s])
    BY <2>1, LaunchWaits
  <2>3. st.services[s].phase.tag # "Running"
    BY <1>2 DEF MayLaunch
  <2> QED
    BY <1>1, <2>2, <2>3 DEF SameWaits, RunsIfLeased
<1>3. CASE ~(s \in st.members /\ MayLaunch(st, s)) /\ s \in st.members
           /\ st.services[s].phase.tag = "Running"
  <2>1. TurnTaken(st, s, step)
    BY <1>1, SettleServiceTaken
  <2>2. step.st.services[s].phase = st.services[s].phase
    BY <1>3, <2>1 DEF TurnTaken, Stays, Starts, Stoppable
  <2> QED
    BY <1>1, <1>3, <2>2 DEF RunsIfLeased
<1>4. CASE ~(s \in st.members /\ MayLaunch(st, s))
           /\ ~(s \in st.members /\ st.services[s].phase.tag = "Running")
  <2>1. step = Ignored(st)
    BY <1>1, <1>4 DEF settleService
  <2>2. step.st = st
    BY <2>1, StepFields DEF Ignored
  <2> QED
    BY <1>1, <2>2
<1> QED
  BY <1>2, <1>3, <1>4

\* The whole pass.
LEMMA SettleRuns ==
  ASSUME NEW step, step.st \in SoundState, NEW Ss \in SUBSET Services, LeasedRun(step.st, Ss)
  PROVE  LeasedRun(settle(step).st, Ss)
<1>1. PICK r : r = reserve(step.st)
  OBVIOUS
<1>2. r \in SoundState /\ r.members = step.st.members
  BY <1>1, ReserveLeads DEF Leads
<1>3. PICK sv : sv = [s \in Services |-> settleService(r, s).st.services[s]]
  OBVIOUS
<1>4. PICK gc : gc = [s \in Services |-> settleService(r, s).st.generationCounters[s]]
  OBVIOUS
<1>5. PICK new : new = [r EXCEPT !.services = sv, !.generationCounters = gc]
  OBVIOUS
<1>6. PICK out : out = step.out \union UNION {settleService(r, s).out : s \in Services}
  OBVIOUS
<1>7. settle(step).st = new
  <2>1. settle(step) = Step(new, out)
    BY <1>1, <1>3, <1>4, <1>5, <1>6 DEF settle
  <2> QED
    BY <2>1, StepFields
<1>8. new.services = sv /\ new.members = step.st.members
  <2>1. r \in LifecycleState
    BY <1>2, SoundMembers
  <2> QED
    BY <1>2, <1>5, <2>1 DEF LifecycleState
<1>9. ASSUME NEW s \in Ss
      PROVE  RunsIfLeased(new.services[s])
  <2>1. step.st.services[s] \in ServiceState /\ s \in Services
    BY SoundFields
  <2>2. r.services[s].leases = step.st.services[s].leases
        /\ r.services[s].phase = step.st.services[s].phase
    BY <1>1, <2>1, SoundMembers DEF reserve, LifecycleState, ServiceState
  <2>3. RunsIfLeased(r.services[s])
    BY <2>2 DEF LeasedRun, RunsIfLeased
  <2>4. RunsIfLeased(settleService(r, s).st.services[s])
    BY <1>2, <2>1, <2>3, TurnRuns
  <2> QED
    BY <1>3, <1>8, <2>1, <2>4
<1> QED
  BY <1>7, <1>8, <1>9 DEF LeasedRun, RunsIfLeased
=============================================================================
