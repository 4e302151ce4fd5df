--------------------------- MODULE ServiceContract ---------------------------
(***************************************************************************)
(* The execution boundary under any lifecycle authority.  The authority    *)
(* launches each generation once, in increasing order, and may stop or     *)
(* re-check any generation it launched, at any moment and as often as it   *)
(* likes.  Under this assumption alone the boundary implements Execution,  *)
(* whatever order its fibers run.                                          *)
(***************************************************************************)
EXTENDS Service

CONSTANTS
  MaxGeneration,          \* bounds how many generations the authority launches
  MaxInFlight             \* bounds how many stops, or re-checks, of a generation are in flight

ASSUME MaxGenerationAssumption == MaxGeneration \in Nat /\ MaxInFlight \in Nat

VARIABLE issued           \* [Services -> Nat]: the last generation launched

vars == <<serviceVars, issued>>

Generations == 1..MaxGeneration

ContractTypeOK ==
  /\ TypeOK
  /\ issued \in [Services -> Nat]

ContractInit ==
  /\ Init
  /\ issued = [s \in Services |-> 0]

-----------------------------------------------------------------------------
\* The lifecycle authority.
Commands(c) ==
  /\ commands' = commands \union {c}
  /\ UNCHANGED <<fibers, attempt, stoppedThrough, session, working, ended, failures>>

CommandLaunch(s) ==
  /\ issued[s] < MaxGeneration
  /\ issued' = [issued EXCEPT ![s] = @ + 1]
  /\ Commands(LaunchCommand(s, issued[s] + 1))

InFlight(op, kind, s, g) ==
  {c \in commands : c.op = op /\ c.id = s /\ c.generation = g}
    \union {f \in fibers : f.kind = kind /\ f.id = s /\ f.generation = g}

StopsInFlight(s, g) == InFlight("Stop", "stop", s, g)

CommandStop(s, g) ==
  /\ g \in 1..issued[s]
  /\ Cardinality(StopsInFlight(s, g)) < MaxInFlight
  /\ Commands(StopCommand(s, g))
  /\ UNCHANGED issued

CommandReprobe(s, g) ==
  /\ g \in 1..issued[s]
  /\ Cardinality(InFlight("Reprobe", "reprobe", s, g)) < MaxInFlight
  /\ Commands(ReprobeCommand(s, g))
  /\ UNCHANGED issued

Authority(s) ==
  \/ CommandLaunch(s)
  \/ \E g \in Generations : CommandStop(s, g) \/ CommandReprobe(s, g)

-----------------------------------------------------------------------------
Report(f) == Delivered(f) /\ UNCHANGED commands

Boundary ==
  \/ \E c \in commands : Begin(c)
  \/ \E f \in fibers : Run(f) \/ Report(f)
  \/ \E s \in Services : RuntimeExits(s) \/ BeginWork(s) \/ EndWork(s)

Next ==
  \/ \E s \in Services : Authority(s)
  \/ Boundary /\ UNCHANGED issued

ContractSpec == ContractInit /\ [][Next]_vars

-----------------------------------------------------------------------------
\* Only what a stop itself needs is fair: its fiber is scheduled, storage work
\* ends, and the execution semaphore serves its waiters in order, so a stop
\* waiting for it is served although storage work comes and goes.  A launch's
\* preparation and a health check may hang for ever.
StopFiber(s, g, at) == NewFiber("stop", s, g, at)

FairStop(s, g) ==
  /\ WF_vars(StopCommand(s, g) \in commands /\ BeginStop(StopCommand(s, g)) /\ UNCHANGED issued)
  /\ SF_vars(StopFiber(s, g, "fence") \in fibers
             /\ Fence(StopFiber(s, g, "fence")) /\ UNCHANGED issued)
  /\ WF_vars(StopFiber(s, g, "interrupt") \in fibers
             /\ InterruptAttempt(StopFiber(s, g, "interrupt")) /\ UNCHANGED issued)
  /\ SF_vars(StopFiber(s, g, "clean") \in fibers
             /\ StopSession(StopFiber(s, g, "clean")) /\ UNCHANGED issued)
  /\ \A at \in Reporting.stop :
       WF_vars(StopFiber(s, g, at) \in fibers
               /\ Report(StopFiber(s, g, at)) /\ UNCHANGED issued)

FairContractSpec ==
  /\ ContractSpec
  /\ \A s \in Services : WF_vars(EndWork(s) /\ UNCHANGED issued)
  /\ \A s \in Services, g \in Generations : FairStop(s, g)

-----------------------------------------------------------------------------
\* The inductive invariant behind KeepsPromise.
ContractInv ==
  /\ ContractTypeOK
  /\ \A s \in Services : issued[s] <= MaxGeneration
  /\ BoundaryInv(issued)

-----------------------------------------------------------------------------
\* The refinement: what Execution calls the holder of a service's resources is
\* the generation of the session record.
Promise == INSTANCE Execution WITH
  holder <- [s \in Services |-> session[s].generation],
  over   <- [s \in Services |-> {g \in Generations : <<s, g>> \in ended}]

\* A generation reported over holds no resources and never acquires any again,
\* and one session is cleaned before another is acquired (Service.ts:159,
\* stoppedThrough; 178, `current`).
KeepsPromise == Promise!Spec

StopAnswers(s, g) == \E f \in fibers \intersect StopsInFlight(s, g) : Reports(f)

\* Every commanded stop comes to report Exited or StopFailed, even while the
\* launch it must undo hangs in preparation or in its check (Service.ts:429-461).
StopsAreAnswered ==
  \A s \in Services, g \in Generations : StopsInFlight(s, g) # {} ~> StopAnswers(s, g)
=============================================================================
