------------------------ MODULE ServiceContractProofs ------------------------
(***************************************************************************)
(* What the execution boundary guarantees for every set of services, every *)
(* number of generations and every number of failures.                     *)
(***************************************************************************)
EXTENDS ServiceContract, ServiceProofs

USE DEF Generation

-----------------------------------------------------------------------------
\* What the authority commands: a generation that was never launched, or a stop
\* or a re-check of one that was.
LEMMA AuthorityInv ==
  ASSUME ContractInv, NEW s \in Services, Authority(s)
  PROVE  ContractInv'
<1>0. issued \in [Services -> Nat] /\ BoundaryInv(issued)
  BY DEF ContractInv, ContractTypeOK
<1>1. PICK c : /\ Commands(c)
               /\ issued' \in [Services -> Nat]
               /\ \A t \in Services : issued'[t] <= MaxGeneration
               /\ Commanded({c}, issued, issued')
  <2>1. CASE CommandLaunch(s)
    <3>1. issued[s] + 1 \in Generation /\ LaunchCommand(s, issued[s] + 1) \in Command
      BY <1>0, Constructors
    <3> QED
      BY <1>0, <2>1, <3>1, MaxGenerationAssumption
         DEF CommandLaunch, ContractInv, Commanded, LaunchCommand
  <2>2. ASSUME NEW g \in Generations, CommandStop(s, g) \/ CommandReprobe(s, g)
        PROVE  \E c : /\ Commands(c)
                      /\ issued' \in [Services -> Nat]
                      /\ \A t \in Services : issued'[t] <= MaxGeneration
                      /\ Commanded({c}, issued, issued')
    <3>1. PICK c \in {StopCommand(s, g), ReprobeCommand(s, g)} : Commands(c) /\ UNCHANGED issued
      BY <2>2 DEF CommandStop, CommandReprobe
    <3>2. g \in Generation /\ g \in 1..issued[s]
      BY <2>2 DEF CommandStop, CommandReprobe, Generations
    <3>3. c \in Command /\ c.op # "Launch" /\ c.id = s /\ c.generation = g
      <4>1. c \in Command
        BY <3>2, Constructors
      <4> QED
        BY <4>1 DEF StopCommand, ReprobeCommand
    <3> QED
      BY <1>0, <3>1, <3>2, <3>3 DEF ContractInv, Commanded
  <2> QED
    BY <2>1, <2>2 DEF Authority
<1>2. BoundaryInv(issued)'
  <2>1. PICK b \in [Services -> Nat] : b = issued
    BY <1>0
  <2>2. PICK b2 \in [Services -> Nat] : b2 = issued'
    BY <1>1
  <2>3. BoundaryInv(b2)'
    BY <1>0, <1>1, <2>1, <2>2, CommandsInv DEF Commands
  <2> QED
    BY <2>2, <2>3 DEF BoundaryInv, KnownGenerations
<1> QED
  BY <1>1, <1>2 DEF ContractInv, ContractTypeOK, BoundaryInv

-----------------------------------------------------------------------------
\* The invariant holds initially.
LEMMA ContractInvInit == ContractInit => ContractInv
<1> SUFFICES ASSUME ContractInit PROVE ContractInv
  OBVIOUS
<1>1. ContractTypeOK
  BY Constructors DEF ContractInit, Init, ContractTypeOK, TypeOK, NoSession, Session
<1> QED
  BY <1>1, MaxGenerationAssumption
     DEF ContractInv, ContractTypeOK, ContractInit, Init, NoSession, BoundaryInv, KnownGenerations, OneLaunch, AcquiredOnce,
         StopsFence, ReportsAreTrue, OverIsFinal, Held

\* Every step preserves the invariant: the authority's, a report's, the boundary's own.
LEMMA ContractInvNext == ContractInv /\ [Next]_vars => ContractInv'
<1> SUFFICES ASSUME ContractInv, [Next]_vars PROVE ContractInv'
  OBVIOUS
<1>0. PICK b \in [Services -> Nat] : b = issued /\ BoundaryInv(b)
  BY DEF ContractInv, ContractTypeOK
<1>1. CASE UNCHANGED vars
  BY <1>1 DEF vars, serviceVars, ContractInv, ContractTypeOK, BoundaryInv, TypeOK, KnownGenerations,
              OneLaunch, AcquiredOnce, StopsFence, ReportsAreTrue, OverIsFinal, Held, MayAcquire,
              Reports, OutcomeOf
<1>2. ASSUME NEW s \in Services, Authority(s)
      PROVE  ContractInv'
  BY <1>2, AuthorityInv
<1>3. ASSUME UNCHANGED issued, BoundaryInv(b)'
      PROVE  ContractInv'
  BY <1>0, <1>3 DEF ContractInv, ContractTypeOK, BoundaryInv, KnownGenerations
<1>4. ASSUME OwnStep, UNCHANGED issued
      PROVE  ContractInv'
  BY <1>0, <1>3, <1>4, OwnStepInv
<1>5. ASSUME NEW f \in fibers, Report(f), UNCHANGED issued
      PROVE  ContractInv'
  <2>1. Delivered(f) /\ commands' = commands \union {}
    BY <1>5 DEF Report
  <2>2. Commanded({}, b, b)
    BY DEF Commanded
  <2> QED
    BY <1>0, <1>3, <1>5, <2>1, <2>2, DeliveredInv
<1> QED
  BY <1>1, <1>2, <1>4, <1>5 DEF Next, Boundary, OwnStep

\* The state of the execution boundary is what Service.ts:163-181 declares, in
\* every order its fibers run in.
THEOREM ContractTypeCorrect == ContractSpec => []ContractTypeOK
<1>1. ContractInv => ContractTypeOK
  BY DEF ContractInv
<1> QED
  BY <1>1, ContractInvInit, ContractInvNext, PTL DEF ContractSpec

\* The inductive invariant: every generation is launched and acquired at most
\* once, and one that a stop fenced or a report ended stays without resources.
THEOREM ContractInvariant == ContractSpec => []ContractInv
BY ContractInvInit, ContractInvNext, PTL DEF ContractSpec

-----------------------------------------------------------------------------
\* The refinement.
LEMMA FibersAreKnown ==
  ASSUME ContractInv, NEW f \in fibers
  PROVE  f.id \in Services /\ f.generation \in Generations
<1>1. f.id \in Services /\ f.generation \in 1..issued[f.id] /\ issued[f.id] \in Nat
  BY DEF ContractInv, ContractTypeOK, BoundaryInv, TypeOK, Fiber, KnownGenerations
<1>2. issued[f.id] <= MaxGeneration
  BY <1>1 DEF ContractInv
<1> QED
  BY <1>1, <1>2, MaxGenerationAssumption DEF Generations

\* What the boundary does by itself acquires, releases, or stutters.
LEMMA RefinesOwnStep ==
  ASSUME ContractInv, OwnStep, UNCHANGED issued
  PROVE  [Promise!Next]_Promise!vars
<1>0. PICK b \in [Services -> Nat] : b = issued /\ BoundaryInv(b)
  BY DEF ContractInv, ContractTypeOK
<1>1. /\ ended' = ended
      /\ \/ Holder' = Holder
         \/ \E f \in fibers : Takes(f)
         \/ \E s \in Services : Frees(s)
  BY <1>0, OwnStepHolders
<1>2. CASE Holder' = Holder
  BY <1>1, <1>2 DEF Promise!vars, Holder
<1>3. ASSUME NEW f \in fibers, Takes(f)
      PROVE  Promise!Next
  <2>1. Promise!Acquire(f.id, f.generation)
    BY <1>1, <1>3, FibersAreKnown DEF Takes, Holder, Promise!Acquire
  <2> QED
    BY <1>3, <2>1, FibersAreKnown DEF Promise!Next
<1>4. ASSUME NEW s \in Services, Frees(s)
      PROVE  Promise!Next
  BY <1>1, <1>4 DEF Frees, Holder, Promise!Release, Promise!Next
<1> QED
  BY <1>1, <1>2, <1>3, <1>4

\* Reporting the end of a generation is Execution's ReportOver.
LEMMA RefinesReport ==
  ASSUME ContractInv, NEW f \in fibers, Report(f), UNCHANGED issued
  PROVE  [Promise!Next]_Promise!vars
<1>1. /\ f.id \in Services /\ f.generation \in Generations
      /\ UNCHANGED session
  BY FibersAreKnown DEF Report, Delivered
<1>2. CASE UNCHANGED ended
  BY <1>1, <1>2 DEF Promise!vars
<1>3. CASE /\ OutcomeOf(f) \in {"Exited", "LaunchFailed"}
           /\ ended' = ended \union {<<f.id, f.generation>>}
  <2>1. session[f.id].generation # f.generation
    BY <1>3 DEF Report, Delivered, ContractInv, BoundaryInv, ReportsAreTrue
  <2>2. \A s \in Services : {g \in Generations : <<s, g>> \in ended'}
          = IF s = f.id THEN {g \in Generations : <<s, g>> \in ended} \union {f.generation}
                        ELSE {g \in Generations : <<s, g>> \in ended}
    BY <1>1, <1>3
  <2>3. [s \in Services |-> {g \in Generations : <<s, g>> \in ended'}]
          = [[s \in Services |-> {g \in Generations : <<s, g>> \in ended}]
               EXCEPT ![f.id] = @ \union {f.generation}]
    BY <1>1, <2>2
  <2>4. Promise!ReportOver(f.id, f.generation)
    BY <1>1, <2>1, <2>3 DEF Promise!ReportOver
  <2> QED
    BY <1>1, <2>4 DEF Promise!Next
<1> QED
  BY <1>2, <1>3 DEF Report, Delivered

\* From a state of the invariant every step is a step of Execution or a stutter.
LEMMA RefinesNext == ContractInv /\ [Next]_vars => [Promise!Next]_Promise!vars
<1> SUFFICES ASSUME ContractInv, [Next]_vars PROVE [Promise!Next]_Promise!vars
  OBVIOUS
<1>1. CASE UNCHANGED <<session, ended>>
  BY <1>1 DEF Promise!vars
<1>2. CASE UNCHANGED vars
  BY <1>1, <1>2 DEF vars, serviceVars
<1>3. ASSUME NEW s \in Services, Authority(s)
      PROVE  UNCHANGED <<session, ended>>
  BY <1>3 DEF Authority, CommandLaunch, CommandStop, CommandReprobe, Commands
<1>4. ASSUME NEW f \in fibers, Report(f), UNCHANGED issued
      PROVE  [Promise!Next]_Promise!vars
  BY <1>4, RefinesReport
<1>5. CASE OwnStep /\ UNCHANGED issued
  BY <1>5, RefinesOwnStep
<1> QED
  BY <1>1, <1>2, <1>3, <1>4, <1>5 DEF Next, Boundary, OwnStep

\* Whatever a lifecycle authority commands and in whatever order the fibers of
\* the boundary run, a generation reported over holds nothing and never will,
\* and a service's resources belong to one generation at a time.
THEOREM ImplementsExecution == ContractSpec => KeepsPromise
<1>1. ContractInit => Promise!Init
  BY DEF ContractInit, Init, Promise!Init, NoSession
<1> QED
  BY <1>1, RefinesNext, ContractInvariant, PTL DEF ContractSpec, KeepsPromise, Promise!Spec

-----------------------------------------------------------------------------
\* Nothing that the authority commands touches a check.
LEMMA ChecksNext ==
  ASSUME ContractInv, ChecksBelongToLiveSession, [Next]_vars
  PROVE  ChecksBelongToLiveSession'
<1>0. PICK b \in [Services -> Nat] : b = issued /\ BoundaryInv(b)
  BY DEF ContractInv, ContractTypeOK
<1>1. CASE UNCHANGED <<session, fibers>>
  BY <1>1 DEF ChecksBelongToLiveSession
<1>2. CASE OwnStep \/ \E f \in fibers : Delivered(f)
  BY <1>0, <1>2, ChecksStep
<1> QED
  BY <1>1, <1>2
     DEF Next, Boundary, OwnStep, Report, Authority, CommandLaunch, CommandStop, CommandReprobe,
         Commands, vars, serviceVars

\* A readiness check reaches its verdict only while the session it judges is
\* live; whether it is still that when the verdict is reduced is the reducer's
\* to decide, by its generation.
THEOREM ChecksAreCurrent == ContractSpec => []ChecksBelongToLiveSession
<1>1. ContractInit => ChecksBelongToLiveSession
  BY DEF ContractInit, Init, ChecksBelongToLiveSession
<1> QED
  BY <1>1, ChecksNext, ContractInvariant, PTL DEF ContractSpec
=============================================================================
