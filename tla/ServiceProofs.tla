----------------------------- MODULE ServiceProofs -----------------------------
(***************************************************************************)
(* What one step of the execution boundary keeps, for any number of        *)
(* services, generations and failures, and under any lifecycle authority:  *)
(* the lemmas that ServiceContractProofs and OrchestratorProofs share.     *)
(***************************************************************************)
EXTENDS Service, TLAPS

USE DEF Generation

-----------------------------------------------------------------------------
\* Where a fiber moves changes nothing else about it.
LEMMA AtFields ==
  ASSUME NEW f \in Fiber, NEW at \in Working[f.kind] \union Reporting[f.kind]
  PROVE  /\ At(f, at) \in Fiber
         /\ At(f, at).kind = f.kind
         /\ At(f, at).id = f.id
         /\ At(f, at).generation = f.generation
         /\ At(f, at).at = at
<1>1. at \in Steps
  BY DEF Fiber, Steps
<1> QED
  BY <1>1 DEF At, Fiber

\* A new fiber is what it was made as.
LEMMA NewFiberFields ==
  ASSUME NEW k \in Kinds, NEW s \in Services, NEW g \in Generation,
         NEW at \in Working[k] \union Reporting[k]
  PROVE  /\ NewFiber(k, s, g, at) \in Fiber
         /\ NewFiber(k, s, g, at).kind = k
         /\ NewFiber(k, s, g, at).id = s
         /\ NewFiber(k, s, g, at).generation = g
         /\ NewFiber(k, s, g, at).at = at
<1>1. at \in Steps
  BY DEF Steps
<1> QED
  BY <1>1 DEF NewFiber, Fiber

-----------------------------------------------------------------------------
\* The session records and commands the actions build.
LEMMA Constructors ==
  ASSUME NEW s \in Services, NEW g \in Generation
  PROVE  /\ NoSession \in Session
         /\ LiveSession(g) \in Session
         /\ RetainedSession(g) \in Session
         /\ LaunchCommand(s, g) \in Command
         /\ StopCommand(s, g) \in Command
         /\ ReprobeCommand(s, g) \in Command
BY DEF NoSession, LiveSession, RetainedSession, Session, LaunchCommand, StopCommand,
       ReprobeCommand, Command

\* A fiber of a typed state that moves or ends leaves the state typed.
LEMMA MovesTyped ==
  ASSUME TypeOK, NEW f \in fibers, NEW at \in Working[f.kind] \union Reporting[f.kind],
         Moves(f, at)
  PROVE  fibers' \subseteq Fiber /\ attempt' \in [Services -> Nat]
BY AtFields DEF TypeOK, Moves

\* Nor does a fiber that ends disturb the types.
LEMMA EndsTyped ==
  ASSUME TypeOK, NEW f \in fibers, Ends(f)
  PROVE  fibers' \subseteq Fiber /\ attempt' \in [Services -> Nat]
BY DEF TypeOK, Ends

\* A cleanup leaves the sessions, the fibers and the failure count typed.
LEMMA CleanUpTyped ==
  ASSUME TypeOK, NEW f \in fibers, f.kind \in {"stop", "exit"}, CleanUp(f)
  PROVE  /\ fibers' \subseteq Fiber
         /\ session' \in [Services -> Session]
         /\ failures' \in Nat
<1>1. f \in Fiber
  BY DEF TypeOK
<1>2. {"exited", "stopFailed"} \subseteq Reporting[f.kind]
  BY DEF Reporting
<1>3. fibers' \subseteq Fiber
  BY <1>1, <1>2, AtFields DEF TypeOK, CleanUp
<1>4. session' \in [Services -> Session]
  <2>1. CASE session' = [session EXCEPT ![f.id] = NoSession]
    BY <1>1, <2>1 DEF TypeOK, NoSession, Session
  <2>2. CASE session' = [session EXCEPT ![f.id].healthy = FALSE]
    BY <1>1, <2>2 DEF TypeOK, Session
  <2> QED
    BY <2>1, <2>2 DEF CleanUp
<1>5. failures' \in Nat
  BY DEF TypeOK, CleanUp
<1> QED
  BY <1>3, <1>4, <1>5

-----------------------------------------------------------------------------
\* Every command's beginning and every fiber's step keeps the types.
LEMMA BeginTyped ==
  ASSUME TypeOK, NEW c \in commands, Begin(c)
  PROVE  TypeOK'
<1>1. c \in Command
  BY DEF TypeOK
<1>2. c.id \in Services /\ c.generation \in Generation
  BY <1>1 DEF Command
<1>3. CASE BeginLaunch(c)
  <2>1. /\ NewFiber("launch", c.id, c.generation, "prepare") \in Fiber
        /\ NewFiber("launch", c.id, c.generation, "failed") \in Fiber
    BY <1>2, NewFiberFields DEF Kinds, Working, Reporting
  <2> QED
    BY <1>2, <1>3, <2>1 DEF BeginLaunch, TypeOK
<1>4. CASE BeginReprobe(c)
  <2>1. NewFiber("reprobe", c.id, c.generation, "check") \in Fiber
    BY <1>2, NewFiberFields DEF Kinds, Working
  <2> QED
    BY <1>4, <2>1 DEF BeginReprobe, TypeOK
<1>5. CASE BeginStop(c)
  <2>1. NewFiber("stop", c.id, c.generation, "fence") \in Fiber
    BY <1>2, NewFiberFields DEF Kinds, Working
  <2> QED
    BY <1>5, <2>1 DEF BeginStop, TypeOK
<1> QED
  BY <1>3, <1>4, <1>5 DEF Begin

\* The same of every step of a fiber.
LEMMA RunTyped ==
  ASSUME TypeOK, NEW f \in fibers, Run(f)
  PROVE  TypeOK'
<1>0. /\ f \in Fiber
      /\ f.id \in Services /\ f.generation \in Generation
  BY DEF TypeOK, Fiber
<1>1. CASE Prepare(f)
  <2>1. {"acquire", "failed"} \subseteq Working[f.kind] \union Reporting[f.kind]
    BY <1>1 DEF Prepare, Working, Reporting
  <2>2. fibers' \subseteq Fiber /\ attempt' \in [Services -> Nat]
    BY <1>1, <2>1, MovesTyped, EndsTyped DEF Prepare
  <2> QED
    BY <1>1, <2>2 DEF Prepare, TypeOK
<1>2. CASE Acquire(f)
  <2>1. {"available", "failed", "retained"} \subseteq Working[f.kind] \union Reporting[f.kind]
    BY <1>2 DEF Acquire, Working, Reporting
  <2>2. fibers' \subseteq Fiber /\ attempt' \in [Services -> Nat]
    BY <1>2, <2>1, MovesTyped, EndsTyped DEF Acquire
  <2>3. session' \in [Services -> Session]
    BY <1>0, <1>2, Constructors DEF Acquire, TypeOK
  <2> QED
    BY <1>2, <2>2, <2>3 DEF Acquire, TypeOK
<1>3. CASE Check(f)
  <2>1. /\ f.kind = "launch" => {"succeeded", "unready"} \subseteq Reporting[f.kind]
        /\ f.kind # "launch" => {"recovered", "unready"} \subseteq Reporting[f.kind]
    BY <1>0, <1>3 DEF Check, Working, Reporting, Fiber, Kinds
  <2>2. fibers' \subseteq Fiber /\ attempt' \in [Services -> Nat]
    BY <1>3, <2>1, MovesTyped DEF Check
  <2> QED
    BY <1>3, <2>2 DEF Check, TypeOK
<1>4. CASE Fence(f)
  <2>1. "interrupt" \in Working[f.kind]
    BY <1>4 DEF Fence, Working
  <2>2. fibers' \subseteq Fiber /\ attempt' \in [Services -> Nat]
    BY <1>4, <2>1, MovesTyped DEF Fence
  <2> QED
    BY <1>0, <1>4, <2>2 DEF Fence, TypeOK
<1>5. CASE InterruptAttempt(f)
  <2>1. "clean" \in Working[f.kind]
    BY <1>5 DEF InterruptAttempt, Working
  <2>2. At(f, "clean") \in Fiber
    BY <1>0, <2>1, AtFields
  <2> QED
    BY <1>5, <2>2 DEF InterruptAttempt, TypeOK
<1>6. CASE StopSession(f)
  <2>1. f.kind \in {"stop", "exit"} /\ "exited" \in Reporting[f.kind]
    BY <1>6 DEF StopSession, Reporting
  <2>2. CASE CleanUp(f) /\ UNCHANGED attempt
    BY <1>6, <2>1, <2>2, CleanUpTyped DEF StopSession, TypeOK
  <2>3. CASE Moves(f, "exited") /\ UNCHANGED <<session, failures>>
    BY <1>6, <2>1, <2>3, MovesTyped DEF StopSession, TypeOK
  <2> QED
    BY <1>6, <2>2, <2>3 DEF StopSession
<1>7. CASE CleanExited(f)
  <2>1. f.kind \in {"stop", "exit"}
    BY <1>7 DEF CleanExited
  <2>2. CASE CleanUp(f) /\ UNCHANGED attempt
    BY <1>7, <2>1, <2>2, CleanUpTyped DEF CleanExited, TypeOK
  <2>3. CASE Ends(f) /\ UNCHANGED <<session, failures>>
    BY <1>7, <2>3, EndsTyped DEF CleanExited, TypeOK
  <2> QED
    BY <1>7, <2>2, <2>3 DEF CleanExited
<1> QED
  BY <1>1, <1>2, <1>3, <1>4, <1>5, <1>6, <1>7 DEF Run

\* The same of a report.
LEMMA DeliveredTyped ==
  ASSUME TypeOK, NEW f \in fibers, Delivered(f), commands' \subseteq Command
  PROVE  TypeOK'
<1>0. f \in Fiber /\ <<f.id, f.generation>> \in Services \X Nat
  BY DEF TypeOK, Fiber
<1>1. fibers' \subseteq Fiber /\ attempt' \in [Services -> Nat]
  <2>1. CASE Ends(f)
    BY <2>1, EndsTyped
  <2>2. CASE f.at = "available" /\ Moves(f, "check")
    <3>1. "check" \in Working[f.kind]
      BY <1>0, <2>2 DEF Fiber, Kinds, Working, Reporting
    <3> QED
      BY <2>2, <3>1, MovesTyped
  <2>3. CASE f.at = "lost" /\ Moves(f, "clean")
    <3>1. "clean" \in Working[f.kind]
      BY <1>0, <2>3 DEF Fiber, Kinds, Working, Reporting
    <3> QED
      BY <2>3, <3>1, MovesTyped
  <2> QED
    BY <2>1, <2>2, <2>3 DEF Delivered
<1>2. ended' \subseteq Services \X Nat
  BY <1>0 DEF Delivered, TypeOK
<1> QED
  BY <1>1, <1>2 DEF Delivered, TypeOK

\* The same of a runtime that exits by itself.
LEMMA RuntimeExitsTyped ==
  ASSUME TypeOK, NEW s \in Services, RuntimeExits(s)
  PROVE  TypeOK'
<1>1. session[s] \in Session /\ session[s].generation \in Generation
  BY DEF TypeOK, RuntimeExits, Watched, Session
<1>2. NewFiber("exit", s, session[s].generation, "lost") \in Fiber
  BY <1>1, NewFiberFields DEF Kinds, Reporting
<1>3. session' \in [Services -> Session]
  BY <1>1 DEF RuntimeExits, TypeOK, Session
<1> QED
  BY <1>2, <1>3 DEF RuntimeExits, TypeOK

-----------------------------------------------------------------------------
\* What every step but the authority's commands keeps: a launch that may still
\* acquire could do so before, and nothing is launched twice.
Keeps(b) ==
  /\ \A s \in Services, g \in Nat : MayAcquire(s, g)' => MayAcquire(s, g)
  /\ OneLaunch'
  /\ \A x \in commands' \union fibers' : x.generation \in 1..b[x.id]

\* A fiber that moves, unless it moves back to acquiring, keeps all that.
LEMMA MovesKeep ==
  ASSUME NEW b \in [Services -> Nat], BoundaryInv(b), NEW f \in fibers, NEW at \in Working[f.kind] \union Reporting[f.kind],
         fibers' \subseteq (fibers \ {f}) \union {At(f, at)},
         commands' = commands,
         f.kind = "launch" /\ at \in {"prepare", "acquire"} => f.at \in {"prepare", "acquire"}
  PROVE  Keeps(b)
<1> DEFINE n == At(f, at)
<1>1. f \in Fiber /\ fibers \subseteq Fiber
  BY DEF BoundaryInv, TypeOK
<1>2. /\ n.kind = f.kind /\ n.id = f.id
      /\ n.generation = f.generation /\ n.at = at
  BY <1>1, AtFields
<1>3. \A x \in fibers' : x \in fibers \/ x = n
  OBVIOUS
<1> HIDE DEF n
<1>4. \A s \in Services, g \in Nat : MayAcquire(s, g)' => MayAcquire(s, g)
  BY <1>2, <1>3 DEF MayAcquire
<1>5. OneLaunch'
  BY <1>2, <1>3 DEF OneLaunch, BoundaryInv, n, LaunchCommand
<1>6. \A x \in commands' \union fibers' : x.generation \in 1..b[x.id]
  BY <1>2, <1>3 DEF BoundaryInv, KnownGenerations
<1> QED
  BY <1>4, <1>5, <1>6 DEF Keeps

\* So does one that ends.
LEMMA EndsKeep ==
  ASSUME NEW b \in [Services -> Nat], BoundaryInv(b), fibers' \subseteq fibers, commands' = commands
  PROVE  Keeps(b)
BY DEF Keeps, BoundaryInv, MayAcquire, OneLaunch, KnownGenerations, LaunchCommand

-----------------------------------------------------------------------------
\* Steps of a fiber that acquire no session, and report nothing, preserve the
\* invariant: the new step of the fiber must only be one it has earned.
LEMMA MoveInv ==
  ASSUME NEW b \in [Services -> Nat], BoundaryInv(b), TypeOK', NEW f \in fibers,
         NEW at \in Working[f.kind] \union Reporting[f.kind],
         fibers' \subseteq (fibers \ {f}) \union {At(f, at)},
         UNCHANGED <<commands, ended>>,
         \A s \in Services : session'[s].generation \in {0, session[s].generation},
         f.kind = "launch" /\ at \in {"prepare", "acquire"} => f.at \in {"prepare", "acquire"},
         \A s \in Services : stoppedThrough[s] <= stoppedThrough'[s],
         f.kind = "stop" => f.generation <= stoppedThrough'[f.id],
         at \in {"exited", "failed"} => session'[f.id].generation # f.generation
  PROVE  BoundaryInv(b)'
<1> DEFINE n == At(f, at)
<1>1. /\ f \in Fiber /\ fibers \subseteq Fiber
      /\ stoppedThrough \in [Services -> Nat] /\ stoppedThrough' \in [Services -> Nat]
  BY DEF BoundaryInv, TypeOK
<1>2. /\ n.kind = f.kind /\ n.id = f.id
      /\ n.generation = f.generation /\ n.at = at
  BY <1>1, AtFields
<1>3. \A x \in fibers' : x \in fibers \/ x = n
  OBVIOUS
<1>4. Keeps(b)
  BY MovesKeep
<1>5. /\ f.id \in Services /\ f.generation \in Nat
      /\ \A x \in fibers : x.id \in Services /\ x.generation \in Nat
      /\ \A s \in Services : session[s].generation \in Nat
      /\ \A x \in fibers : x.generation # 0
      /\ \A e \in ended : e[1] \in Services /\ e[2] \in Nat
  BY <1>1 DEF KnownGenerations, Fiber, BoundaryInv, TypeOK, Session
<1> HIDE DEF n
<1>6. KnownGenerations(b)'
  BY <1>4, <1>5 DEF Keeps, KnownGenerations, BoundaryInv, TypeOK
<1>7. AcquiredOnce'
  <2>1. \A s \in Services : Held(s)' => ~MayAcquire(s, session[s].generation)'
    BY <1>4, <1>5 DEF Keeps, BoundaryInv, AcquiredOnce, Held
  <2>2. \A x \in fibers' : x.kind = "exit" => ~MayAcquire(x.id, x.generation)'
    BY <1>2, <1>3, <1>4, <1>5 DEF Keeps, BoundaryInv, AcquiredOnce
  <2> QED
    BY <2>1, <2>2 DEF AcquiredOnce
<1>8. StopsFence'
  BY <1>1, <1>2, <1>3, <1>5 DEF StopsFence, BoundaryInv
<1>9. ReportsAreTrue'
  <2>0. \A x \in fibers : session[x.id].generation # x.generation
                           => session'[x.id].generation # x.generation
    BY <1>5
  <2>1. n.at \notin {"exited", "failed"} => OutcomeOf(n) \notin {"Exited", "LaunchFailed"} \/ ~Reports(n)
    BY <1>1, <1>2 DEF OutcomeOf, Reports, Reporting, Fiber, Kinds
  <2> QED
    BY <1>2, <1>3, <2>0, <2>1 DEF ReportsAreTrue, BoundaryInv, Reports, OutcomeOf
<1>10. OverIsFinal'
  <2>1. \A e \in ended : session'[e[1]].generation # e[2]
    BY <1>5 DEF OverIsFinal, BoundaryInv, KnownGenerations
  <2>2. \A e \in ended : e[2] <= stoppedThrough'[e[1]] \/ ~MayAcquire(e[1], e[2])'
    BY <1>1, <1>4, <1>5 DEF Keeps, OverIsFinal, BoundaryInv
  <2> QED
    BY <2>1, <2>2 DEF OverIsFinal
<1> QED
  BY <1>4, <1>6, <1>7, <1>8, <1>9, <1>10 DEF BoundaryInv, Keeps

\* Steps in which fibers only end, and those that touch none, preserve it too.
LEMMA EndInv ==
  ASSUME NEW b \in [Services -> Nat], BoundaryInv(b), TypeOK', fibers' \subseteq fibers,
         UNCHANGED <<commands, session, ended, stoppedThrough>>
  PROVE  BoundaryInv(b)'
<1>1. Keeps(b)
  BY EndsKeep
<1>2. /\ \A x \in fibers : x.id \in Services /\ x.generation \in Nat
      /\ \A s \in Services : session[s].generation \in Nat
      /\ \A e \in ended : e[1] \in Services /\ e[2] \in Nat
  BY DEF Fiber, BoundaryInv, TypeOK, Session
<1>3. KnownGenerations(b)'
  BY <1>1 DEF Keeps, KnownGenerations, BoundaryInv
<1>4. AcquiredOnce'
  BY <1>1, <1>2 DEF Keeps, BoundaryInv, AcquiredOnce, Held
<1>5. StopsFence' /\ ReportsAreTrue'
  BY DEF StopsFence, ReportsAreTrue, BoundaryInv
<1>6. OverIsFinal'
  BY <1>1, <1>2 DEF Keeps, OverIsFinal, BoundaryInv
<1> QED
  BY <1>1, <1>3, <1>4, <1>5, <1>6 DEF BoundaryInv, Keeps

\* A launch that has yet to acquire finds no session of its own generation.
LEMMA NotYetAcquired ==
  ASSUME NEW b \in [Services -> Nat], BoundaryInv(b), NEW f \in fibers, f.kind = "launch", f.at \in {"prepare", "acquire"}
  PROVE  session[f.id].generation # f.generation
BY DEF BoundaryInv, TypeOK, Fiber, AcquiredOnce, KnownGenerations, Held, MayAcquire

\* Preparation, which may fail, preserves the invariant.
LEMMA PrepareInv ==
  ASSUME NEW b \in [Services -> Nat], BoundaryInv(b), TypeOK', NEW f \in fibers, Prepare(f)
  PROVE  BoundaryInv(b)'
<1>1. f.kind = "launch" /\ f.at = "prepare"
      /\ UNCHANGED <<commands, session, ended, stoppedThrough>>
  BY DEF Prepare
<1>2. {"acquire", "failed"} \subseteq Working[f.kind] \union Reporting[f.kind]
  BY <1>1 DEF Working, Reporting
<1>3. \A s \in Services : stoppedThrough[s] <= stoppedThrough'[s]
  BY <1>1 DEF BoundaryInv, TypeOK
<1>4. CASE Moves(f, "acquire")
  BY <1>1, <1>2, <1>3, <1>4, MoveInv DEF Moves
<1>5. CASE Moves(f, "failed")
  BY <1>1, <1>2, <1>3, <1>5, NotYetAcquired, MoveInv DEF Moves
<1>6. CASE Ends(f)
  BY <1>1, <1>6, EndInv DEF Ends
<1> QED
  BY <1>4, <1>5, <1>6 DEF Prepare

\* So does a readiness check, whatever its verdict.
LEMMA CheckInv ==
  ASSUME NEW b \in [Services -> Nat], BoundaryInv(b), TypeOK', NEW f \in fibers, Check(f)
  PROVE  BoundaryInv(b)'
<1>1. f.at = "check" /\ UNCHANGED <<commands, session, ended, stoppedThrough>>
  BY DEF Check
<1>2. f.kind \in {"launch", "reprobe"}
  BY <1>1 DEF BoundaryInv, TypeOK, Fiber, Kinds, Working, Reporting
<1>3. \A s \in Services : stoppedThrough[s] <= stoppedThrough'[s]
  BY <1>1 DEF BoundaryInv, TypeOK
<1>4. PICK at \in {"succeeded", "recovered", "unready"} :
        at \in Working[f.kind] \union Reporting[f.kind] /\ Moves(f, at)
  BY <1>2 DEF Check, Reporting
<1> QED
  BY <1>1, <1>2, <1>3, <1>4, MoveInv DEF Moves

\* So does fencing, from where on the stop may claim its generation fenced.
LEMMA FenceInv ==
  ASSUME NEW b \in [Services -> Nat], BoundaryInv(b), TypeOK', NEW f \in fibers, Fence(f)
  PROVE  BoundaryInv(b)'
<1>1. f.kind = "stop" /\ UNCHANGED <<commands, session, ended>>
  BY DEF Fence
<1>2. "interrupt" \in Working[f.kind]
  BY <1>1 DEF Working
<1>3. f.id \in Services /\ f.generation \in Nat /\ stoppedThrough \in [Services -> Nat]
  BY DEF BoundaryInv, TypeOK, Fiber
<1>4. /\ \A s \in Services : stoppedThrough[s] <= stoppedThrough'[s]
      /\ f.generation <= stoppedThrough'[f.id]
  BY <1>3 DEF Fence
<1> QED
  BY <1>1, <1>2, <1>4, MoveInv DEF Fence, Moves

\* So does interrupting the attempt: the launches it removes can do no more.
LEMMA InterruptInv ==
  ASSUME NEW b \in [Services -> Nat], BoundaryInv(b), TypeOK', NEW f \in fibers, InterruptAttempt(f)
  PROVE  BoundaryInv(b)'
<1>1. f.kind = "stop" /\ f.at = "interrupt"
      /\ UNCHANGED <<commands, session, ended, stoppedThrough>>
  BY DEF InterruptAttempt
<1>2. "clean" \in Working[f.kind]
  BY <1>1 DEF Working
<1>3. /\ \A s \in Services : stoppedThrough[s] <= stoppedThrough'[s]
      /\ f.generation <= stoppedThrough'[f.id]
  BY <1>1 DEF BoundaryInv, TypeOK, StopsFence
<1> QED
  BY <1>1, <1>2, <1>3, MoveInv DEF InterruptAttempt

\* A cleanup of a fenced or finished generation earns its report: the session is gone.
LEMMA CleanUpInv ==
  ASSUME NEW b \in [Services -> Nat], BoundaryInv(b), TypeOK', NEW f \in fibers, f.kind \in {"stop", "exit"},
         f.kind = "stop" => f.at = "clean",
         CleanUp(f), UNCHANGED <<commands, ended, stoppedThrough>>
  PROVE  BoundaryInv(b)'
<1>1. /\ f.id \in Services /\ f.generation \in Nat /\ f.generation # 0
      /\ session \in [Services -> Session] /\ stoppedThrough \in [Services -> Nat]
  BY DEF BoundaryInv, TypeOK, Fiber, KnownGenerations
<1>2. \A s \in Services : session'[s].generation \in {0, session[s].generation}
  <2>1. CASE session' = [session EXCEPT ![f.id] = NoSession]
    BY <1>1, <2>1 DEF NoSession
  <2>2. CASE session' = [session EXCEPT ![f.id].healthy = FALSE]
    BY <1>1, <2>2 DEF Session
  <2> QED
    BY <2>1, <2>2 DEF CleanUp
<1>3. /\ \A s \in Services : stoppedThrough[s] <= stoppedThrough'[s]
      /\ f.kind = "stop" => f.generation <= stoppedThrough'[f.id]
  BY <1>1 DEF BoundaryInv, StopsFence
<1>4. {"exited", "stopFailed"} \subseteq Reporting[f.kind]
  BY DEF Reporting
<1>5. CASE /\ session' = [session EXCEPT ![f.id] = NoSession]
           /\ fibers' = (fibers \ ({f} \union Checks(f.id))) \union {At(f, "exited")}
  <2>1. session'[f.id].generation # f.generation
    BY <1>1, <1>5 DEF NoSession
  <2> QED
    BY <1>1, <1>2, <1>3, <1>4, <1>5, <2>1, MoveInv
<1>6. CASE fibers' = (fibers \ ({f} \union Checks(f.id))) \union {At(f, "stopFailed")}
  BY <1>2, <1>3, <1>4, <1>6, MoveInv
<1> QED
  BY <1>5, <1>6 DEF CleanUp

\* So does the last step of a stop, which cleans no newer session.
LEMMA StopSessionInv ==
  ASSUME NEW b \in [Services -> Nat], BoundaryInv(b), TypeOK', NEW f \in fibers, StopSession(f)
  PROVE  BoundaryInv(b)'
<1>1. f.kind = "stop" /\ f.at = "clean" /\ UNCHANGED <<commands, ended, stoppedThrough>>
  BY DEF StopSession
<1>2. CASE CleanUp(f)
  BY <1>1, <1>2, CleanUpInv
<1>3. CASE /\ ~(Held(f.id) /\ session[f.id].generation <= f.generation)
           /\ Moves(f, "exited") /\ UNCHANGED session
  <2>1. session'[f.id].generation # f.generation
    BY <1>3 DEF Held, BoundaryInv, TypeOK, Fiber, Session, KnownGenerations
  <2>2. /\ \A s \in Services : stoppedThrough[s] <= stoppedThrough'[s]
        /\ f.generation <= stoppedThrough'[f.id]
    BY <1>1 DEF BoundaryInv, TypeOK, StopsFence
  <2>3. "exited" \in Reporting[f.kind]
    BY <1>1 DEF Reporting
  <2> QED
    BY <1>1, <1>3, <2>1, <2>2, <2>3, MoveInv DEF Moves
<1> QED
  BY <1>2, <1>3 DEF StopSession

\* So does the cleanup after an exit, which cleans its own session only.
LEMMA CleanExitedInv ==
  ASSUME NEW b \in [Services -> Nat], BoundaryInv(b), TypeOK', NEW f \in fibers, CleanExited(f)
  PROVE  BoundaryInv(b)'
<1>1. f.kind = "exit" /\ UNCHANGED <<commands, ended, stoppedThrough>>
  BY DEF CleanExited
<1>2. CASE CleanUp(f)
  BY <1>1, <1>2, CleanUpInv
<1>3. CASE Ends(f) /\ UNCHANGED session
  BY <1>1, <1>3, EndInv DEF Ends
<1> QED
  BY <1>2, <1>3 DEF CleanExited

\* The one step that gives a service resources: the launch that takes it is the
\* only one of its generation, is not fenced, and finds no session held.
LEMMA AcquireInv ==
  ASSUME NEW b \in [Services -> Nat], BoundaryInv(b), TypeOK', NEW f \in fibers, Acquire(f)
  PROVE  BoundaryInv(b)'
<1>1. /\ f.kind = "launch" /\ f.at = "acquire"
      /\ UNCHANGED <<commands, ended, stoppedThrough>>
  BY DEF Acquire
<1>2. /\ f \in Fiber /\ fibers \subseteq Fiber
      /\ f.id \in Services /\ f.generation \in Nat /\ f.generation # 0
      /\ session \in [Services -> Session]
      /\ stoppedThrough \in [Services -> Nat]
  BY DEF BoundaryInv, TypeOK, Fiber, KnownGenerations
<1>3. {"available", "failed", "retained"} \subseteq Working[f.kind] \union Reporting[f.kind]
  BY <1>1 DEF Reporting
<1>4. \A s \in Services : stoppedThrough[s] <= stoppedThrough'[s]
  BY <1>1, <1>2
<1>5. CASE Ends(f) /\ UNCHANGED session
  BY <1>1, <1>5, EndInv DEF Ends
<1>6. CASE Moves(f, "failed") /\ UNCHANGED session
  BY <1>1, <1>3, <1>4, <1>6, NotYetAcquired, MoveInv DEF Moves
<1>7. ASSUME NEW at \in {"available", "retained"}, NEW r \in Session,
             r.generation = f.generation, ~Fenced(f), ~Held(f.id), Moves(f, at),
             session' = [session EXCEPT ![f.id] = r]
      PROVE  BoundaryInv(b)'
  <2> DEFINE n == At(f, at)
  <2>1. /\ n.kind = "launch" /\ n.id = f.id
        /\ n.generation = f.generation /\ n.at = at
    BY <1>1, <1>2, <1>3, <1>7, AtFields
  <2>2. fibers' = (fibers \ {f}) \union {n}
    BY <1>7 DEF Moves
  <2>3. Keeps(b)
    BY <1>1, <1>2, <1>3, <1>7, <2>2, MovesKeep
  <2> HIDE DEF n
  <2>4. /\ session'[f.id].generation = f.generation
        /\ \A s \in Services \ {f.id} : session'[s] = session[s]
    BY <1>2, <1>7
  <2>5. \A x \in fibers : x.id \in Services /\ x.generation \in Nat
    BY <1>2 DEF Fiber
  <2>6. ~MayAcquire(f.id, f.generation)'
    BY <1>1, <2>1, <2>2 DEF MayAcquire, BoundaryInv, OneLaunch, LaunchCommand
  <2>7. KnownGenerations(b)'
    BY <1>1, <1>2, <2>3, <2>4 DEF Keeps, KnownGenerations, BoundaryInv
  <2>8. AcquiredOnce'
    <3>1. \A s \in Services : Held(s)' => ~MayAcquire(s, session[s].generation)'
      BY <1>2, <2>3, <2>4, <2>6 DEF Keeps, BoundaryInv, AcquiredOnce, Held, Session
    <3>2. \A x \in fibers' : x.kind = "exit" => ~MayAcquire(x.id, x.generation)'
      BY <2>1, <2>2, <2>3, <2>5 DEF Keeps, BoundaryInv, AcquiredOnce
    <3> QED
      BY <3>1, <3>2 DEF AcquiredOnce
  <2>9. StopsFence'
    BY <1>1, <2>1, <2>2 DEF StopsFence, BoundaryInv
  <2>10. ReportsAreTrue'
    <3>1. ~(Reports(n) /\ OutcomeOf(n) \in {"Exited", "LaunchFailed"})
      BY <2>1 DEF OutcomeOf, Reports, Reporting
    <3>2. ASSUME NEW x \in fibers, x # f, Reports(x),
                 OutcomeOf(x) \in {"Exited", "LaunchFailed"}, x.id = f.id
          PROVE  x.generation # f.generation
      <4>1. x \in Fiber /\ x.at \in {"exited", "failed"}
        BY <1>2, <3>2 DEF OutcomeOf, Reports, Reporting, Fiber, Kinds
      <4>2. CASE x.kind = "launch"
        BY <1>1, <3>2, <4>2 DEF BoundaryInv, OneLaunch
      <4>3. CASE x.kind = "stop"
        BY <1>7, <3>2, <4>1, <4>3 DEF BoundaryInv, StopsFence, Fenced
      <4>4. CASE x.kind = "exit"
        BY <1>1, <3>2, <4>4 DEF BoundaryInv, AcquiredOnce, MayAcquire
      <4>5. x.kind # "reprobe"
        BY <3>2, <4>1 DEF Reports, Reporting
      <4> QED
        BY <4>1, <4>2, <4>3, <4>4, <4>5 DEF Fiber, Kinds
    <3>3. ASSUME NEW x \in fibers', Reports(x)', OutcomeOf(x)' \in {"Exited", "LaunchFailed"}
          PROVE  session'[x.id].generation # x.generation
      <4>1. x \in fibers /\ x # f /\ Reports(x) /\ OutcomeOf(x) \in {"Exited", "LaunchFailed"}
        BY <2>2, <3>1, <3>3 DEF Reports, OutcomeOf
      <4>2. CASE x.id = f.id
        BY <2>4, <3>2, <4>1, <4>2
      <4>3. CASE x.id # f.id
        BY <2>4, <2>5, <4>1, <4>3 DEF BoundaryInv, ReportsAreTrue
      <4> QED
        BY <4>2, <4>3
    <3> QED
      BY <3>3 DEF ReportsAreTrue
  <2>11. OverIsFinal'
    <3>1. \A e \in ended : ~(e[1] = f.id /\ e[2] = f.generation)
      BY <1>1, <1>2, <1>7 DEF BoundaryInv, OverIsFinal, MayAcquire, Fenced
    <3>2. \A e \in ended : e[1] \in Services /\ e[2] \in Nat
      BY DEF BoundaryInv, TypeOK
    <3> QED
      BY <1>1, <2>3, <2>4, <3>1, <3>2 DEF Keeps, OverIsFinal, BoundaryInv
  <2> QED
    BY <2>3, <2>7, <2>8, <2>9, <2>10, <2>11 DEF BoundaryInv, Keeps
<1>8. LiveSession(f.generation) \in Session /\ RetainedSession(f.generation) \in Session
      /\ LiveSession(f.generation).generation = f.generation
      /\ RetainedSession(f.generation).generation = f.generation
  BY <1>2 DEF LiveSession, RetainedSession, Session
<1> QED
  BY <1>5, <1>6, <1>7, <1>8 DEF Acquire

\* A launch's fiber takes over what its command could do.
LEMMA BeginLaunchInv ==
  ASSUME NEW b \in [Services -> Nat], BoundaryInv(b), TypeOK', NEW c \in commands, BeginLaunch(c)
  PROVE  BoundaryInv(b)'
<1>1. /\ c \in Command /\ fibers \subseteq Fiber
      /\ c.id \in Services /\ c.generation \in Nat /\ c.generation # 0
      /\ \A x \in fibers : x.id \in Services /\ x.generation \in Nat
      /\ \A s \in Services : session[s].generation \in Nat
      /\ \A e \in ended : e[1] \in Services /\ e[2] \in Nat
  BY DEF BoundaryInv, TypeOK, Command, Fiber, Session, KnownGenerations
<1>2. /\ c = LaunchCommand(c.id, c.generation)
      /\ commands' = commands \ {c}
      /\ UNCHANGED <<stoppedThrough, session, ended>>
  BY <1>1 DEF BeginLaunch, LaunchCommand, Command
<1>3. PICK n : /\ n.kind = "launch" /\ n.id = c.id /\ n.generation = c.generation
               /\ n.at \in {"prepare", "failed"}
               /\ fibers' = fibers \union {n}
  <2>1. {"prepare", "failed"} \subseteq Working["launch"] \union Reporting["launch"]
    BY DEF Working, Reporting
  <2> QED
    BY <1>1, <2>1, NewFiberFields DEF BeginLaunch, Kinds
<1>4. \A s \in Services, g \in Nat : MayAcquire(s, g)' => MayAcquire(s, g)
  BY <1>2, <1>3 DEF MayAcquire
<1>5. OneLaunch'
  <2>1. LaunchCommand(c.id, c.generation) \notin commands'
    BY <1>2
  <2> QED
    BY <1>1, <1>2, <1>3, <2>1 DEF OneLaunch, BoundaryInv
<1>6. KnownGenerations(b)'
  BY <1>2, <1>3 DEF KnownGenerations, BoundaryInv
<1>7. AcquiredOnce'
  BY <1>1, <1>2, <1>3, <1>4 DEF AcquiredOnce, Held, BoundaryInv
<1>8. StopsFence'
  BY <1>2, <1>3 DEF StopsFence, BoundaryInv
<1>9. ReportsAreTrue'
  <2>1. session[c.id].generation # c.generation
    BY <1>1, <1>2 DEF BoundaryInv, AcquiredOnce, Held, MayAcquire
  <2> QED
    BY <1>2, <1>3, <2>1 DEF ReportsAreTrue, BoundaryInv, Reports, OutcomeOf
<1>10. OverIsFinal'
  BY <1>1, <1>2, <1>4 DEF OverIsFinal, BoundaryInv
<1> QED
  BY <1>5, <1>6, <1>7, <1>8, <1>9, <1>10 DEF BoundaryInv

\* A new fiber that is no launch, reports no end, and if it watches an exit
\* watches a session that was acquired, preserves the invariant.
LEMMA SpawnInv ==
  ASSUME NEW b \in [Services -> Nat], BoundaryInv(b), TypeOK', NEW n \in Fiber, n.kind # "launch",
         n.generation \in 1..b[n.id],
         n.at \in {"fence", "check", "lost"},
         n.kind = "exit" => session[n.id].generation = n.generation,
         fibers' \subseteq fibers \union {n}, commands' \subseteq commands,
         UNCHANGED <<stoppedThrough, ended>>,
         \A s \in Services : session'[s].generation = session[s].generation
  PROVE  BoundaryInv(b)'
<1>1. /\ fibers \subseteq Fiber
      /\ n.id \in Services /\ n.generation \in Nat /\ n.generation # 0
      /\ \A x \in fibers : x.id \in Services /\ x.generation \in Nat
      /\ \A s \in Services : session[s].generation \in Nat
      /\ \A e \in ended : e[1] \in Services /\ e[2] \in Nat
  BY DEF BoundaryInv, TypeOK, Fiber, Session
<1>2. \A s \in Services, g \in Nat : MayAcquire(s, g)' => MayAcquire(s, g)
  BY DEF MayAcquire
<1>3. OneLaunch'
  BY <1>1 DEF OneLaunch, BoundaryInv
<1>4. KnownGenerations(b)'
  BY DEF KnownGenerations, BoundaryInv
<1>5. AcquiredOnce'
  <2>1. n.kind = "exit" => ~MayAcquire(n.id, n.generation)
    BY <1>1 DEF AcquiredOnce, Held, BoundaryInv
  <2> QED
    BY <1>1, <1>2, <2>1 DEF AcquiredOnce, Held, BoundaryInv
<1>6. StopsFence'
  <2>1. n.kind = "stop" => n.at = "fence"
    BY DEF Fiber, Working, Reporting, Kinds
  <2> QED
    BY <2>1 DEF StopsFence, BoundaryInv
<1>7. ReportsAreTrue'
  <2>1. ~(Reports(n) /\ OutcomeOf(n) \in {"Exited", "LaunchFailed"})
    BY DEF Fiber, Kinds, OutcomeOf, Reports, Reporting
  <2> QED
    BY <1>1, <2>1 DEF ReportsAreTrue, BoundaryInv, Reports, OutcomeOf
<1>8. OverIsFinal'
  BY <1>1, <1>2 DEF OverIsFinal, BoundaryInv
<1> QED
  BY <1>3, <1>4, <1>5, <1>6, <1>7, <1>8 DEF BoundaryInv

\* The other commands begin without touching sessions or launches.
LEMMA BeginOthersInv ==
  ASSUME NEW b \in [Services -> Nat], BoundaryInv(b), TypeOK', NEW c \in commands, BeginReprobe(c) \/ BeginStop(c)
  PROVE  BoundaryInv(b)'
<1>1. /\ c.id \in Services /\ c.generation \in Generation /\ c.generation \in 1..b[c.id]
      /\ UNCHANGED <<stoppedThrough, session, ended>>
      /\ commands' \subseteq commands
  BY DEF BoundaryInv, TypeOK, Command, KnownGenerations, BeginReprobe, BeginStop
<1>2. CASE BeginReprobe(c)
  <2>1. "check" \in Working["reprobe"]
    BY DEF Working
  <2> QED
    BY <1>1, <1>2, <2>1, NewFiberFields, SpawnInv DEF BeginReprobe, Kinds
<1>3. CASE BeginStop(c)
  <2>1. "fence" \in Working["stop"]
    BY DEF Working
  <2> QED
    BY <1>1, <1>3, <2>1, NewFiberFields, SpawnInv DEF BeginStop, Kinds
<1> QED
  BY <1>2, <1>3

\* A runtime that exits adds the watcher of a session whose launch is spent.
LEMMA RuntimeExitsInv ==
  ASSUME NEW b \in [Services -> Nat], BoundaryInv(b), TypeOK', NEW s \in Services, RuntimeExits(s)
  PROVE  BoundaryInv(b)'
<1>1. /\ session \in [Services -> Session]
      /\ session[s].generation \in 1..b[s]
  BY DEF BoundaryInv, TypeOK, Session, KnownGenerations, RuntimeExits, Watched
<1>2. \A t \in Services : session'[t].generation = session[t].generation
  BY <1>1 DEF RuntimeExits, Session
<1>3. "lost" \in Reporting["exit"]
  BY DEF Reporting
<1>4. PICK n \in Fiber : /\ n = NewFiber("exit", s, session[s].generation, "lost")
                        /\ n.kind = "exit" /\ n.id = s /\ n.at = "lost"
                        /\ n.generation = session[s].generation
  BY <1>1, <1>3, NewFiberFields DEF Kinds
<1> QED
  BY <1>1, <1>2, <1>4, SpawnInv DEF RuntimeExits

-----------------------------------------------------------------------------
\* What the authority may command, with b2 the generations launched afterwards.
Commanded(New, b, b2) ==
  /\ New \subseteq Command
  /\ \A s \in Services : b[s] <= b2[s]
  /\ \A x \in New : /\ x.generation \in 1..b2[x.id]
                    /\ x.op = "Launch" => b[x.id] < x.generation

\* A fiber that has reported is gone or at its next step, which is no acquisition.
After(f) ==
  \A x \in fibers' :
    \/ x \in fibers
    \/ /\ f \notin fibers'
       /\ x.kind = f.kind /\ x.id = f.id /\ x.generation = f.generation
       /\ x.kind # "stop" /\ ~Reports(x) /\ x.at \notin {"prepare", "acquire"}
       /\ \A y \in fibers' : y \notin fibers => y = x

\* An end that is recorded is true and final.
EndsAreTrue(b) ==
  \A e \in ended' \ ended :
    /\ e[1] \in Services /\ e[2] \in 1..b[e[1]]
    /\ session[e[1]].generation # e[2]
    /\ e[2] <= stoppedThrough[e[1]] \/ ~MayAcquire(e[1], e[2])

\* A dispatch preserves the invariant: it may take a fiber's report, and its
\* commands launch only what was never launched.
LEMMA DispatchInv ==
  ASSUME NEW b \in [Services -> Nat], NEW b2 \in [Services -> Nat], BoundaryInv(b), TypeOK',
         NEW New, Commanded(New, b, b2), commands' = commands \union New,
         NEW f, fibers' = fibers \/ (f \in fibers /\ After(f)),
         UNCHANGED <<session, stoppedThrough>>, EndsAreTrue(b)
  PROVE  BoundaryInv(b2)'
<1>1. /\ \A x \in fibers : x.id \in Services /\ x.generation \in Nat
      /\ \A x \in commands : x.id \in Services /\ x.generation \in Nat
      /\ \A x \in New : x.id \in Services /\ x.generation \in Nat
      /\ \A s \in Services : session[s].generation \in Nat /\ b[s] \in Nat /\ b2[s] \in Nat
      /\ \A e \in ended : e[1] \in Services /\ e[2] \in Nat
  BY DEF BoundaryInv, TypeOK, Fiber, Session, Command, Commanded
<1>2. \A x \in fibers' : \/ x \in fibers
                        \/ /\ f \in fibers /\ f \notin fibers'
                           /\ x.kind = f.kind /\ x.id = f.id /\ x.generation = f.generation
                           /\ x.kind # "stop" /\ ~Reports(x) /\ x.at \notin {"prepare", "acquire"}
                           /\ \A y \in fibers' : y \notin fibers => y = x
  BY DEF After
<1>3. \A s \in Services, g \in Nat : MayAcquire(s, g)' => MayAcquire(s, g) \/ b[s] < g
  BY <1>2 DEF MayAcquire, Commanded, LaunchCommand
<1>4. \A x \in fibers \union fibers' : x.generation \in 1..b[x.id] /\ x.id \in Services
  BY <1>1, <1>2 DEF BoundaryInv, KnownGenerations
<1>5. KnownGenerations(b2)'
  <2>1. \A t \in Services : session[t].generation <= b2[t]
    BY <1>1 DEF BoundaryInv, KnownGenerations, Commanded
  <2>2. \A x \in commands' \union fibers' : x.generation \in 1..b2[x.id]
    BY <1>1, <1>4 DEF BoundaryInv, KnownGenerations, Commanded
  <2>3. \A e \in ended' : e[2] \in 1..b2[e[1]]
    BY <1>1 DEF BoundaryInv, KnownGenerations, Commanded, EndsAreTrue
  <2> QED
    BY <2>1, <2>2, <2>3 DEF KnownGenerations
<1>6. OneLaunch'
  <2>1. ASSUME NEW x \in fibers', x.kind = "launch"
        PROVE  LaunchCommand(x.id, x.generation) \notin commands'
    <3>1. LaunchCommand(x.id, x.generation) \notin commands
      BY <1>2, <2>1 DEF BoundaryInv, OneLaunch
    <3>2. LaunchCommand(x.id, x.generation) \notin New
      BY <1>1, <1>4, <2>1 DEF Commanded, LaunchCommand
    <3> QED
      BY <3>1, <3>2
  <2>2. ASSUME NEW x \in fibers', NEW h \in fibers', x.kind = "launch", h.kind = "launch",
               h.id = x.id, h.generation = x.generation
        PROVE  h = x
    BY <1>2, <2>2 DEF BoundaryInv, OneLaunch
  <2> QED
    BY <2>1, <2>2 DEF OneLaunch
<1>7. AcquiredOnce'
  <2>1. \A s \in Services : Held(s)' => ~MayAcquire(s, session[s].generation)'
    BY <1>1, <1>3 DEF BoundaryInv, AcquiredOnce, KnownGenerations, Held
  <2>2. ASSUME NEW x \in fibers', x.kind = "exit"
        PROVE  ~MayAcquire(x.id, x.generation)'
    <3>1. ~MayAcquire(x.id, x.generation)
      BY <1>2, <2>2 DEF BoundaryInv, AcquiredOnce
    <3> QED
      BY <1>1, <1>3, <1>4, <3>1
  <2> QED
    BY <2>1, <2>2 DEF AcquiredOnce
<1>8. StopsFence'
  BY <1>2 DEF StopsFence, BoundaryInv
<1>9. ReportsAreTrue'
  BY <1>2 DEF ReportsAreTrue, BoundaryInv, Reports, OutcomeOf
<1>10. OverIsFinal'
  <2>1. \A e \in ended' : /\ e[1] \in Services /\ e[2] \in 1..b[e[1]]
                          /\ session[e[1]].generation # e[2]
                          /\ e[2] <= stoppedThrough[e[1]] \/ ~MayAcquire(e[1], e[2])
    BY <1>1 DEF EndsAreTrue, BoundaryInv, OverIsFinal, KnownGenerations
  <2>2. \A e \in ended' : MayAcquire(e[1], e[2])' => MayAcquire(e[1], e[2])
    BY <1>1, <1>3, <2>1
  <2> QED
    BY <2>1, <2>2 DEF OverIsFinal
<1> QED
  BY <1>5, <1>6, <1>7, <1>8, <1>9, <1>10 DEF BoundaryInv

\* Commands alone.
LEMMA CommandsInv ==
  ASSUME NEW b \in [Services -> Nat], NEW b2 \in [Services -> Nat], BoundaryInv(b),
         NEW New, Commanded(New, b, b2), commands' = commands \union New,
         UNCHANGED <<fibers, attempt, stoppedThrough, session, working, ended, failures>>
  PROVE  BoundaryInv(b2)'
<1>1. TypeOK'
  BY DEF BoundaryInv, TypeOK, Commanded
<1>2. EndsAreTrue(b)
  BY DEF EndsAreTrue
<1> QED
  BY <1>1, <1>2, DispatchInv

\* What a report leaves: its fiber over, or at its next step.
LEMMA DeliveredAfter ==
  ASSUME TypeOK, NEW f \in fibers, Delivered(f)
  PROVE  After(f)
<1>1. f \in Fiber
  BY DEF TypeOK
<1>2. \/ Ends(f)
      \/ f.at = "available" /\ Moves(f, "check")
      \/ f.at = "lost" /\ Moves(f, "clean")
  BY DEF Delivered
<1>3. CASE Ends(f)
  BY <1>3 DEF Ends, After
<1>4. CASE f.at = "available" /\ Moves(f, "check")
  <2>1. f.kind = "launch" /\ "check" \in Working[f.kind]
    BY <1>1, <1>4 DEF Fiber, Kinds, Working, Reporting
  <2> QED
    BY <1>1, <1>4, <2>1, AtFields DEF Moves, Reports, Reporting, After
<1>5. CASE f.at = "lost" /\ Moves(f, "clean")
  <2>1. f.kind = "exit" /\ "clean" \in Working[f.kind]
    BY <1>1, <1>5 DEF Fiber, Kinds, Working, Reporting
  <2> QED
    BY <1>1, <1>5, <2>1, AtFields DEF Moves, Reports, Reporting, After
<1> QED
  BY <1>2, <1>3, <1>4, <1>5

\* A fiber that reports an end has seen it, and nothing of its generation may acquire.
LEMMA ReportedEnds ==
  ASSUME NEW b \in [Services -> Nat], BoundaryInv(b), NEW f \in fibers, Reports(f),
         OutcomeOf(f) \in {"Exited", "LaunchFailed"}
  PROVE  /\ session[f.id].generation # f.generation
         /\ f.generation <= stoppedThrough[f.id] \/ ~MayAcquire(f.id, f.generation)
<1>1. f \in Fiber
  BY DEF BoundaryInv, TypeOK
<1>2. f.at \in {"exited", "failed"}
  BY <1>1 DEF OutcomeOf, Reports, Reporting, Fiber, Kinds
<1>3. CASE f.kind = "launch"
  BY <1>1, <1>2, <1>3 DEF BoundaryInv, ReportsAreTrue, OneLaunch, MayAcquire
<1>4. CASE f.kind = "stop"
  BY <1>2, <1>4 DEF BoundaryInv, ReportsAreTrue, StopsFence
<1>5. CASE f.kind = "exit"
  BY <1>5 DEF BoundaryInv, ReportsAreTrue, AcquiredOnce
<1>6. f.kind # "reprobe"
  BY <1>2 DEF Reports, Reporting
<1> QED
  BY <1>1, <1>3, <1>4, <1>5, <1>6 DEF Fiber, Kinds

\* A report and what the authority answers.
LEMMA DeliveredInv ==
  ASSUME NEW b \in [Services -> Nat], NEW b2 \in [Services -> Nat], BoundaryInv(b),
         NEW New, Commanded(New, b, b2), commands' = commands \union New,
         NEW f \in fibers, Delivered(f)
  PROVE  BoundaryInv(b2)'
<1>1. TypeOK'
  BY DeliveredTyped DEF BoundaryInv, TypeOK, Commanded
<1>2. After(f)
  BY DeliveredAfter DEF BoundaryInv
<1>3. f.id \in Services /\ f.generation \in 1..b[f.id]
  BY DEF BoundaryInv, TypeOK, Fiber, KnownGenerations
<1>4. EndsAreTrue(b)
  BY <1>3, ReportedEnds DEF EndsAreTrue, Delivered
<1> QED
  BY <1>1, <1>2, <1>4, DispatchInv DEF Delivered

-----------------------------------------------------------------------------
\* What the boundary does of its own accord, and the storage work it admits.
OwnStep ==
  \/ \E c \in commands : Begin(c)
  \/ \E f \in fibers : Run(f)
  \/ \E s \in Services : RuntimeExits(s) \/ BeginWork(s) \/ EndWork(s)

LEMMA OwnStepInv ==
  ASSUME NEW b \in [Services -> Nat], BoundaryInv(b), OwnStep
  PROVE  BoundaryInv(b)'
<1>0. TypeOK
  BY DEF BoundaryInv
<1>1. ASSUME NEW c \in commands, Begin(c)
      PROVE  BoundaryInv(b)'
  BY <1>0, <1>1, BeginTyped, BeginLaunchInv, BeginOthersInv DEF Begin
<1>2. ASSUME NEW f \in fibers, Run(f)
      PROVE  BoundaryInv(b)'
  <2>1. TypeOK'
    BY <1>0, <1>2, RunTyped
  <2> QED
    BY <1>2, <2>1, PrepareInv, AcquireInv, CheckInv, FenceInv, InterruptInv, StopSessionInv,
       CleanExitedInv DEF Run
<1>3. ASSUME NEW s \in Services, RuntimeExits(s)
      PROVE  BoundaryInv(b)'
  BY <1>0, <1>3, RuntimeExitsTyped, RuntimeExitsInv
<1>4. ASSUME NEW s \in Services, BeginWork(s) \/ EndWork(s)
      PROVE  BoundaryInv(b)'
  <2>1. /\ UNCHANGED <<commands, fibers, attempt, stoppedThrough, session, ended, failures>>
        /\ working' \in [Services -> BOOLEAN]
    BY <1>0, <1>4 DEF BeginWork, EndWork, TypeOK
  <2>2. TypeOK'
    BY <1>0, <2>1 DEF TypeOK
  <2> QED
    BY <2>1, <2>2, EndInv
<1> QED
  BY <1>1, <1>2, <1>3, <1>4 DEF OwnStep

\* No such step lets a launch acquire that could not before, or lifts a fence.
LEMMA OwnStepFences ==
  ASSUME NEW b \in [Services -> Nat], BoundaryInv(b), OwnStep
  PROVE  /\ \A s \in Services, g \in Nat : MayAcquire(s, g)' => MayAcquire(s, g)
         /\ \A s \in Services : stoppedThrough[s] <= stoppedThrough'[s]
<1>0. /\ fibers \subseteq Fiber /\ stoppedThrough \in [Services -> Nat]
      /\ commands \subseteq Command
      /\ \A f \in fibers : f.id \in Services /\ f.generation \in Nat
  BY DEF BoundaryInv, TypeOK, Fiber
<1>1. ASSUME NEW f \in fibers, NEW at \in Working[f.kind] \union Reporting[f.kind],
             fibers' \subseteq (fibers \ {f}) \union {At(f, at)}, commands' = commands,
             f.kind = "launch" /\ at \in {"prepare", "acquire"} => f.at \in {"prepare", "acquire"}
      PROVE  \A s \in Services, g \in Nat : MayAcquire(s, g)' => MayAcquire(s, g)
  BY <1>1, MovesKeep DEF Keeps
<1>2. ASSUME fibers' \subseteq fibers, commands' \subseteq commands
      PROVE  \A s \in Services, g \in Nat : MayAcquire(s, g)' => MayAcquire(s, g)
  BY <1>2 DEF MayAcquire
<1>3. ASSUME NEW f \in fibers, f.kind \in {"stop", "exit"}, CleanUp(f), commands' = commands
      PROVE  \A s \in Services, g \in Nat : MayAcquire(s, g)' => MayAcquire(s, g)
  <2>1. PICK at \in {"exited", "stopFailed"} : fibers' \subseteq (fibers \ {f}) \union {At(f, at)}
    BY <1>3 DEF CleanUp
  <2>2. at \in Reporting[f.kind]
    BY <1>3 DEF Reporting
  <2> QED
    BY <1>1, <1>3, <2>1, <2>2
<1>4. ASSUME NEW c \in commands, Begin(c)
      PROVE  /\ \A s \in Services, g \in Nat : MayAcquire(s, g)' => MayAcquire(s, g)
             /\ UNCHANGED stoppedThrough
  <2>1. CASE BeginLaunch(c)
    <3>1. c = LaunchCommand(c.id, c.generation)
      BY <1>0, <2>1 DEF BeginLaunch, LaunchCommand, Command
    <3> QED
      BY <2>1, <3>1 DEF BeginLaunch, NewFiber, MayAcquire
  <2>2. CASE BeginReprobe(c) \/ BeginStop(c)
    BY <2>2 DEF BeginReprobe, BeginStop, NewFiber, MayAcquire
  <2> QED
    BY <1>4, <2>1, <2>2 DEF Begin, BeginLaunch, BeginReprobe, BeginStop
<1>5. ASSUME NEW f \in fibers, Run(f)
      PROVE  /\ \A s \in Services, g \in Nat : MayAcquire(s, g)' => MayAcquire(s, g)
             /\ \A s \in Services : stoppedThrough[s] <= stoppedThrough'[s]
  <2>1. CASE Prepare(f)
    <3>1. {"acquire", "failed"} \subseteq Working[f.kind] \union Reporting[f.kind]
      BY <2>1 DEF Prepare, Working, Reporting
    <3> QED
      BY <1>0, <1>1, <1>2, <2>1, <3>1 DEF Prepare, Moves, Ends
  <2>2. CASE Acquire(f)
    <3>1. {"available", "failed", "retained"} \subseteq Working[f.kind] \union Reporting[f.kind]
      BY <2>2 DEF Acquire, Working, Reporting
    <3> QED
      BY <1>0, <1>1, <1>2, <2>2, <3>1 DEF Acquire, Moves, Ends
  <2>3. CASE Check(f)
    <3>1. PICK at \in {"succeeded", "recovered", "unready"} :
            at \in Working[f.kind] \union Reporting[f.kind] /\ Moves(f, at)
      BY <1>0, <2>3 DEF Check, Fiber, Kinds, Working, Reporting
    <3> QED
      BY <1>0, <1>1, <2>3, <3>1 DEF Check, Moves
  <2>4. CASE Fence(f)
    <3>1. "interrupt" \in Working[f.kind] /\ f.kind = "stop"
      BY <2>4 DEF Fence, Working
    <3>2. \A s \in Services : stoppedThrough[s] <= stoppedThrough'[s]
      BY <1>0, <2>4 DEF Fence
    <3> QED
      BY <1>1, <2>4, <3>1, <3>2 DEF Fence, Moves
  <2>5. CASE InterruptAttempt(f)
    <3>1. "clean" \in Working[f.kind] /\ f.kind = "stop"
      BY <2>5 DEF InterruptAttempt, Working
    <3> QED
      BY <1>0, <1>1, <2>5, <3>1 DEF InterruptAttempt
  <2>6. CASE StopSession(f)
    <3>1. "exited" \in Reporting[f.kind] /\ f.kind = "stop"
      BY <2>6 DEF StopSession, Reporting
    <3> QED
      BY <1>0, <1>1, <1>3, <2>6, <3>1 DEF StopSession, Moves
  <2>7. CASE CleanExited(f)
    BY <1>0, <1>2, <1>3, <2>7 DEF CleanExited, Ends
  <2> QED
    BY <1>5, <2>1, <2>2, <2>3, <2>4, <2>5, <2>6, <2>7 DEF Run
<1>6. ASSUME NEW s \in Services, RuntimeExits(s)
      PROVE  /\ \A t \in Services, g \in Nat : MayAcquire(t, g)' => MayAcquire(t, g)
             /\ UNCHANGED stoppedThrough
  BY <1>6 DEF RuntimeExits, NewFiber, MayAcquire
<1>7. ASSUME NEW s \in Services, BeginWork(s) \/ EndWork(s)
      PROVE  /\ \A t \in Services, g \in Nat : MayAcquire(t, g)' => MayAcquire(t, g)
             /\ UNCHANGED stoppedThrough
  BY <1>7 DEF BeginWork, EndWork, MayAcquire
<1> QED
  BY <1>0, <1>4, <1>5, <1>6, <1>7 DEF OwnStep

-----------------------------------------------------------------------------
\* The generation whose resources each service holds.
Holder == [s \in Services |-> session[s].generation]

\* A launch takes the resources of a service that has none, unfenced and not over.
Takes(f) ==
  /\ f.id \in Services
  /\ f.kind = "launch" /\ f.at = "acquire" /\ ~Fenced(f)
  /\ <<f.id, f.generation>> \notin ended
  /\ Holder[f.id] = 0
  /\ Holder' = [Holder EXCEPT ![f.id] = f.generation]

\* A cleanup is confirmed.
Frees(s) == Holder[s] # 0 /\ Holder' = [Holder EXCEPT ![s] = 0]

\* Nothing else changes who holds a service's resources, and only a report
\* records an end.
LEMMA OwnStepHolders ==
  ASSUME NEW b \in [Services -> Nat], BoundaryInv(b), OwnStep
  PROVE  /\ ended' = ended
         /\ \/ Holder' = Holder
            \/ \E f \in fibers : Takes(f)
            \/ \E s \in Services : Frees(s)
<1>0. /\ fibers \subseteq Fiber /\ session \in [Services -> Session]
      /\ \A f \in fibers : f.id \in Services /\ f.generation \in Nat \ {0}
  BY DEF BoundaryInv, TypeOK, Fiber
<1>1. ASSUME NEW f \in fibers, Held(f.id), CleanUp(f)
      PROVE  Holder' = Holder \/ Frees(f.id)
  <2>1. CASE session' = [session EXCEPT ![f.id] = NoSession]
    BY <1>0, <1>1, <2>1 DEF NoSession, Holder, Held, Frees
  <2>2. CASE session' = [session EXCEPT ![f.id].healthy = FALSE]
    BY <1>0, <2>2 DEF Session, Holder
  <2> QED
    BY <1>1, <2>1, <2>2 DEF CleanUp
<1>2. ASSUME NEW f \in fibers, Acquire(f)
      PROVE  ended' = ended /\ (Holder' = Holder \/ Takes(f))
  <2>1. CASE UNCHANGED session
    BY <1>2, <2>1 DEF Acquire, Holder
  <2>2. CASE /\ ~Fenced(f) /\ ~Held(f.id)
             /\ \E r : r.generation = f.generation /\ session' = [session EXCEPT ![f.id] = r]
    <3>1. f.kind = "launch" /\ f.at = "acquire" /\ ended' = ended
      BY <1>2 DEF Acquire
    <3>2. <<f.id, f.generation>> \notin ended
      <4> SUFFICES ASSUME <<f.id, f.generation>> \in ended PROVE FALSE
        OBVIOUS
      <4>1. f.generation <= stoppedThrough[f.id] \/ ~MayAcquire(f.id, f.generation)
        BY DEF BoundaryInv, OverIsFinal
      <4> QED
        BY <2>2, <3>1, <4>1 DEF MayAcquire, Fenced
    <3>3. Holder[f.id] = 0 /\ Holder' = [Holder EXCEPT ![f.id] = f.generation]
      BY <1>0, <2>2 DEF Holder, Held
    <3> QED
      BY <1>0, <2>2, <3>1, <3>2, <3>3 DEF Takes
  <2> QED
    BY <1>2, <2>1, <2>2 DEF Acquire, LiveSession, RetainedSession
<1>3. ASSUME NEW f \in fibers, Run(f)
      PROVE  ended' = ended /\ (Holder' = Holder \/ Takes(f) \/ Frees(f.id))
  <2>1. CASE Prepare(f) \/ Check(f) \/ Fence(f) \/ InterruptAttempt(f)
    BY <2>1 DEF Prepare, Check, Fence, InterruptAttempt, Holder
  <2>2. CASE StopSession(f)
    BY <1>1, <2>2 DEF StopSession, Holder
  <2>3. CASE CleanExited(f)
    <3>1. session[f.id].generation = f.generation => Held(f.id)
      BY <1>0 DEF Held
    <3> QED
      BY <1>1, <2>3, <3>1 DEF CleanExited, Holder
  <2> QED
    BY <1>2, <1>3, <2>1, <2>2, <2>3 DEF Run
<1>4. ASSUME NEW c \in commands, Begin(c)
      PROVE  ended' = ended /\ Holder' = Holder
  BY <1>4 DEF Begin, BeginLaunch, BeginReprobe, BeginStop, Holder
<1>5. ASSUME NEW s \in Services, RuntimeExits(s)
      PROVE  ended' = ended /\ Holder' = Holder
  <2>1. \A t \in Services : session'[t].generation = session[t].generation
    BY <1>0, <1>5 DEF RuntimeExits, Session
  <2> QED
    BY <1>5, <2>1 DEF RuntimeExits, Holder
<1>6. ASSUME NEW s \in Services, BeginWork(s) \/ EndWork(s)
      PROVE  ended' = ended /\ Holder' = Holder
  BY <1>6 DEF BeginWork, EndWork, Holder
<1> QED
  BY <1>0, <1>3, <1>4, <1>5, <1>6 DEF OwnStep

-----------------------------------------------------------------------------
\* Only a report of a live session, and a re-check of one, start a check, and
\* the clean-up that ends the session ends its checks with it.
LEMMA ChecksStep ==
  ASSUME NEW b \in [Services -> Nat], BoundaryInv(b), ChecksBelongToLiveSession,
         OwnStep \/ \E f \in fibers : Delivered(f)
  PROVE  ChecksBelongToLiveSession'
<1>1. /\ fibers \subseteq Fiber /\ session \in [Services -> Session]
      /\ \A f \in fibers : f.id \in Services /\ f.generation # 0
  BY DEF BoundaryInv, TypeOK, Fiber
<1>2. CASE UNCHANGED <<session, fibers>>
  BY <1>2 DEF ChecksBelongToLiveSession
<1>3. ASSUME NEW c \in commands, Begin(c)
      PROVE  ChecksBelongToLiveSession'
  BY <1>3 DEF Begin, BeginLaunch, BeginReprobe, BeginStop, NewFiber, ChecksBelongToLiveSession
<1>4. ASSUME NEW f \in fibers, f.kind \in {"stop", "exit"}, CleanUp(f)
      PROVE  ChecksBelongToLiveSession'
  <2>1. PICK at \in {"exited", "stopFailed"} :
          /\ fibers' = (fibers \ ({f} \union Checks(f.id))) \union {At(f, at)}
          /\ \A s \in Services \ {f.id} : session'[s] = session[s]
    BY <1>1, <1>4 DEF CleanUp
  <2>2. At(f, at).at # "check"
    BY <1>1, <1>4, AtFields DEF Reporting
  <2> QED
    BY <1>1, <2>1, <2>2 DEF ChecksBelongToLiveSession, Checks
<1>5. ASSUME NEW f \in fibers, NEW at \in (Working[f.kind] \union Reporting[f.kind]) \ {"check"},
             Moves(f, at) \/ Ends(f), UNCHANGED session
      PROVE  ChecksBelongToLiveSession'
  BY <1>1, <1>5, AtFields DEF Moves, Ends, ChecksBelongToLiveSession
<1>6. ASSUME NEW f \in fibers, Run(f)
      PROVE  ChecksBelongToLiveSession'
  <2>1. CASE Prepare(f)
    BY <1>5, <2>1 DEF Prepare, Working, Reporting
  <2>2. CASE Acquire(f)
    <3>1. {"available", "failed", "retained"} \subseteq Working[f.kind] \union Reporting[f.kind]
      BY <2>2 DEF Acquire, Working, Reporting
    <3>2. CASE UNCHANGED session
      BY <1>5, <2>2, <3>1, <3>2 DEF Acquire
    <3>3. CASE ~Held(f.id) /\ (Moves(f, "available") \/ Moves(f, "retained"))
               /\ \A s \in Services \ {f.id} : session'[s] = session[s]
      BY <1>1, <3>1, <3>3, AtFields DEF Moves, Held, ChecksBelongToLiveSession
    <3> QED
      BY <1>1, <2>2, <3>2, <3>3 DEF Acquire
  <2>3. CASE Check(f)
    <3>1. PICK at \in {"succeeded", "recovered", "unready"} :
            at \in Reporting[f.kind] /\ Moves(f, at) /\ UNCHANGED session
      BY <1>1, <2>3 DEF Check, Fiber, Kinds, Working, Reporting
    <3> QED
      BY <1>5, <3>1
  <2>4. CASE Fence(f)
    BY <1>5, <2>4 DEF Fence, Working, Reporting
  <2>5. CASE InterruptAttempt(f)
    <3>1. "clean" \in Working[f.kind]
      BY <2>5 DEF InterruptAttempt, Working
    <3> QED
      BY <1>1, <2>5, <3>1, AtFields DEF InterruptAttempt, ChecksBelongToLiveSession
  <2>6. CASE StopSession(f)
    BY <1>4, <1>5, <2>6 DEF StopSession, Working, Reporting
  <2>7. CASE CleanExited(f)
    BY <1>4, <1>5, <2>7 DEF CleanExited, Working, Reporting
  <2> QED
    BY <1>6, <2>1, <2>2, <2>3, <2>4, <2>5, <2>6, <2>7 DEF Run
<1>7. ASSUME NEW f \in fibers, Delivered(f)
      PROVE  ChecksBelongToLiveSession'
  <2>1. CASE /\ f.at = "available" /\ session[f.id].generation = f.generation
             /\ session[f.id].healthy /\ Moves(f, "check")
    <3>1. "check" \in Working[f.kind]
      BY <1>1, <2>1 DEF Fiber, Kinds, Working, Reporting
    <3> QED
      BY <1>1, <1>7, <2>1, <3>1, AtFields DEF Delivered, Moves, ChecksBelongToLiveSession
  <2>2. CASE f.at = "lost" /\ Moves(f, "clean")
    <3>1. "clean" \in Working[f.kind]
      BY <1>1, <2>2 DEF Fiber, Kinds, Working, Reporting
    <3> QED
      BY <1>5, <1>7, <2>2, <3>1 DEF Delivered
  <2>3. CASE Ends(f)
    BY <1>7, <2>3 DEF Delivered, Ends, ChecksBelongToLiveSession
  <2> QED
    BY <1>7, <2>1, <2>2, <2>3 DEF Delivered
<1>8. ASSUME NEW s \in Services, RuntimeExits(s)
      PROVE  ChecksBelongToLiveSession'
  BY <1>1, <1>8 DEF RuntimeExits, NewFiber, ChecksBelongToLiveSession, Session
<1>9. ASSUME NEW s \in Services, BeginWork(s) \/ EndWork(s)
      PROVE  ChecksBelongToLiveSession'
  BY <1>2, <1>9 DEF BeginWork, EndWork
<1> QED
  BY <1>3, <1>6, <1>7, <1>8, <1>9 DEF OwnStep
=============================================================================
