------------------------------- MODULE Service -------------------------------
(***************************************************************************)
(* The execution boundary of packages/stack/src/Service.ts, one per        *)
(* registered instance: the fibers that run the launches, stops, checks    *)
(* and exit clean-ups of its generations.                                  *)
(*                                                                         *)
(* A fiber is a record naming what it runs, for which generation, and the  *)
(* step it is at.  Everything done under the execution semaphore           *)
(* (`execution.withPermit`) is one atomic step, because what it changes is *)
(* only read under that semaphore; storage work, which holds it across     *)
(* steps, is the flag `working`.  Two stops of one generation at the same  *)
(* step count as one: the second finds nothing to do that the first has    *)
(* not done, so it can always run behind it.  A fiber at a step in         *)
(* Reporting is about to hand its outcome to the lifecycle gate:           *)
(* `Delivered` is its part of that step, the reducer's is Orchestrator's.  *)
(*                                                                         *)
(* A definition commented as a fault is used nowhere: it is the one after  *)
(* it with a mistake that some property has to catch (PROJECT.json).       *)
(*                                                                         *)
(* Left out: configurations and launch ids, the observation stream (error  *)
(* texts and currentOperation), the StageChanged report, which only names  *)
(* a stage in a message, and the difference between a failed halt and a    *)
(* failed removal, which are one failed cleanup here.                      *)
(***************************************************************************)
EXTENDS Instances, Naturals, FiniteSets

CONSTANT MaxFailures    \* bounds how often the environment makes something fail

ASSUME MaxFailuresAssumption == MaxFailures \in Nat

VARIABLES
  commands,          \* forked executions that have not begun: what `execute` forked
  fibers,            \* the running fibers of every service
  attempt,           \* [Services -> Nat]: the generation of the launch `stop` would interrupt
  stoppedThrough,    \* [Services -> Nat]: the highest generation already fenced
  session,           \* [Services -> Session]: `current`, the resources held
  working,           \* [Services -> BOOLEAN]: storage work or data removal holds `execution`
  ended,             \* history: the <<id, generation>> reported Exited or LaunchFailed
  failures           \* how many environment failures were spent

serviceVars ==
  <<commands, fibers, attempt, stoppedThrough, session, working, ended, failures>>

-----------------------------------------------------------------------------
Generation == Nat \ {0}

\* A session record: its generation (0 when `current` is undefined), whether
\* its health scope still runs checks, and whether its exit watcher is armed.
Session ==
  {r \in [generation : Nat, healthy : BOOLEAN, watched : BOOLEAN] :
     r.generation = 0 => ~r.healthy /\ ~r.watched}

NoSession == [generation |-> 0, healthy |-> FALSE, watched |-> FALSE]

LiveSession(g) == [generation |-> g, healthy |-> TRUE, watched |-> TRUE]

\* A failed launch whose cleanup failed too keeps its resources, unwatched.
RetainedSession(g) == [generation |-> g, healthy |-> FALSE, watched |-> FALSE]

Held(s) == session[s].generation # 0

Command == [op : {"Launch", "Stop", "Reprobe"}, id : Services, generation : Generation]

LaunchCommand(s, g) == [op |-> "Launch", id |-> s, generation |-> g]
StopCommand(s, g) == [op |-> "Stop", id |-> s, generation |-> g]
ReprobeCommand(s, g) == [op |-> "Reprobe", id |-> s, generation |-> g]

\* The steps at which a fiber hands an outcome to the lifecycle gate.
Reporting ==
  [launch  |-> {"available", "succeeded", "unready", "failed", "retained"},
   stop    |-> {"exited", "stopFailed"},
   exit    |-> {"lost", "exited", "stopFailed"},
   reprobe |-> {"recovered", "unready"}]

\* The steps that prepare one.
Working ==
  [launch  |-> {"prepare", "acquire", "check"},
   stop    |-> {"fence", "interrupt", "clean"},
   exit    |-> {"clean"},
   reprobe |-> {"check"}]

Kinds == {"launch", "stop", "exit", "reprobe"}

Steps == UNION {Working[k] \union Reporting[k] : k \in Kinds}

Fiber ==
  {f \in [kind : Kinds, id : Services, generation : Generation, at : Steps] :
     f.at \in Working[f.kind] \union Reporting[f.kind]}

NewFiber(kind, s, g, at) == [kind |-> kind, id |-> s, generation |-> g, at |-> at]

\* The outcome a fiber reports, as the reducer's event names it.
OutcomeOf(f) ==
  CASE f.at = "available"  -> "SessionAvailable"
    [] f.at = "succeeded"  -> "LaunchSucceeded"
    [] f.at = "recovered"  -> "ReadinessRecovered"
    [] f.at = "unready"    -> "ReadinessLost"
    [] f.at = "failed"     -> "LaunchFailed"
    [] f.at = "lost"       -> "SessionLost"
    [] f.at = "exited"     -> "Exited"
    [] f.at \in {"retained", "stopFailed"} -> "StopFailed"

Reports(f) == f.at \in Reporting[f.kind]

MayFail == failures < MaxFailures

TypeOK ==
  /\ commands \subseteq Command
  /\ fibers \subseteq Fiber
  /\ attempt \in [Services -> Nat]
  /\ stoppedThrough \in [Services -> Nat]
  /\ session \in [Services -> Session]
  /\ working \in [Services -> BOOLEAN]
  /\ ended \subseteq Services \X Nat
  /\ failures \in Nat

Init ==
  /\ commands = {}
  /\ fibers = {}
  /\ attempt = [s \in Services |-> 0]
  /\ stoppedThrough = [s \in Services |-> 0]
  /\ session = [s \in Services |-> NoSession]
  /\ working = [s \in Services |-> FALSE]
  /\ ended = {}
  /\ failures = 0

-----------------------------------------------------------------------------
At(f, at) == [f EXCEPT !.at = at]

\* A fiber's own moves.  The end of a launch clears `attempt` if it is its own.
Moves(f, at) ==
  /\ fibers' = (fibers \ {f}) \union {At(f, at)}
  /\ UNCHANGED attempt

Ends(f) ==
  /\ fibers' = fibers \ {f}
  /\ attempt' = IF f.kind = "launch" /\ attempt[f.id] = f.generation
                  THEN [attempt EXCEPT ![f.id] = 0]
                  ELSE attempt

\* Fault: a launch keeps the permit through its preparation and its check.
LongPermit(s) ==
  ~working[s] /\ \A f \in fibers : f.id = s /\ f.kind = "launch" => Reports(f)

\* `execution.withPermit`: free for a step that takes and gives it back at once.
Permit(s) == ~working[s]

\* Fault: the health scope is not closed with the session.
NoChecks(s) == {}

\* The readiness checks that closing a session's health scope interrupts.
Checks(s) ==
  {c \in fibers : c.id = s /\ c.at = "check" /\ c.generation = session[s].generation}

(***************************************************************************)
(* launch                                                                  *)
(***************************************************************************)
\* The orchestrator's launch resolves the bound inputs first; a failure there
\* is reported by the orchestrator's own fiber, which no stop interrupts.
BeginLaunch(c) ==
  /\ c.op = "Launch"
  /\ commands' = commands \ {c}
  /\ \/ /\ fibers' = fibers \union {NewFiber("launch", c.id, c.generation, "prepare")}
        /\ attempt' = [attempt EXCEPT ![c.id] = c.generation]
        /\ UNCHANGED failures
     \/ /\ MayFail
        /\ failures' = failures + 1
        /\ fibers' = fibers \union {NewFiber("launch", c.id, c.generation, "failed")}
        /\ UNCHANGED attempt
  /\ UNCHANGED <<stoppedThrough, session, working, ended>>

\* Fault: an acquisition does not look at the fence.
NeverFenced(f) == FALSE

\* A stop already passed this generation: it must never run.
Fenced(f) == f.generation <= stoppedThrough[f.id]

\* A stopped generation's late failure is dropped.
Prepare(f) ==
  /\ f.kind = "launch" /\ f.at = "prepare"
  /\ \/ /\ Moves(f, "acquire")
        /\ UNCHANGED failures
     \/ /\ MayFail
        /\ failures' = failures + 1
        /\ IF Fenced(f) THEN Ends(f) ELSE Moves(f, "failed")
  /\ UNCHANGED <<commands, stoppedThrough, session, working, ended>>

Acquire(f) ==
  /\ f.kind = "launch" /\ f.at = "acquire"
  /\ Permit(f.id)
  /\ \/ /\ Fenced(f)
        /\ Ends(f)
        /\ UNCHANGED <<session, failures>>
     \/ /\ ~Fenced(f) /\ Held(f.id)
        /\ Moves(f, "failed")
        /\ UNCHANGED <<session, failures>>
     \/ /\ ~Fenced(f) /\ ~Held(f.id)
        /\ \/ /\ session' = [session EXCEPT ![f.id] = LiveSession(f.generation)]
              /\ Moves(f, "available")
              /\ UNCHANGED failures
           \/ /\ MayFail
              /\ failures' = failures + 1
              /\ \/ /\ Moves(f, "failed")
                    /\ UNCHANGED session
                 \/ /\ session' = [session EXCEPT ![f.id] = RetainedSession(f.generation)]
                    /\ Moves(f, "retained")
  /\ UNCHANGED <<commands, stoppedThrough, working, ended>>

\* The first health check, or a re-check of a live session that failed one.  A
\* launch's check may fail only within the bound; a re-check always may, which
\* also stands for a service without a probe.
Check(f) ==
  /\ f.at = "check"
  /\ \/ /\ Moves(f, IF f.kind = "launch" THEN "succeeded" ELSE "recovered")
        /\ UNCHANGED failures
     \/ /\ f.kind = "reprobe"
        /\ Moves(f, "unready")
        /\ UNCHANGED failures
     \/ /\ f.kind = "launch" /\ MayFail
        /\ failures' = failures + 1
        /\ Moves(f, "unready")
  /\ UNCHANGED <<commands, stoppedThrough, session, working, ended>>

BeginReprobe(c) ==
  /\ c.op = "Reprobe"
  /\ commands' = commands \ {c}
  /\ fibers' = IF session[c.id].generation = c.generation /\ session[c.id].healthy
                 THEN fibers \union {NewFiber("reprobe", c.id, c.generation, "check")}
                 ELSE fibers
  /\ UNCHANGED <<attempt, stoppedThrough, session, working, ended, failures>>

(***************************************************************************)
(* stop                                                                    *)
(***************************************************************************)
BeginStop(c) ==
  /\ c.op = "Stop"
  /\ commands' = commands \ {c}
  /\ fibers' = fibers \union {NewFiber("stop", c.id, c.generation, "fence")}
  /\ UNCHANGED <<attempt, stoppedThrough, session, working, ended, failures>>

\* Taken under the execution lock, so an acquisition in progress is waited out.
Fence(f) ==
  /\ f.kind = "stop" /\ f.at = "fence"
  /\ Permit(f.id)
  /\ stoppedThrough' = [stoppedThrough EXCEPT ![f.id] = IF @ < f.generation THEN f.generation ELSE @]
  /\ Moves(f, "interrupt")
  /\ UNCHANGED <<commands, session, working, ended, failures>>

\* The launch in `attempt`, wherever it is, unless it belongs to a newer generation.
Interrupted(f) ==
  {l \in fibers : /\ l.kind = "launch" /\ l.id = f.id
                  /\ l.generation = attempt[f.id] /\ l.generation <= f.generation}

InterruptAttempt(f) ==
  /\ f.kind = "stop" /\ f.at = "interrupt"
  /\ fibers' = (fibers \ ({f} \union Interrupted(f))) \union {At(f, "clean")}
  /\ attempt' = IF attempt[f.id] <= f.generation THEN [attempt EXCEPT ![f.id] = 0] ELSE attempt
  /\ UNCHANGED <<commands, stoppedThrough, session, working, ended, failures>>

\* `stopRecord`: closes the health scope, then halts and removes; on a failure
\* the record keeps the resources for a later try.
CleanUp(f) ==
  \/ /\ session' = [session EXCEPT ![f.id] = NoSession]
     /\ fibers' = (fibers \ ({f} \union Checks(f.id))) \union {At(f, "exited")}
     /\ UNCHANGED failures
  \/ /\ MayFail
     /\ failures' = failures + 1
     /\ session' = [session EXCEPT ![f.id].healthy = FALSE]
     /\ fibers' = (fibers \ ({f} \union Checks(f.id))) \union {At(f, "stopFailed")}

\* A newer session belongs to a later generation's own stop.
StopSession(f) ==
  /\ f.kind = "stop" /\ f.at = "clean"
  /\ Permit(f.id)
  /\ IF Held(f.id) /\ session[f.id].generation <= f.generation
       THEN CleanUp(f) /\ UNCHANGED attempt
       ELSE Moves(f, "exited") /\ UNCHANGED <<session, failures>>
  /\ UNCHANGED <<commands, stoppedThrough, working, ended>>

(***************************************************************************)
(* observeExit                                                             *)
(***************************************************************************)
\* Fault: an exit watcher outlives its session.
AlwaysWatched(s) == TRUE

\* Only a live session has an exit to observe.
Watched(s) == session[s].watched

\* The runtime of a live session ends, on its own or because a stop halts it.
RuntimeExits(s) ==
  /\ Watched(s)
  /\ MayFail
  /\ failures' = failures + 1
  /\ session' = [session EXCEPT ![s].watched = FALSE]
  /\ fibers' = fibers \union {NewFiber("exit", s, session[s].generation, "lost")}
  /\ UNCHANGED <<commands, attempt, stoppedThrough, working, ended>>

\* Whoever cleaned the record first also reports its end.
CleanExited(f) ==
  /\ f.kind = "exit" /\ f.at = "clean"
  /\ Permit(f.id)
  /\ IF session[f.id].generation = f.generation
       THEN CleanUp(f) /\ UNCHANGED attempt
       ELSE Ends(f) /\ UNCHANGED <<session, failures>>
  /\ UNCHANGED <<commands, stoppedThrough, working, ended>>

(***************************************************************************)
(* report                                                                  *)
(***************************************************************************)
\* The fiber's part of a step that hands its outcome to the reducer; the
\* commands the reducer answers with are the composition's.
Delivered(f) ==
  /\ Reports(f)
  /\ CASE f.at = "available" /\ session[f.id].generation = f.generation /\ session[f.id].healthy
            -> Moves(f, "check")
       [] f.at = "lost" -> Moves(f, "clean")
       [] OTHER -> Ends(f)
  /\ ended' = IF OutcomeOf(f) \in {"Exited", "LaunchFailed"}
                THEN ended \union {<<f.id, f.generation>>}
                ELSE ended
  /\ UNCHANGED <<stoppedThrough, session, working, failures>>

(***************************************************************************)
(* storage and removeData hold the execution lock across steps.            *)
(***************************************************************************)
BeginWork(s) ==
  /\ Permit(s)
  /\ working' = [working EXCEPT ![s] = TRUE]
  /\ UNCHANGED <<commands, fibers, attempt, stoppedThrough, session, ended, failures>>

EndWork(s) ==
  /\ working[s]
  /\ working' = [working EXCEPT ![s] = FALSE]
  /\ UNCHANGED <<commands, fibers, attempt, stoppedThrough, session, ended, failures>>

-----------------------------------------------------------------------------
\* What a service does of its own accord.
Begin(c) == BeginLaunch(c) \/ BeginReprobe(c) \/ BeginStop(c)

Run(f) ==
  \/ Prepare(f)
  \/ Acquire(f)
  \/ Check(f)
  \/ Fence(f)
  \/ InterruptAttempt(f)
  \/ StopSession(f)
  \/ CleanExited(f)

-----------------------------------------------------------------------------
(***************************************************************************)
(* What the boundary keeps under any authority that launches a generation  *)
(* once and later ones under higher numbers: `last` is the last generation *)
(* it launched of each service.                                            *)
(***************************************************************************)
\* What the launch of a generation may still do.
MayAcquire(s, g) ==
  \/ LaunchCommand(s, g) \in commands
  \/ \E f \in fibers : /\ f.kind = "launch" /\ f.id = s /\ f.generation = g
                       /\ f.at \in {"prepare", "acquire"}

\* Only launched generations appear anywhere.
KnownGenerations(last) ==
  /\ \A s \in Services : session[s].generation <= last[s]
  /\ \A x \in commands \union fibers : x.generation \in 1..last[x.id]
  /\ \A e \in ended : e[2] \in 1..last[e[1]]

\* A generation is launched by one command and then by one fiber.
OneLaunch ==
  \A f \in fibers : f.kind = "launch" =>
    /\ LaunchCommand(f.id, f.generation) \notin commands
    /\ \A h \in fibers :
         h.kind = "launch" /\ h.id = f.id /\ h.generation = f.generation => h = f

\* What has acquired will not acquire again.
AcquiredOnce ==
  /\ \A s \in Services : Held(s) => ~MayAcquire(s, session[s].generation)
  /\ \A f \in fibers : f.kind = "exit" => ~MayAcquire(f.id, f.generation)

\* A stop that took the execution lock has fenced its generation.
StopsFence ==
  \A f \in fibers : f.kind = "stop" /\ f.at # "fence" => f.generation <= stoppedThrough[f.id]

\* A fiber about to report a generation over has seen its resources gone.
ReportsAreTrue ==
  \A f \in fibers :
    Reports(f) /\ OutcomeOf(f) \in {"Exited", "LaunchFailed"} =>
      session[f.id].generation # f.generation

\* A generation reported over is gone for good: its launch is spent or fenced.
OverIsFinal ==
  \A e \in ended :
    /\ session[e[1]].generation # e[2]
    /\ e[2] <= stoppedThrough[e[1]] \/ ~MayAcquire(e[1], e[2])

BoundaryInv(last) ==
  /\ TypeOK
  /\ KnownGenerations(last)
  /\ OneLaunch
  /\ AcquiredOnce
  /\ StopsFence
  /\ ReportsAreTrue
  /\ OverIsFinal

\* A readiness check runs only in the health scope of the session it checks, so
\* it never judges one that is gone or being cleaned up (Service.ts:215-231).
ChecksBelongToLiveSession ==
  \A f \in fibers :
    f.at = "check" => /\ session[f.id].generation = f.generation
                      /\ session[f.id].healthy
=============================================================================
