------------------------------ MODULE Shutdown ------------------------------
(***************************************************************************)
(* How a stack's owner ends: packages/stack/src/StackHost.ts (makeRuntime  *)
(* and the events of runStackHost), the commands it runs for attached      *)
(* clients (host/CommandAttachments.ts, host/CommandRunner.ts), and        *)
(* Owner.ts's stop, destroy and release of the namespace, over the         *)
(* services, requests and traffic of Orchestrator.                         *)
(*                                                                         *)
(* The namespace's stops and destroys are calls of the client Host, whose  *)
(* Operations are empty: the shutdown makes them.  Draining has begun when *)
(* host.at is not "serving".                                               *)
(*                                                                         *)
(* Left out: what the process's scope closes behind an exit (sockets,      *)
(* logs), a command's output and input, container commands, which the      *)
(* sweep removes, and the registry's files (Ownership).                    *)
(***************************************************************************)
EXTENDS Orchestrator

CONSTANTS
  Host,              \* the client that is the owner itself
  Requesters,        \* callers of POST /shutdown, each once
  Attachments,       \* attachment ids, free again once their command has ended
  HostEvents         \* which of the events below may come

Modes == {"stop", "destroy", "release"}

\* What each event of runStackHost asks for: a signal, the end of the creator's
\* pipe, and the poll that finds the registration or the lease gone.
ModeOf == [signal |-> "stop", creatorGone |-> "destroy", ownershipEnded |-> "release"]

ASSUME ShutdownAssumption ==
  /\ Host \in Clients /\ Operations[Host] = {}
  /\ HostEvents \subseteq DOMAIN ModeOf
  /\ ~Cancels

VARIABLES
  host,              \* the shutdown: its mode, stage and outcome
  request,           \* [Requesters -> [mode, at]]
  job,               \* [Attachments -> stage]
  main,              \* what runStackHost awaits: "exit", "join", and then "returned"
  registered         \* whether the stack has a registration

shutdownVars == <<host, request, job, main, registered>>
hostVars == <<vars, shutdownVars>>

HostStages ==
  {"serving", "stopAll", "interrupt", "permit", "namespace", "remove", "finish", "ended"}
JobStages == {"none", "admitting", "running", "left"}

\* response: the requester whose response the exit waits for; jobs: those of the
\* snapshot still to be interrupted; left: the services whose turn is to come;
\* failed: a step of the body failed; exit: the deferred.
ShutdownTypeOK ==
  /\ OrchestratorTypeOK
  /\ host.at \in HostStages
  /\ host.mode \in Modes \union {"none"} /\ (host.mode = "none") = (host.at = "serving")
  /\ host.response \in Requesters \union {"none"}
  /\ host.jobs \subseteq {a \in Attachments : job[a] # "admitting"}
  /\ host.left \subseteq Services
  /\ host.failed \in BOOLEAN /\ host.exit \in BOOLEAN
  /\ request \in [Requesters -> [mode : {"none", "stop", "destroy"},
                    at : {"new", "joined", "ok", "failed", "closed"}]]
  /\ job \in [Attachments -> JobStages]
  /\ main \in {"exit", "join", "returned"}
  /\ registered \in BOOLEAN

ShutdownInit ==
  /\ OrchestratorInit
  /\ host = [at |-> "serving", mode |-> "none", response |-> "none", jobs |-> {}, left |-> {},
             failed |-> FALSE, exit |-> FALSE]
  /\ request = [r \in Requesters |-> [mode |-> "none", at |-> "new"]]
  /\ job = [a \in Attachments |-> "none"]
  /\ main = "exit"
  /\ registered = TRUE

Draining == host.at # "serving"
Gone == main = "returned"
BodyDone == host.at = "ended" \/ (host.at = "finish" /\ host.response # "none")

-----------------------------------------------------------------------------
(* Services and their callers while the owner lives.                       *)

\* Mutant: admission is decided before the lifecycle gate, when the call is made.
AdmitsAtCall(c) == ~(client[c].at = "new" /\ Draining)

\* admitUnderGate: draining refuses a start, restart or storage operation, and
\* traffic that finds its service neither starting nor running.
Admits(c) ==
  LET call == client[c].call
  IN ~( /\ client[c].at = "gate" /\ Draining
        /\ \/ call.op \in {"start", "compose", "restart", "arm", "storage"}
           \/ Traffic(call) /\ ~Up(call.id) )

\* definitionChange: no destroy of an instance begins while draining.
MayCall(c) == client[c].at = "new" => ~Draining \/ client'[c].call.op # "destroy"

Refuse(c) ==
  /\ ~Admits(c)
  /\ client[c].at = "gate"
  /\ Moved(Goes(c, "done"))

OwnerStep(c) == Refuse(c) \/ (Admits(c) /\ CallerStep(c))

CallersStep(c) ==
  \/ OwnerStep(c)
  \/ Admits(c) /\ Call(c) /\ MayCall(c)
  \/ Expires(c)
  \/ Close(c)

ServicesStep ==
  \/ \E x \in commands : Begin(x) /\ UNCHANGED lifecycleVars
  \/ \E f \in fibers : Run(f) /\ UNCHANGED lifecycleVars
  \/ \E f \in fibers : Deliver(f)
  \/ \E s \in Services : RuntimeExits(s) /\ UNCHANGED lifecycleVars
  \/ \E s \in Services : IdleTimerFires(s)
  \/ \E x \in timers.cooldown : CooldownTimerFires(x[1], x[2])
  \/ \E c \in Clients : CallersStep(c)

\* A call of the shutdown that ends in this step, and how: a stop was rejected or
\* left a failed cleanup behind, a destroy did not unregister its instance.
CallEnds == client[Host].at \notin {"new", "done"} /\ client'[Host].at = "done"
CallFails ==
  LET call == client[Host].call
  IN CallEnds /\
       IF call.op = "stop"
         THEN \/ client[Host].at = "gate" /\ activeDependents(lifecycle, call.id) # {}
              \/ lifecycle'.services[call.id].cleanupFailure
         ELSE call.id \in lifecycle'.members

OwnerServes ==
  /\ ~Gone
  /\ ServicesStep
  /\ host' = [host EXCEPT !.failed = @ \/ CallFails]
  /\ UNCHANGED <<request, job, main, registered>>

-----------------------------------------------------------------------------
(* Attached commands: CommandAttachments.run and CommandRunner.run.        *)

JobIs(a, at) ==
  /\ job' = [job EXCEPT ![a] = at]
  /\ UNCHANGED <<vars, host, request, main, registered>>

\* Mutant: the snapshot of stopAll does not wait for an admission under way.
NoSemaphore == TRUE

\* The admission semaphore, held from the check of draining to the registered entry.
AdmissionFree == \A a \in Attachments : job[a] # "admitting"

Attach(a) == job[a] = "none" /\ AdmissionFree /\ ~Draining /\ JobIs(a, "admitting")
Register(a) == job[a] = "admitting" /\ JobIs(a, "running")

\* A command ends or is interrupted: its process is killed, or its cleanup fails
\* and is left to runner.cleanup.
Cleaned == {"none", "left"}
Finish(a) == job[a] = "running" /\ \E at \in Cleaned : JobIs(a, at)

Attached == {a \in Attachments : job[a] = "running"}

-----------------------------------------------------------------------------
(* The one shutdown: claim, begin and its body.                            *)

\* Mutant: the shutdown is begun and not recorded as the current one.
BegunUnrecorded(mode, response) == [host EXCEPT !.at = "stopAll", !.response = response]

Begun(mode, response) ==
  [host EXCEPT !.mode = mode, !.at = "stopAll", !.response = response]

\* Mutant: whoever comes second joins the shutdown under way, whatever it asks for.
JoinsAny(mode) == Draining

\* Under the gate a request that meets a shutdown joins it, and is rejected, which
\* changes nothing, when it asks to destroy what is being stopped.
Joins(mode) == Draining /\ ~(host.mode = "stop" /\ mode = "destroy")

RequestShutdown(r, mode) ==
  /\ request[r].at = "new"
  /\ ~Draining \/ Joins(mode)
  /\ request' = [request EXCEPT ![r] = [mode |-> mode, at |-> "joined"]]
  /\ host' = IF Draining THEN host ELSE Begun(mode, r)
  /\ UNCHANGED <<vars, job, main, registered>>

\* runStackHost takes the first event; a claim that is rejected returns at once.  The
\* poll finds the registration gone or only the lease lost (ownershipEnded).
TakeEvent(e) ==
  /\ main = "exit" /\ ~host.exit
  /\ main' = IF Draining /\ ~Joins(ModeOf[e]) THEN "returned" ELSE "join"
  /\ host' = IF Draining THEN host ELSE Begun(ModeOf[e], "none")
  /\ registered' \in IF e = "ownershipEnded" THEN {registered, FALSE} ELSE {registered}
  /\ UNCHANGED <<vars, request, job>>

HostGoes(at) == host' = [host EXCEPT !.at = at]

\* stopAll: the entries, under the admission semaphore, and each interrupted in turn.
StopAll ==
  /\ host.at = "stopAll" /\ AdmissionFree
  /\ host' = [host EXCEPT !.at = "interrupt", !.jobs = Attached]
  /\ UNCHANGED <<vars, request, job, main, registered>>

Interrupt(a) ==
  /\ host.at = "interrupt" /\ a \in host.jobs
  /\ host' = [host EXCEPT !.jobs = @ \ {a}]
  /\ job' \in {[job EXCEPT ![a] = IF a \in Attached THEN at ELSE @] : at \in Cleaned}
  /\ UNCHANGED <<vars, request, main, registered>>

\* runner.cleanup kills what is left; what it cannot kill fails the shutdown.
Cleanup ==
  /\ host.at = "interrupt" /\ host.jobs = {}
  /\ \E killed \in SUBSET {a \in Attachments : job[a] = "left"} :
       /\ job' = [a \in Attachments |-> IF a \in killed THEN "none" ELSE job[a]]
       /\ host' = IF \E a \in Attachments : job'[a] = "left"
                    THEN [host EXCEPT !.at = "finish", !.failed = TRUE] ELSE [host EXCEPT !.at = "permit"]
  /\ UNCHANGED <<vars, request, main, registered>>

\* The permit of the definition gate, then every instance.
TakePermit ==
  /\ host.at = "permit"
  /\ \A c \in Clients : ~Destroying(c)
  /\ host' = [host EXCEPT !.at = "namespace", !.left = lifecycle.members]
  /\ UNCHANGED <<vars, request, job, main, registered>>

Called(op, s) == [NewCaller EXCEPT !.call = [op |-> op, id |-> s], !.at = "gate"]
HostIdle == client[Host].at \in {"new", "done"}

IsLast(s, Ss) ==
  \E i \in DOMAIN Order : Order[i] = s /\ \A j \in DOMAIN Order : Order[j] \in Ss => j <= i

\* In reverse order, every outcome awaited; one that fails does not keep the others
\* from their turn.
NextInstance ==
  /\ host.at = "namespace" /\ HostIdle
  /\ \E s \in host.left :
       LET op == IF host.mode = "destroy" THEN "destroy" ELSE "stop"
           blocked == op = "destroy" /\ DependentsConfigured(s) # {}
       IN /\ IsLast(s, host.left)
          /\ Moved(IF blocked THEN client ELSE [client EXCEPT ![Host] = Called(op, s)])
          /\ host' = [host EXCEPT !.left = @ \ {s}, !.failed = @ \/ blocked]
  /\ UNCHANGED <<request, job, main, registered>>

\* A release ends here, as does a shutdown one of whose instances failed.  The
\* others sweep, which may fail, and a destroy goes on to its data, its logs
\* and the registration.
NamespaceDone ==
  /\ host.at = "namespace" /\ HostIdle /\ host.left = {}
  /\ \/ HostGoes(IF host.mode = "destroy" /\ ~host.failed THEN "remove" ELSE "finish")
     \/ host.mode # "release" /\ host' = [host EXCEPT !.at = "finish", !.failed = TRUE]
  /\ UNCHANGED <<vars, request, job, main, registered>>

RemoveStack ==
  /\ host.at = "remove"
  /\ \/ registered' = FALSE /\ HostGoes("finish")
     \/ host' = [host EXCEPT !.at = "finish", !.failed = TRUE] /\ UNCHANGED registered
  /\ UNCHANGED <<vars, request, job, main>>

Closed == [mode |-> "none", at |-> "closed"]

\* Requesters still waiting when the connections are closed.
Cut == [r \in Requesters |-> IF request[r].at = "joined" THEN Closed ELSE request[r]]

\* Mutant: only a successful body is followed by finish.
CloseOnSuccess ==
  /\ host.at = "finish" /\ ~host.failed
  /\ host.response # "none" => request[host.response].at # "joined"
  /\ host' = [host EXCEPT !.at = "ended", !.exit = TRUE]
  /\ request' = Cut
  /\ UNCHANGED <<vars, job, main, registered>>

\* finish: with a response to watch, once that is closed, and at once otherwise.
CloseConnections ==
  /\ host.at = "finish"
  /\ host.response # "none" => request[host.response].at # "joined"
  /\ host' = [host EXCEPT !.at = "ended", !.exit = TRUE]
  /\ request' = Cut
  /\ UNCHANGED <<vars, job, main, registered>>

\* A requester gets the outcome of the body it joined, or goes away first.
Answer(r) ==
  /\ request[r].at = "joined" /\ BodyDone
  /\ request' = [request EXCEPT ![r].at = IF host.failed THEN "failed" ELSE "ok"]
  /\ UNCHANGED <<vars, host, job, main, registered>>

Disconnect(r) ==
  /\ request[r].at = "joined"
  /\ request' = [request EXCEPT ![r] = Closed]
  /\ UNCHANGED <<vars, host, job, main, registered>>

\* The process ends with its first event handled or the exit completed.
Return ==
  /\ (main = "exit" /\ host.exit) \/ (main = "join" /\ BodyDone)
  /\ main' = "returned"
  /\ request' = Cut
  /\ UNCHANGED <<vars, host, job, registered>>

-----------------------------------------------------------------------------
HostStep ==
  \/ StopAll \/ (\E a \in Attachments : Interrupt(a)) \/ Cleanup
  \/ TakePermit \/ NextInstance \/ NamespaceDone \/ RemoveStack
  \/ CloseConnections \/ Return

RequestersStep == \E r \in Requesters : Answer(r)

Environment ==
  \/ \E r \in Requesters, mode \in {"stop", "destroy"} : RequestShutdown(r, mode)
  \/ \E r \in Requesters : Disconnect(r)
  \/ \E e \in HostEvents : TakeEvent(e)

JobsStep(a) == Attach(a) \/ Register(a) \/ Finish(a)

ShutdownNext ==
  \/ OwnerServes
  \/ ~Gone /\ (HostStep \/ RequestersStep \/ Environment \/ \E a \in Attachments : JobsStep(a))

ShutdownSpec == ShutdownInit /\ [][ShutdownNext]_hostVars

\* The body, the responses, the registration of an attachment, and what the
\* services owe go on while the owner lives.
FairShutdownSpec ==
  /\ ShutdownSpec
  /\ WF_hostVars(~Gone /\ HostStep) /\ WF_hostVars(~Gone /\ RequestersStep)
  /\ \A a \in Attachments : WF_hostVars(~Gone /\ Register(a))
  /\ WF_hostVars(~Gone /\ (\E x \in commands : Begin(x)) /\ OwnerServes)
  /\ \A s \in Services : []<>(Gone \/ ~ExecutionDue(s)) \/ []<><<ExecutionStep(s)>>_vars
  /\ \A c \in Clients : []<>(Gone \/ ~CallerDue(c)) \/ []<><<OwnerStep(c)>>_vars

-----------------------------------------------------------------------------
\* What runs: commands of attached clients and the resources of services.
NothingRuns ==
  /\ \A a \in Attachments : job[a] = "none"
  /\ \A s \in Services : ~Held(s) /\ ~Up(s)

\* A shutdown whose body succeeded has left nothing running and lets nothing start
\* any more, whatever was admitted before it, waits for it or comes after
\* (CommandAttachments.ts:58-77, Orchestrator.ts:704-713, Owner.ts:255-262).
SuccessLeavesNothing == (BodyDone /\ ~host.failed /\ ~Gone) => NothingRuns

Destroyed(r) == request[r].at = "ok" /\ request[r].mode = "destroy"

\* Who is told that the stack is destroyed finds no registration and no instance of it,
\* whatever shutdown it joined and whatever of it failed, except where ownership had
\* ended: a release removes neither, and a destroy that joins it is told of its success
\* (StackHost.ts:301-323, Owner.ts:1024-1042).
AnswersAreTrue ==
  \A r \in Requesters : Destroyed(r) => host.mode = "release" \/ (~registered /\ lifecycle.members = {})

\* A destroy succeeds once the stack is removed (README.md:93), without the exception:
\* what its users rely on.
DestroySucceedsOnceRemoved == \A r \in Requesters : Destroyed(r) => ~registered

\* The fields of the shutdown, with what they may be as far as the answers tell.
HostFields ==
  /\ host = [at |-> host.at, mode |-> host.mode, response |-> host.response, jobs |-> host.jobs,
             left |-> host.left, failed |-> host.failed, exit |-> host.exit]
  /\ host.mode \in Modes \union {"none"} /\ (host.mode = "none") = ~Draining
  /\ host.failed \in BOOLEAN
  /\ request \in [Requesters -> [mode : {"none", "stop", "destroy"},
                    at : {"new", "joined", "ok", "failed", "closed"}]]

\* What an answer says of the registration: whoever asks to destroy joined a shutdown that
\* destroys or a release, and one that destroys succeeds only once it has removed the
\* registration.
AnswersInv ==
  /\ HostFields
  /\ \A r \in Requesters : request[r].mode = "destroy" => host.mode \in {"destroy", "release"}
  /\ host.mode = "destroy" /\ host.at \in {"finish", "ended"} /\ ~host.failed => ~registered
  /\ \A r \in Requesters : Destroyed(r) => host.mode = "release" \/ ~registered

\* What a stop leaves of its service, while g is the generation that winds down.
Halting(service, g) ==
  /\ service.intent = "stopped"
  /\ \/ service.phase.tag = "Stopped"
     \/ service.phase.tag = "Stopping" /\ service.phase.generation = g

Halted(s) == Halting(lifecycle.services[s], 0)

\* The shutdown has had its turn with s.
Handled(s) == s \notin host.left /\ (HostIdle \/ client[Host].call.id # s)

AfterPermit == {"namespace", "remove", "finish", "ended"}
AfterNamespace == {"remove", "finish", "ended"}

\* A service that is not registered is halted, and so is every one that the shutdown has
\* had its turn with, unless that failed: nobody else destroys any more, and a stop
\* waits for the generation it has halted.
ServicesHalt ==
  /\ \A s \in Services \ lifecycle.members : Halted(s)
  /\ HostIdle \/ (host.at = "namespace" /\ client[Host].call.op \in {"stop", "destroy"})
  /\ host.at = "namespace" => \A c \in Clients \ {Host} : ~Destroying(c)
  /\ client[Host].call.op = "stop" =>
       /\ client[Host].at \in {"gate", "stopping"}
       /\ client[Host].at = "stopping" =>
            Halting(lifecycle.services[client[Host].call.id], client[Host].generation)
  /\ host.at \in AfterPermit /\ ~host.failed => \A s \in Services : Handled(s) => Halted(s)
  /\ host.at \in AfterNamespace /\ ~host.failed => host.left = {}

\* No command is admitted any more, the snapshot has those that run, and none is left.
JobsEnd ==
  /\ host.at # "interrupt" => host.jobs = {}
  /\ host.at \notin {"serving", "stopAll"} => AdmissionFree
  /\ host.at = "interrupt" => Attached \subseteq host.jobs
  /\ host.at \in {"permit"} \union AfterPermit /\ ~host.failed =>
       \A a \in Attachments : job[a] = "none"

\* The instances that a destroy still has to remove, the one it is at included.
Remaining == host.left \union IF HostIdle THEN {} ELSE {client[Host].call.id}

\* A destroy calls destroys, each of which removes its instance or fails the shutdown, and
\* whoever was told of its success was told after the last.
InstancesGo ==
  /\ host.mode = "destroy" /\ ~HostIdle => client[Host].call.op = "destroy"
  /\ host.mode = "destroy" /\ host.at \in AfterPermit /\ ~host.failed =>
       lifecycle.members \subseteq Remaining
  /\ \A r \in Requesters : Destroyed(r) /\ host.mode = "destroy" => lifecycle.members = {}

ShutdownInv ==
  /\ OwnerInv
  /\ ShutdownTypeOK
  /\ ServicesHalt
  /\ JobsEnd
  /\ InstancesGo

\* A shutdown ends the process, whatever of it fails and whoever goes away
\* (StackHost.ts:273-299, 642-661).
ShutdownEnds == Draining ~> Gone
=============================================================================
