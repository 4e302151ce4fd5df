----------------------------- MODULE Ownership ------------------------------
(***************************************************************************)
(* Who may run, reclaim and destroy one stack: packages/stack/src/         *)
(* StackHost.ts (runStackHost) and Sweep.ts over the lease, the registry's *)
(* document, the holder record and the stack's labelled containers.        *)
(*                                                                         *)
(* A process has one job at a time: an owner that creates the stack, an    *)
(* owner that opens it, or a sweep that reclaims it.  What a job does once *)
(* it holds the lease is a step per await that changes something others    *)
(* see; any of them may fail, and a process may crash anywhere.  The state *)
(* directory may be deleted under them, once, when Wipes.                  *)
(*                                                                         *)
(* Left out: ports, the data root, re-planned endpoints, and what a        *)
(* shutdown does inside its process, which module Shutdown is about.  The  *)
(* two steps of a retraction and of a removal count as one.                *)
(***************************************************************************)
EXTENDS Lease

CONSTANTS
  Wipes,             \* whether the state directory may be deleted
  Jobs,              \* what processes may do; "ask" is a client's probe of the lease
  Lifetimes          \* the lifetimes of the stacks owners create

ASSUME OwnershipAssumption ==
  /\ Wipes \in BOOLEAN
  /\ Jobs \subseteq {"create", "open", "reclaim", "reclaimDeleted", "ask"}
  /\ Lifetimes \subseteq {"session", "detached"}

VARIABLES
  lifetime,          \* of the stack that is registered, or was last
  record,            \* the published holder record
  containers,        \* the owners whose labelled containers are there
  job,               \* [Processes -> Job]
  wiped              \* history: the state directory was deleted

ownVars == <<lifetime, record, containers, job, wiped>>
vars == <<leaseVars, ownVars>>

-----------------------------------------------------------------------------
Owning == {"create", "open"}
Sweeping == {"reclaim", "reclaimDeleted"}

\* mode: the namespace operation a shutdown or a sweep runs.
Job ==
  [kind : Owning \union Sweeping \union {"none"},
   at : {"acquire", "register", "read", "clean", "publish", "up", "stop", "sweep",
         "unregister", "failed", "leave", "gone"},
   mode : {"none", "stop", "destroy", "release"}]

NoJob == [kind |-> "none", at |-> "gone", mode |-> "none"]

NoRecord == [by |-> "nobody", role |-> "none"]

OwnershipTypeOK ==
  /\ LeaseTypeOK
  /\ lifetime \in {"session", "detached"}
  /\ record \in {NoRecord} \union [by : Processes, role : {"owner", "sweeper"}]
  /\ containers \subseteq Processes
  /\ job \in [Processes -> Job]
  /\ wiped \in BOOLEAN

Init ==
  /\ LeaseInit
  /\ ~registered
  /\ lifetime = "detached"
  /\ record = NoRecord
  /\ containers = {}
  /\ job = [p \in Processes |-> NoJob]
  /\ wiped = FALSE

Moves(p, at) == job' = [job EXCEPT ![p].at = at]

At(p, kinds, at) == Holds(p) /\ job[p].kind \in kinds /\ job[p].at = at

-----------------------------------------------------------------------------
\* A launcher or a sweeper asks for the lease.
Begin(p) ==
  /\ job[p].kind = "none"
  /\ Request(p)
  /\ \E kind \in Jobs \ {"ask"} : job' = [job EXCEPT ![p] = [NoJob EXCEPT !.kind = kind, !.at = "acquire"]]
  /\ UNCHANGED <<lifetime, record, containers, wiped>>

\* The lease was refused, or has been released.
Ends(p) ==
  /\ job[p].kind # "none" /\ lease[p].at = "idle"
  /\ job' = [job EXCEPT ![p] = NoJob]
  /\ UNCHANGED <<leaseVars, lifetime, record, containers, wiped>>

\* Fault: only the record's role is cleared.
RoleRetracted(p) == IF PathHeld(p) THEN [record EXCEPT !.role = "none"] ELSE record

\* retractHolder removes any record, while the path is this lease's; its look at the
\* path and the removal are taken together.
Retracted(p) == IF PathHeld(p) THEN NoRecord ELSE record

\* Fault: a new owner leaves the record until it publishes its own.
RetractLater(p) ==
  /\ At(p, Owning, "acquire")
  /\ Moves(p, IF job[p].kind = "create" THEN "register" ELSE "read")
  /\ UNCHANGED <<leaseVars, lifetime, record, containers, wiped>>

\* A new owner clears the record of a dead one before it does anything else.
Retract(p) ==
  /\ At(p, Owning, "acquire")
  /\ record' = Retracted(p)
  /\ Moves(p, IF job[p].kind = "create" THEN "register" ELSE "read")
  /\ UNCHANGED <<leaseVars, lifetime, containers, wiped>>

\* Under the registry lock: a stack that exists is left alone.
Register(p) ==
  /\ At(p, {"create"}, "register")
  /\ IF registered
       THEN Moves(p, "leave") /\ UNCHANGED <<leaseVars, lifetime>>
       ELSE /\ Registers(TRUE)
            /\ lifetime' \in Lifetimes
            /\ Moves(p, "read")
  /\ UNCHANGED <<record, containers, wiped>>

Read(p) ==
  /\ At(p, Owning, "read")
  /\ Moves(p, IF registered THEN "clean" ELSE "failed")
  /\ UNCHANGED <<leaseVars, lifetime, record, containers, wiped>>

\* Fault: an owner sweeps only what it launched.
CleanOwn(p) ==
  /\ At(p, Owning, "clean")
  /\ containers' = containers \ {p}
  /\ Moves(p, "publish")
  /\ UNCHANGED <<leaseVars, lifetime, record, wiped>>

\* sweepContainers: whatever carries the stack's label goes.
Clean(p) ==
  /\ At(p, Owning, "clean")
  /\ containers' = {}
  /\ Moves(p, "publish")
  /\ UNCHANGED <<leaseVars, lifetime, record, wiped>>

\* An event that comes before the start returns still fails it.
PublishHolder(p) ==
  /\ At(p, Owning, "publish")
  /\ record' = [by |-> p, role |-> "owner"]
  /\ \E at \in {"up", "failed"} : Moves(p, at)
  /\ UNCHANGED <<leaseVars, lifetime, containers, wiped>>

\* A signal, an unreachable engine, any failing step of a start.
StartFails(p) ==
  /\ Holds(p) /\ job[p].kind \in Owning
  /\ job[p].at \in {"read", "clean", "publish"}
  /\ Moves(p, "failed")
  /\ UNCHANGED <<leaseVars, lifetime, record, containers, wiped>>

\* Registry.remove: the document, then the record; a failure may part them.
Removes ==
  /\ Registers(FALSE)
  /\ record' \in {record, NoRecord}

\* onError: a stack this owner registered does not outlive its failed start, unless
\* its removal fails too.
Withdraw(p) ==
  /\ At(p, Owning, "failed")
  /\ \/ job[p].kind = "create" /\ Removes
     \/ UNCHANGED <<leaseVars, record>>
  /\ Moves(p, "leave")
  /\ UNCHANGED <<lifetime, containers, wiped>>

-----------------------------------------------------------------------------
\* The owner launches its services' containers.
Launch(p) ==
  /\ At(p, Owning, "up")
  /\ p \notin containers
  /\ containers' = containers \union {p}
  /\ UNCHANGED <<leaseVars, lifetime, record, job, wiped>>

\* A client's or a signal's shutdown, or the creator of a session stack is gone.
Shutdown(p) ==
  /\ At(p, Owning, "up")
  /\ \E mode \in {"stop", "destroy"} : job' = [job EXCEPT ![p].at = "stop", ![p].mode = mode]
  /\ UNCHANGED <<leaseVars, lifetime, record, containers, wiped>>

\* pollOwnership finds the document gone or the path no longer its own.
OwnershipEnded(p) == ~registered \/ ~PathHeld(p)

Poll(p) ==
  /\ At(p, Owning, "up") /\ OwnershipEnded(p)
  /\ job' = [job EXCEPT ![p].at = "stop", ![p].mode = "release"]
  /\ UNCHANGED <<leaseVars, lifetime, record, containers, wiped>>

\* stopNamespace or destroyNamespace: what this process launched.
StopNamespace(p) ==
  /\ Holds(p) /\ job[p].at = "stop"
  /\ containers' = containers \ {p}
  /\ Moves(p, IF job[p].mode = "release" THEN "leave" ELSE "sweep")
  /\ UNCHANGED <<leaseVars, lifetime, record, wiped>>

\* Fault: a destroy removes the document before it sweeps.
SweepLast(p) ==
  /\ Holds(p) /\ job[p].at = "sweep"
  /\ IF job[p].mode = "destroy"
       THEN Registers(FALSE) /\ job' = [job EXCEPT ![p].mode = "stop"] /\ UNCHANGED containers
       ELSE containers' = {} /\ Moves(p, "leave") /\ UNCHANGED leaseVars
  /\ UNCHANGED <<lifetime, record, wiped>>

\* Then whatever carries the label.
Sweep(p) ==
  /\ Holds(p) /\ job[p].at = "sweep"
  /\ containers' = {}
  /\ Moves(p, IF job[p].mode = "destroy" THEN "unregister" ELSE "leave")
  /\ UNCHANGED <<leaseVars, lifetime, record, wiped>>

Unregister(p) ==
  /\ Holds(p) /\ job[p].at = "unregister"
  /\ Removes
  /\ Moves(p, "leave")
  /\ UNCHANGED <<lifetime, containers, wiped>>

\* A step of a shutdown or a sweep fails, or the sweep's minute is over.
Fails(p) ==
  /\ Holds(p) /\ job[p].at \in {"stop", "sweep", "unregister"}
  /\ Moves(p, "leave")
  /\ UNCHANGED <<leaseVars, lifetime, record, containers, wiped>>

-----------------------------------------------------------------------------
\* holdLease: the sweeper's marker over whatever record is there.
MarkSweep(p) ==
  /\ At(p, Sweeping, "acquire")
  /\ record' = [by |-> p, role |-> "sweeper"]
  /\ Moves(p, "read")
  /\ UNCHANGED <<leaseVars, lifetime, containers, wiped>>

Disposable == registered /\ lifetime = "session"

\* reclaimStack destroys a session stack and sweeps any other; reclaimDeletedStack
\* sweeps what is not registered.
Reclaim(p) ==
  /\ At(p, Sweeping, "read")
  /\ job' = [job EXCEPT
               ![p].at = IF registered # (job[p].kind = "reclaim") THEN "leave"
                         ELSE IF Disposable THEN "stop" ELSE "sweep",
               ![p].mode = IF Disposable THEN "destroy" ELSE "none"]
  /\ UNCHANGED <<leaseVars, lifetime, record, containers, wiped>>

-----------------------------------------------------------------------------
\* Fault: the record is removed whoever's it is.
LeaveAnyway(p) ==
  /\ Holds(p) /\ job[p].at = "leave"
  /\ record' = NoRecord
  /\ Moves(p, "gone")
  /\ UNCHANGED <<leaseVars, lifetime, containers, wiped>>

\* The job's finalizers: the record, then the lease.
Leave(p) ==
  /\ Holds(p) /\ job[p].at = "leave"
  /\ record' = Retracted(p)
  /\ Moves(p, "gone")
  /\ UNCHANGED <<leaseVars, lifetime, containers, wiped>>

LeaseEnds(p) == job[p].at = "gone" /\ LeaseCloses(p) /\ UNCHANGED ownVars

\* Containers outlive the process that launched them.
Dies(p) ==
  /\ Crash(p)
  /\ job' = [job EXCEPT ![p] = NoJob]
  /\ UNCHANGED <<lifetime, record, containers, wiped>>

\* A client registers a detached stack without an owner, under the registry lock.
ClientRegisters ==
  /\ ~registered
  /\ Registers(TRUE)
  /\ lifetime' = "detached"
  /\ UNCHANGED <<record, containers, job, wiped>>

\* Somebody deletes the stack's state directory.
Wipe ==
  /\ Wipes /\ ~wiped
  /\ wiped' = TRUE
  /\ path' = NoFile
  /\ registered' = FALSE
  /\ record' = NoRecord
  /\ UNCHANGED <<platform, spent, lease, lifetime, containers, job>>

-----------------------------------------------------------------------------
JobRuns(p) ==
  \/ Ends(p) \/ Retract(p) \/ Register(p) \/ Read(p) \/ Clean(p) \/ PublishHolder(p)
  \/ Withdraw(p) \/ Poll(p) \/ StopNamespace(p) \/ Sweep(p) \/ Unregister(p)
  \/ MarkSweep(p) \/ Reclaim(p) \/ Leave(p) \/ LeaseEnds(p)

LeaseStep(p) == LeaseRuns(p) /\ UNCHANGED ownVars

\* A client asks whether the stack is owned.
Asks(p) == "ask" \in Jobs /\ job[p].kind = "none" /\ Probe(p) /\ UNCHANGED ownVars

Next ==
  \/ \E p \in Processes :
       \/ Begin(p) \/ Asks(p) \/ JobRuns(p) \/ LeaseStep(p)
       \/ StartFails(p) \/ Launch(p) \/ Shutdown(p) \/ Fails(p) \/ Dies(p)
  \/ ClientRegisters
  \/ Wipe

Spec == Init /\ [][Next]_vars

-----------------------------------------------------------------------------
\* Past its first step a holder's stack has its own record or none: what a client
\* reads while the lease is held names a live process (Lease.ts:55-56, :219-221).
RecordIsTheHolders ==
  ~wiped => \A p \in Processes :
    Holds(p) /\ job[p].at # "acquire" => record = NoRecord \/ record.by = p

\* An owner that is up shares the stack with nothing a dead owner launched
\* (StackHost.ts:531), whatever crashed, failed or was reclaimed before.
OwnContainersOnly ==
  ~wiped => \A p \in Processes : At(p, Owning, "up") => containers \subseteq {p}

\* A stack that is not registered runs nothing: no failed start, interrupted destroy
\* or sweep leaves containers that no listing shows (Owner.ts:1022-1028).
UnregisteredRunsNothing == ~wiped /\ ~registered => containers = {}

\* A process has a job while it asks for the lease, and one that gives up a lost stack
\* neither sweeps nor unregisters it.
JobInv ==
  \A p \in Processes :
    /\ lease[p].at \in {"look", "open", "lock", "check"} => job[p].at = "acquire"
    /\ job[p].mode = "release" => job[p].at \in {"stop", "leave", "gone"}

\* What a holder may count on at each point of its job, until the directory is deleted.
HolderInv(p) ==
  /\ job[p].at # "acquire" => record = NoRecord \/ record.by = p
  /\ job[p].kind \in Owning =>
       /\ job[p].at \in {"clean", "publish", "up"} => registered
       /\ job[p].at \in {"publish", "up"} => containers \subseteq {p}
  /\ job[p].kind = "create" /\ job[p].at \in {"read", "clean", "publish", "failed"} => containers = {}
  /\ job[p].at = "unregister" => containers = {}

StackInv == UnregisteredRunsNothing /\ \A p \in Processes : ~wiped /\ Holds(p) => HolderInv(p)

\* The inductive invariant: the lease's while there is a directory, and what it buys.
OwnershipInv == OwnershipTypeOK /\ LockInv /\ (~wiped => LeaseInv) /\ JobInv /\ StackInv

\* Giving up a lost stack touches nothing of its successor (StackHost.ts:195-197).
ReleaseSparesSuccessors ==
  [][\A p \in Processes : Holds(p) /\ ~PathHeld(p) /\ job[p].mode = "release" /\ job'[p] # job[p] =>
       /\ registered' = registered
       /\ containers \ containers' \subseteq {p}
       /\ record' # record => record.by = p]_vars
=============================================================================
