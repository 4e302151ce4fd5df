# Verification of the stack's lifecycle

TLA+ models, model-checking configurations and machine-checked proofs for the
local runtime in `packages/stack`: the part of this repository in which
concurrent fibers, timers, callers, processes and failing services share state.
Paths below are relative to `packages/stack/` unless they start with `apps/` or
`packages/`.

## 1. The system

A stack is a set of service instances (a database, REST, Auth, Studio, ...)
joined by prerequisite edges. One detached owner process runs them. Traffic that
reaches a sleeping service through the owner's proxy wakes it and everything it
needs; a service nobody uses goes back to sleep.

| Component | State it keeps | Operations | Hard part | What makes it correct |
| --- | --- | --- | --- | --- |
| Lifecycle reducer, `src/Lifecycle.ts` | Per service: intent, phase and generation, leases, waiters, idle epoch, breaker, reservations, failed cleanup | `reduce` of 24 kinds of event, then one settling pass | Events arrive late, stale, or in orders nobody wrote down | Every phase is driven by something; dependents never outlive the session they use; failures count once; one pass settles |
| Service execution, `src/Service.ts` | Session record, launch attempt, fence, execution lock | launch, stop, reprobe, exit observation, storage, removeData | Launch, stop, exit and check run as independent fibers | A generation reported over holds nothing and never will; a stop is answered although a launch hangs |
| Orchestrator, `src/Orchestrator.ts` | Published lifecycle state, registry, waiters, timers | acquire, start, ready, stop, restart, storage, destroy, the operations on a composition, configure | Everything crosses at one gate; callers expire or go away | Leases conserved; explicit requests end; wakes answered; data work exclusive |
| Owner, `src/Owner.ts` | Instances, definition gate, endpoints | RPC operations, create with rollback, compose, stop and destroy of the namespace | Definition changes against ordinary requests | Definition changes are serial; a rolled-back create leaves nothing |
| StackHost, `src/StackHost.ts` | Draining flag, the shutdown in flight, registration, holder record | claim stop, destroy or release; run from lease to release | A shutdown claimed by several at once; a crash, a successor or a deleted directory between any two steps | One shutdown runs, admits nothing, and ends; its answers are true; only the owner's own record and containers are touched |
| Lease and registry, `src/namespace/` | Lease file and lock, holder record, stack documents | acquire, publish, retract, save | A lease file unlinked between open and lock, by another process | One owner per stack |
| Sweep, `src/Sweep.ts` | The lease while it runs | reclaim a dead owner's or a deleted stack | A client starts a new owner at the same time | Nothing live is destroyed |
| Host commands, `src/host/Command*.ts` | Running invocations and attachments | run, attach, stop all | A disconnecting client against a finishing command or a shutdown | Every invocation is cleaned up once |
| Service logs, `src/host/Log*.ts` | Segments; a cursor with the pending body per instance | append, follow, post, reconcile | A post whose answer is lost; events Analytics rejects or swallows | No record is lost; none is queued twice; nothing is given up unjustly |
| Schema writers, `src/internal/schema-writers.ts` | Version record per database, leases | check, raise, restore | A crash between raising and migrating | No older version migrates a newer database |
| Snapshots and storage, `src/storage/`, `src/services/DatabaseSnapshot.ts` | Data directories, entries | save, restore, reset | A copy that stops half-way | A snapshot carries the record that covers its data |
| Ports, `src/Ports.ts`, `src/namespace/PortReservations.ts` | Machine-wide port rows, listeners | reserve, bind, release, relocate | Two stacks scan at once; a crash between row and listener | No two stacks hold one port; automatic ports stick |
| Recipes, runtimes, artifacts, composition planning, client API | Little or none of their own | Launch a process or a container, download, translate | I/O that fails | Reaches the models as steps that may fail or hang |
| `apps/cli`, `packages/api`, `packages/config` | None shared | Commands, generated SDK, parsing | - | Not concurrent; outside this project |

How they interact: a caller's request or connection becomes events, reduced
under the orchestrator's gate. The reducer answers with commands. The
orchestrator forks executions (`Launch`, `Stop`, `Reprobe`), arms timers and
completes waiters. An execution runs outside the gate, serialised with the other
executions of its service only by that service's execution lock, and reports
its outcome as an event tagged with its generation. The host claims its one
shutdown from a request, a signal, its creator's end or the loss of its
registration, and then stops or destroys every instance through the same gate.
Between processes there are only files: the lease, the registration, the holder
record, the log cursor, the schema-writer record; and labelled containers.

## 2. The modules

| Module | Models | Correspondence |
| --- | --- | --- |
| `Instances` | The registry's ids | the constant every module about services shares |
| `Execution` | What the execution boundary promises | an abstract specification: two variables, three actions |
| `Service` | `src/Service.ts` | `commands` are forked executions not yet begun, `fibers` the running ones with their program counter; `attempt`, `stoppedThrough` and `session` are the refs of that name (`current` for `session`); `working` is the execution lock held by storage work; `ended` is history |
| `ServiceContract` | `Service` under any lifecycle authority | refinement of `Execution`, fairness of a stop |
| `Lifecycle` | `src/Lifecycle.ts` | a pure operator per event and per helper, under the source's names; the commands of a step are the set `out`; `settle` is the pass after each event |
| `Orchestrator` | `src/Orchestrator.ts`, composing `Service` and `Lifecycle` | `lifecycle` is the published state, `timers` the idle timers and cooldowns, `client` the callers of `awaitAll`, `acquire`, `stop`, `storage`, `destroy` at the points where they let go of the gate |
| `LifecycleOrder` | the loop of `settle` in `src/Lifecycle.ts` | compares the walk in topological order with `Lifecycle`'s `settle` |
| `Composition` | `startComposition`, `stopComposition`, `restartComposition` over `Orchestrator` | `composition` is the operation's stage and how far each member's start is; its calls are those of a client named after the member |
| `Shutdown` | `src/StackHost.ts` (`makeRuntime`, the host's events), `src/host/Command*.ts` and the namespace operations of `src/Owner.ts`, over `Orchestrator` | `host` is the shutdown, `request` the callers of `POST /shutdown`, `job` the attached commands, `main` what `runStackHost` awaits |
| `ExclusiveOwner` | What a lease promises | an abstract lock: who may be the owner, one at a time |
| `Lease` | `src/namespace/Lease.ts` | `path` is the file the lease path names, `lease` each process's attempt by the await it is at |
| `Ownership` | `runStackHost` from lease to release, and `src/Sweep.ts`, over `Lease` | `job` is what a process does with the lease; `record`, `containers` and `registered` are what others see |
| `SchemaWriters` | `src/internal/schema-writers.ts` and its users | `record`, `data`, `entry` are the files, `lease` and `lock` the file locks, `writer` and `keep` those who use them |
| `LogForwarder` | `src/host/LogForwarder.ts` and the part of Analytics it relies on | `cursor` is `cursor.json`, `session` the forwarder's session, `net`, `queue`, `stored` the post under way and what Analytics did with it |
| `MC...` | - | small graphs, the tables of who may call what, symmetry |
| `ServiceProofs` | - | lemmas about a step of `Service` under any authority, for the two modules that prove about one |
| `LifecycleProofs` | - | lemmas about an event of `Lifecycle` and the pass after it |
| `OrchestratorProofs` | - | the theorems about the composition of both |
| `...Proofs` | - | the proofs about the module they are named after; `OwnershipProofs` begins with those about `Lease` |

Choices that a reader of the code should know:

* **The gate.** A dispatch reduces, starts executions and timers, publishes and
  completes waiters without releasing the gate, so it is one step. A caller
  that has not yet got the gate is at stage `gate`; nothing says in which order
  waiters for it are served, which allows every order the semaphore may choose.
* **The execution lock.** What a fiber does under it is one step, because it
  changes nothing that is read without it, except that the session's health
  scope closes before its runtime halts; `CleanUp` closes both at once. Storage
  work holds the lock across steps and has a flag.
* **Two stops of one generation.** The reducer can have two in flight: a launch
  that retains resources, or an exit, reports a failed cleanup while a stop of
  that generation is still on its way, and a request retries it. Two that are at
  the same step count as one element of `fibers`; the second would find nothing
  to do.
* **Generations, epochs, cooldowns.** The cooldown's token is the generation
  that opened the breaker, where the code uses the time at which it closes. The
  code's `openUntil` could only coincide for two failures reported in the same
  millisecond of the same service.
* **Time.** A timer may fire at any moment after it is armed, a budget may end
  at any moment, and a failure may be within or beyond the breaker's window.
  That is every schedule the clock could produce, and more. `LogForwarder` keeps
  of time only what its windows assume (`Quiet`): what a launch queued is stored
  or lost some time after the launch ended, and at the latest after a window.
* **Failures.** An input, a preparation, a launch, a launch that keeps its
  resources, a check, an exit and a cleanup may each fail while fewer than
  `MaxFailures` have. A re-check may always fail, and a preparation or check may
  take for ever unless the specification is a fair one. `MaxTroubles` bounds the
  crashes, exits, lost posts, refusals, slow writes and deleted records of
  `LogForwarder` together.
* **Composition.** One operation over all registered services; binding the
  endpoints is one step, because nothing else is changed by it.
* **Shutdown.** Its stops and destroys are calls of the client `Host`, one after the
  other and dependents first (`IsLast`). Services do not fail in its run; whatever of
  the shutdown itself fails does. The poll may end ownership with the registration
  gone or only the lease lost. What the process's scope closes behind an exit is
  left out, but requests come until it has closed.
* **Lease and Ownership.** `retractHolder`'s look at the record and its removal
  are one step, and so are the two of a removal of the lease file. The directory
  may be deleted once (`Wipes`). `Reuse` lets file identities come back.
* **SchemaWriters.** Versions are numbers, and the schema of a service is the
  newest version that migrated it. Taking the record lock and reading under it
  are one step. Processes left over by a crash go on until the next owner has
  swept. `checkSchemaWriter`, which changes nothing, and the destruction of the
  instance are left out.
* **LogForwarder.** One instance. Reads that fail, an unreadable cursor and a
  reused port are left out. An event that Analytics swallows whenever it comes
  alone holds the session up by design (`HeldUp`).
* **Mutants.** A definition commented `Fault:` or `Mutant:` is used nowhere. It
  is the definition after it with one plausible mistake, with which one property
  must fail (`mutants` in `PROJECT.json`).

Left out of the modelled components: error texts and causes, launch ids,
configurations and restart candidates, `StageChanged`, the observation streams,
changes of a service's spec, registration and configuration (they precede
`OrchestratorInit`), `whileStopped`, and the entries' `bind`, `prepare`, `close`
and `release`. `removeData`'s handling of a leftover session is left out because
there never is one: `DataWorkIsExclusive` says so. A destroy may be cancelled in
the model, as the orchestrator's own operation can; the owner's RPC detaches an
admitted one instead (`src/Owner.ts:315-345`).

## 3. What is checked

| Run | Configuration | Shows | States |
| --- | --- | --- | --- |
| `execution_contract` | one service, one generation, two failures, two stops and re-checks in flight; fair | `KeepsPromise`: `Service` implements `Execution`; `ChecksBelongToLiveSession`; `StopsAreAnswered`, with launches and checks that may hang | 11 000 |
| `wake_and_sleep` | `db <- rest`, both lazy and sleeping, three connections, a ready and a stop of `db`; fair | `LeasesConserved`, `LeaseKeepsAwake`, `TrafficIsAnswered` | 28 000 |
| `requests` | `db <- rest`, starts, stops, an arm and a connection crossing restarts and stops of `db`, two failures, breaker at two | `OneLaunchOneCheck`, `ResourcesAreAccountedFor`, `PhasesAreDriven`, `DependentsFollow`, `FailureCountsOnce` | 1 003 000 |
| `composition_ends` | a restart of the composition crossed by a connection and a restart of the prerequisite, one failure that opens the breaker, bindings that fail; fair | `CompositionEnds`, `TrafficIsAnswered`; `WalkIsPointwise` for every event that could come next | 96 000 |
| `removal_ends` | a destroy crossed by storage work, stops and a connection, one failure, cancellations; fair | `DataWorkIsExclusive`, `RequestsEnd` | 39 000 |
| `start_crosses_destroy` | a start and a destroy of one service; fair | violates `RequestsEnd` (section 5) | - |
| `ownership` | two processes that create, open, reclaim and probe one stack, three file identities, POSIX and Windows, a directory deleted once; any step may fail or be the last | the lease is an exclusive lock (`OneOwner`), `RecordIsTheHolders`, `OwnContainersOnly`, `UnregisteredRunsNothing`, `ReleaseSparesSuccessors` | 2 585 000 |
| `lease_removal_retried` | POSIX, a removal that fails under the lock | violates `HolderKeepsPath` (section 5) | - |
| `schema_writers` | two writers of two services at two versions, every storage operation, crashes of the owner | `RecordCoversData`, `SnapshotIsCovered`, `MigrationsAreRecorded`, `OneMigrationPerService`, `RestoredIsTheSnapshot`, `SchemasOnlyAdvance` | 1 767 000 |
| `log_delivery` | four events, one rejected and two swallowed, bodies of three, three launches, three troubles; fair | `NothingIsLost`, `SkipsAreJust`, `NothingIsQueuedTwice`, `PostsAreOnRecord`, `LogsAreShipped` | 547 000 |
| `shutdown` | `db <- rest`, a start, connection or destroy by one client, two requesters, one attachment, all three host events, ownership ended by a lost registration or a lost lease; fair | `SuccessLeavesNothing`, `AnswersAreTrue`, `ShutdownEnds` | 485 000 |
| `destroy_joins_release` | the same stack, two requesters, the ownership poll; nothing fails | violates `DestroySucceedsOnceRemoved` (section 5) | - |

Each takes from a few seconds to three minutes with two workers.

**Why these bounds.** A failure and a retry, a stale outcome and a replacement
need two generations of a service, which every run of `Orchestrator` with a
failure or a restart has; the contract's run has one and is for what the fibers
of one generation can do to each other, because the proofs cover any number. A
lost prerequisite needs two services. A lease race needs two connections, and a
third shows that a lease belongs to a service and not to a caller. Two failures
let a cleanup fail after a crash, and let a second failure come while the first
is counted. A waiter cap of one lets the cap be reached by the second
connection; 256 would say nothing else. A caller makes one call, so a run with
`n` callers sees every crossing of `n` calls. Generations need no bound in
`Orchestrator`: each launch spends a call, a wake or a failure. Three file
identities let a lease file be made again after both processes have used one
before it. Four events in bodies of three fill one body and begin a second, and
leave after a split a group of two to split again; three launches are the
smallest number in which a post to a launch that ended, one to its successor and
a third can cross. Two services and two versions let a writer be behind in one
schema and ahead in the other. Connections, callers, launches and identities are
finite, so most configurations end at rest; `CHECK_DEADLOCK FALSE` says that
this is no deadlock. `ServiceContract` and `SchemaWriters` never stop, and there
deadlock is checked. Symmetry is over writers, or over processes and files, that may do
the same things, in runs without liveness.

**Fairness.** Forked fibers are scheduled, so `FairSpec` is weakly fair for the
start of a forked command, for each service's executions, for the cooldown timers
and for each caller's own steps. It is weak because nothing it covers is disabled
by others for ever but by storage work, which ends. It says nothing of a caller
calling, giving up, expiring or closing its connection, nor of idle timers, nor
of failures. It does take preparations and health checks to return: `RequestsEnd`
of a start cannot hold over a download that hangs. Where steps reduce events it
is written as `[]<>~due \/ []<><<step>>_vars` rather than `WF_vars(step)`, with
`due` the cheaper statement of when a step is enabled. `FairContractSpec` assumes
less: only the steps of a stop itself are fair, strongly where it waits for the
execution lock, because that semaphore serves its waiters in order.
`FairCompositionSpec` adds the operation's own fibers, `FairShutdownSpec` the
shutdown's body, its responses and the registration of an attachment, each for as
long as the process lives (`Gone` ends it). `FairLogForwarderSpec` is fair to the
owner's session and to what Analytics owes a launch that runs; nothing makes a
crash, an exit or a loss happen.

Some answers are conditional. `TrafficIsAnswered` lets a connection wait for its
budget while something it needs fails its readiness check or holds on to
resources after a failed cleanup, as `ARCHITECTURE.md` (Demand, admission and
readiness) intends. `LeaseKeepsAwake` speaks of runs without failures, and of services
that no client may stop, restart or destroy: such a request may end what is leased
on purpose. A stop of what the leased service needs is refused.
`LogsAreShipped` lets the forwarder wait for ever where Analytics refuses it or
stores nothing of the next body.

## 4. What is proved

For every value of the constants, checked by TLAPS.

**`ServiceContractProofs`** assumes `MaxFailures`, `MaxGeneration` and
`MaxInFlight` to be natural numbers.

* `ContractTypeCorrect`: `ContractSpec => []ContractTypeOK`
* `ContractInvariant`: `ContractSpec => []ContractInv`
* `ImplementsExecution`: `ContractSpec => KeepsPromise`, the refinement
* `ChecksAreCurrent`: `ContractSpec => []ChecksBelongToLiveSession`

The promise, that a generation reported over never acquires again, is not
inductive. A report may be pending while other fibers run, and a launch may be
about to acquire. `ContractInv` therefore adds: only launched generations appear
anywhere (`KnownGenerations`), a generation has one launch, as a command or as a
fiber (`OneLaunch`), a generation that holds or held a session has spent its
launch (`AcquiredOnce`), a stop past its first step has fenced (`StopsFence`), a
fiber about to report an end has seen the session gone (`ReportsAreTrue`), and
an ended generation is fenced or has spent its launch (`OverIsFinal`). `ServiceProofs`
shows once what a fiber's move, its end and a new fiber preserve (`MoveInv`,
`EndInv`, `SpawnInv`); each action then follows from one of them, under any
authority that numbers its launches upwards. In the refinement the
holder of `Execution` is the generation of the session record, and only an
acquisition, a cleanup and a report are not stutters.

**`OrchestratorProofs`**, with `LifecycleProofs`, is about the composition: any
graph of services with a topological order, any callers with any calls, any
breaker, waiter cap and number of failures, and generations without a bound. It
uses the named assumptions of `Lifecycle` and `Orchestrator` on these constants,
which TLC evaluates in every run.

* `OwnerInvariant`: `Spec => []OwnerInv`, and `OwnerTypeCorrect` from it
* `ResourcesAlwaysAccountedFor`: `Spec => []ResourcesAreAccountedFor`
* `DataWorkAlwaysExclusive`: `Spec => []DataWorkIsExclusive`
* `ChecksAlwaysCurrent`: `Spec => []ChecksBelongToLiveSession`
* `ExecutionsAlwaysFollow`: `Spec => []ExecutionsFollow`, and from it
  `AlwaysOneLaunchOneCheck`: `Spec => []OneLaunchOneCheck`,
  `PhasesAlwaysDriven`: `Spec => []PhasesAreDriven`,
  `DependentsAlwaysFollow`: `Spec => DependentsFollow` and
  `FailuresAlwaysCountOnce`: `Spec => FailureCountsOnce`
* `LeasesAlwaysTallied`: `Spec => []LeasesAreTallied`, and from it
  `LeasesAlwaysConserved`: `Spec => []LeasesConserved`
* `LeasesAlwaysKeepAwake`: `Spec => []LeasesKeepAwake`, and from it and the two
  above `LeaseAlwaysKeepsAwake`: `Spec => []LeaseKeepsAwake`
* `OwnerKeepsPromise`: `Spec => Promise!Spec`, where `Promise` is `Execution` with
  the natural numbers as generations. What `ServiceContractProofs` assumes of an
  authority, that it launches each generation once and in increasing order, is
  here what `launch` does with `generationCounters`.

That resources are accounted for is not inductive, because a launch that has not
acquired anything yet may. `OwnerInv` says of every generation that it holds
resources *or may still acquire them unfenced* only if its service's phase is of
that generation and up or winding down (`AccountedFor`). That needs `BoundaryInv`,
the invariant of the boundary above, with the last launched generation read off
the counters; `Sound`, that only a stopped service has no generation, that
phases lag behind the counters and that nothing runs where storage is reserved;
and, for the data work, `CallsAreOrderly` and `ReservationsAreHeld`: a caller at
work on data, or about to release, still owns the reservation it made, and a
destroy's is told from a storage operation's.

`LifecycleProofs` has one lemma per event: what a sound state becomes is sound,
no phase leaves a generation that was up or winding down unless the event
reports it over, and no reservation but the event's own ends (`QuietStep`,
`StorageStep`). `SettleAdvances` says the same of the pass after it, and that it
launches only the next generation, of a service that has none and is not
reserved. A request with its waits is several events under one gate, which
`Along` and `Iterates` carry along the order. `OrchestratorProofs` then joins that
with `DispatchInv`, `DeliveredInv` and `OwnStepInv` of the boundary, one lemma
per action of `Next`.

`OneLaunchOneCheck` and the three properties after it do not follow from `OwnerInv`.
`ExecutionsFollow` ties the executions to the phases, both ways. Every phase that
waits has what it waits for (`Driven`), a stop that was overtaken by the exit
watcher included: the exit cleans up as long as the session is its own. And nothing
under way could hurt what it does not belong to: of a generation that is up nothing
is stopped or fenced (`StopsAreDue`), a launch that has not reported finds it
starting and no check of it failed (`LaunchesAreFirst`), a check is one the reducer
waits for (`ChecksAreAwaited`, `OneCheck`), and whatever runs has its session
(`SessionsRun`). That what is up stands on running prerequisites (`Rooted`) is part
of it, because the stop of a service takes its dependents down in the same step.

`ExecutionsFollow` is stated of a lifecycle state, commands and fibers
(`Coherent`), because a delivered outcome changes the state twice in a step: by
the event (`EventTold`: the outcome finds no phase, or its service goes on, or it
goes down) and by the pass after it, which is a reduction like those of a timer
or a call (`Reduces`, `ReducedCoheres`). `BetweenCoheres` holds in between. An
event that no execution reports launches nothing and stops what it takes down
(`Calm`). A failure counts once because the event that counts it finds the
generation up and leaves it down, and only a launch, of a new generation, goes up.

The count of leases is not inductive either: which connection is admitted next
depends on which waits the reducer has. `LeasesAreTallied` pairs them. A wait in
the reducer is one whose caller is still at it and has neither been admitted nor
refused, each connection has one at most, and a service's `leases` is the number of
connections that hold one (`TalliedAt`). A call reduces several events before any
caller sees what they command, so this is stated of a lifecycle state, the commands
so far and the callers (`Tallied`, `Holders`), and the proof has three kinds of step:
an event moves a wait to an answer or leaves it (`Drains`, `Serves`, `Opens` in
`LifecycleProofs`, one lemma per event, and `EventKeeps`, `SettleKeeps` here); the
callers take the answers (`ResolveKeeps`); a caller goes on by itself (`RemainsKeeps`),
withdraws or closes (`CloseKeeps`). Who withdraws after it was admitted keeps its
lease until it has given it back, which is what `OwesLease` decides. This is where
`OrderAssumption` is needed in full: a service occurs once in `Order`, as
`makeGraph` sees to with `seen`, or a call would open the same wait twice.

`LeaseKeepsAwake` then needs three facts, in `LeasesKeepAwake`. Without a failure
no execution reports one (`Faultless`). For an acquisition that finds another
session in its way this is not obvious: `AccountedFor` says that the session and the
acquisition are of the same generation, and `AcquiredOnce` that this cannot be.
Clients make the calls they may. And a service that none of them may stop runs
while its leases are not zero (`LeasedRun`): an idle timer looks at the demand
again, the settling pass takes nothing down that is leased, an admission finds its
service running (`KeepsRunning`, `SamePhases` and `SettleRuns` in
`LifecycleProofs`), and an exit that is reported belongs to a stop, whose generation
is not up (`StopsAreDue`). That its prerequisites run as well is `Rooted`.

**`OwnershipProofs`** is about `Lease` and `Ownership`, for any number of processes.

* `LeaseTypeCorrect`, `OwnershipTypeCorrect`, `JobsAgree` and `ReleaseSpares`
  assume nothing.
* `LeaseExcludes` and `OwnershipExcludes`, that the lease implements the lock of
  `ExclusiveOwner`, assume `~Reuse`: the kernel does not give a file the identity
  of one that a process still has open.
* `LeaseInvariant`, `HoldersKeepPath`, `OwnershipInvariant` and what follows from
  the last, `RecordNamesTheHolder`, `OwnersRunAlone` and
  `NothingRunsUnregistered`, assume `~RemovalFails` too. Section 5 shows what
  goes wrong without it.

Exclusion rests on the lock being on a file and not on a name: whoever has
judged that the locked file is the one the path names keeps it so, because
nobody else gets past the lock, until it unlinks the file or the directory is
deleted. `OwnershipInv` is therefore the types, what a lock is (`LockInv`),
`LeaseInv` as long as the directory was not deleted, and for each process what
its point in the run implies (`JobInv`, `HolderInv`: at which points the record
is its own, which containers run, whether it is registered) and what it will
still retract (`StackInv`).

**`SchemaWritersProofs`** assumes nothing and proves all seven properties of the
run from `SchemaWritersInv`. The record covers the data because whoever migrates
holds the lease of the database and has raised the record, and `SchemaWritersInv`
says so at each point of a writer and of a storage operation: what it has read
or copied so far, and what may still have changed since.

**`LogForwarderProofs`** assumes nothing either.

* `LogForwarderTypeCorrect`, `NothingIsEverLost`, from `LogForwarderInv`: an id of
  the shipment on record is settled (stored or skipped), or it is in a group still
  to be judged, a suspect, in the post under way, or wanted by the next one.
* `LogWindowsInvariant`, `NothingEverQueuedTwice`, `PostsAlwaysOnRecord` and
  `SkipsAlwaysJust`, from `LogWindowsInv`: launches are numbered in the order
  they come; an event is in one group only, so that what is posted belongs to
  the body on record; where the session goes on, everything it had outstanding is
  stored, and where it waits, only the latest post may not be; a suspect is
  stored, or the launch that got it has ended and what it lost proves nothing.

**`ShutdownProofs`** uses `ShutdownAssumption` and what `OrchestratorProofs` does.

* `AnswersInvariant`: whoever asked for a destroy waits for a destroy or a release,
  however the claims crossed, and a destroy ends in success only unregistered. It
  says nothing of the registration of a stack that is released: the poll may have
  found only the lease lost.
* `ShutdownInvariant`: `ShutdownSpec => []ShutdownInv`, and from it
  `ShutdownTypeCorrect` and `SuccessAlwaysLeavesNothing`, also where services
  fail, which the run leaves out.
* `AnswersAlwaysTrue`, from both: whoever is told of a destroy finds no registration
  and no instance, unless it joined a release.

That a success leaves nothing is about a window: calls admitted before the shutdown
began go on beside it, and so do timers, waits and services that fail. `ShutdownInv`
is `OwnerInv` with three parts. `ServicesHalt` says what a stop leaves of its service
(`Halting`): the intent is to be stopped, and the phase is stopped or winds down
as the generation the stop waits for. Every service the shutdown has had its turn
with is halted (`Handled`), as long as nothing failed, and so is every one that is
not registered. `JobsEnd` says the same of the attached commands: behind the
semaphore nobody is being admitted, and the snapshot has whoever runs.
`InstancesGo` says
that a destroy which has not failed has left only the instances it still has to
remove: each of its calls removes one or fails, and a second requester is told of
success only after the last. TLC checked all three as invariants of the `shutdown` run first.

The proof has one lemma per event of the lifecycle: what is halted stays halted
(`Halts`), unless the event starts or arms its service. Only the requests of a
call do that, and the gate refuses those while the owner drains, so that what is
left are stops, destroys and calls that are past the gate. A pass that settles an
event launches nothing of an intent to be stopped, and a destroy of another caller
is over before the shutdown has the permit. The shutdown's own stop ends with its
service stopped because the generation it halted is the only one that could wind down
there, and its last step is `HeldIsAccountedFor` of the owner: what is stopped
holds nothing.

**Only model-checked.** Of `LifecycleOrder`, `WalkIsPointwise`, about a fold over a
sequence. All liveness: the prover has no way to reason about fairness through
`ENABLED`.

## 5. Findings

* **A start that crosses a destroy waits for ever** (`start_crosses_destroy`).
  `start` and `ready` look the instance up before they queue for the gate
  (`src/Orchestrator.ts:807-823`), and the reducer ignores an event about a
  service it does not know. A destroy may unregister the instance in between.
  The start then has no budget, and no waiter anybody could fail. The same holds
  of a start of the composition, which the owner does not serialise with
  definition changes (`src/Owner.ts:964`), and of a restart. A connection in that
  place waits until its budget ends.
* **A removal that fails under the lock is retried without it**
  (`lease_removal_retried`). The release of a lease unlinks the file and then
  unlocks it on POSIX, and if the removal failed it is tried once more after the
  unlock (`src/namespace/Lease.ts:116-123`). By then another process may hold the
  lease under that name, and loses its file. `ARCHITECTURE.md:783` says that a
  holder's lock pins its file.

* **A destroy that meets a release is told that the stack is gone**
  (`destroy_joins_release`). When the lease file alone was lost, the poll releases
  the stack and leaves its registration and data alone. Only a destroy after a stop
  is rejected (`src/StackHost.ts:312-317`), so one after a release joins it. Until
  the release has ended its connection is cut; one that connects after that and
  before the process has closed its server is answered with success.
  `README.md:93` of the package says that `destroy` succeeds once the stack and
  everything it owns are removed, and the comment of the pipeline
  (`src/StackHost.ts:301-303`) lets only a repeat request join. `AnswersAreTrue`
  states what holds beside this.

Met while modelling, and no contradiction that a run shows: a host whose creator
goes away during a client's stop rejects the event and ends without destroying
the session stack (`ARCHITECTURE.md:491`), which a later sweep reclaims (`:493`). A
signal or a creator's end that joins a client's shutdown may end the process
before that client has its response; the requesters who join a shutdown that a
signal began lose their connection likewise. The forwarder reads what is stored
before it judges the window closed, so an id stored in between may be posted
again (`ARCHITECTURE.md:743`), which Analytics ignores. `ARCHITECTURE.md:534` tells
callers not to start concurrently with a shutdown of the whole stack; in the
model they do.

## 6. Not modelled

Ports are a reservation, a file lock and a bind, each the operating system's;
their crossings need a model of sockets. Detached launch is a handshake with a
process that is starting. Recipes, runtimes and artifacts reach the models as
the steps that may fail or hang, and have no state of their own that others read.
Composition planning and the client API are pure translations. The CLI, the
generated SDK and the configuration package share no state between processes
but through the files modelled here. Of the modelled parts, `PROJECT.json` says
component by component what is left out.
