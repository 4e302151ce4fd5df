---------------------------- MODULE SchemaWriters ----------------------------
(***************************************************************************)
(* The record of the newest schema versions in one database,               *)
(* packages/stack/src/internal/schema-writers.ts, with those who use it:   *)
(* the launch of a service that migrates the database (Owner.ts), the      *)
(* initialization job (host/CommandRunner.ts), and the storage operations  *)
(* that save, restore and reset the data (services/DatabaseSnapshot.ts,    *)
(* services/Database.ts).  All of them run in the owner's process, which   *)
(* may crash between any two steps: its locks die with it, the processes   *)
(* it launched go on until the next owner's sweep.                         *)
(*                                                                         *)
(* A version is a number, 0 for none.  The schema of a service is the      *)
(* newest version that migrated it.  Taking the record lock and reading    *)
(* the record under it are one step.  Left out: the check made before      *)
(* composing, which changes nothing, and the destruction of the instance,  *)
(* which ends the record with the data.                                    *)
(***************************************************************************)
EXTENDS Naturals

CONSTANTS
  Writers,           \* launches and jobs that may migrate; one at a time each
  NumServices,       \* the services that own schemas, in the order of the leases
  MaxVersion,        \* bound on the versions a service is selected at
  Keeper,            \* the storage operation, as the holder of a lock
  Nobody

ASSUME SchemaWritersAssumption ==
  /\ NumServices \in Nat \ {0}
  /\ MaxVersion \in Nat \ {0}
  /\ Keeper \notin Writers
  /\ Nobody \notin Writers \union {Keeper}

Services == 1..NumServices
Selectable == 1..MaxVersion
Versions == 0..MaxVersion
Record == [Services -> Versions]
Holder == Writers \union {Keeper, Nobody}
NoSchemas == [s \in Services |-> 0]

VARIABLES
  record,            \* schema-writers.json; 0 where it names no version
  data,              \* the schemas in the data directory
  cluster,           \* whether the data directory holds a database
  dbUp,              \* whether its server runs
  entry,             \* the snapshot: [saved, data, record]
  lease,             \* [Services -> Holder], schema-writer-<service>.lock
  lock,              \* schema-writers.lock
  writer,            \* [Writers -> Writer]
  keep,              \* the storage operation under the reservation
  ownerUp            \* whether an owner runs

store == <<record, data, cluster, entry>>
locks == <<lease, lock>>
swVars == <<record, data, cluster, dbUp, entry, lease, lock, writer, keep, ownerUp>>

WriterStages == {"idle", "asked", "leased", "section", "running", "ended"}
KeepStages == {"idle", "read", "copied", "leasing", "raising", "raised", "placed",
               "setting", "clearing", "cleared", "marking", "failed"}

\* seen: the record as read in the critical section.
Writer == [at : WriterStages, service : Services, version : Selectable, seen : Record]

\* writers: the record read from the database (save) or the snapshot (restore);
\* found: the record read in the critical section; copy: the data copied;
\* published: whether rollback may clear the data.
Keep == [at : KeepStages, op : {"none", "save", "restore", "reset"}, writers : Record,
         found : Record, copy : Record, published : BOOLEAN]

Entry == [saved : BOOLEAN, data : Record, record : Record]

Rest == [at |-> "idle", service |-> 1, version |-> 1, seen |-> NoSchemas]
NoWork == [at |-> "idle", op |-> "none", writers |-> NoSchemas, found |-> NoSchemas,
           copy |-> NoSchemas, published |-> FALSE]

SchemaWritersTypeOK ==
  /\ record \in Record
  /\ data \in Record
  /\ cluster \in BOOLEAN
  /\ dbUp \in BOOLEAN
  /\ entry \in Entry
  /\ lease \in [Services -> Holder]
  /\ lock \in Holder
  /\ writer \in [Writers -> Writer]
  /\ keep \in Keep
  /\ ownerUp \in BOOLEAN

SchemaWritersInit ==
  /\ record = NoSchemas
  /\ data = NoSchemas
  /\ cluster = FALSE
  /\ dbUp = FALSE
  /\ entry = [saved |-> FALSE, data |-> NoSchemas, record |-> NoSchemas]
  /\ lease = [s \in Services |-> Nobody]
  /\ lock = Nobody
  /\ writer = [w \in Writers |-> Rest]
  /\ keep = NoWork
  /\ ownerUp = TRUE

-----------------------------------------------------------------------------
Max2(m, n) == IF m >= n THEN m ELSE n
Newest(r, q) == [s \in Services |-> Max2(r[s], q[s])]

\* A version older than the record may not run.
Downgrade(w, r) == writer[w].version < r[writer[w].service]

\* The leases h holds, given back; each lock ends with the scope that took it.
LeasesWithout(h) == [s \in Services |-> IF lease[s] = h THEN Nobody ELSE lease[s]]
LockWithout(h) == IF lock = h THEN Nobody ELSE lock

WriterGoes(w, at) == writer' = [writer EXCEPT ![w].at = at]

\* A launch or a job that fails lets go of everything.
WriterGone(w) ==
  /\ writer' = [writer EXCEPT ![w] = Rest]
  /\ lease' = LeasesWithout(w)
  /\ lock' = LockWithout(w)

-----------------------------------------------------------------------------
(* A writer: launchAsSchemaWriter, or an initialization job.               *)

Ask(w) ==
  /\ ownerUp
  /\ writer[w].at = "idle"
  /\ \E s \in Services, v \in Selectable :
       writer' = [writer EXCEPT ![w] = [Rest EXCEPT !.at = "asked", !.service = s, !.version = v]]
  /\ UNCHANGED <<store, dbUp, locks, keep, ownerUp>>

TakeLease(w) ==
  /\ ownerUp
  /\ writer[w].at = "asked"
  /\ lease[writer[w].service] = Nobody
  /\ lease' = [lease EXCEPT ![writer[w].service] = w]
  /\ WriterGoes(w, "leased")
  /\ UNCHANGED <<store, dbUp, lock, keep, ownerUp>>

\* The budget of a lock runs out, or the waiting request is interrupted.
GiveUp(w) ==
  /\ ownerUp
  /\ writer[w].at \in {"asked", "leased"}
  /\ WriterGone(w)
  /\ UNCHANGED <<store, dbUp, keep, ownerUp>>

\* Mutant: the record is read without its lock.
EnterSectionUnlocked(w) ==
  /\ ownerUp
  /\ writer[w].at = "leased"
  /\ writer' = [writer EXCEPT ![w].at = "section", ![w].seen = record]
  /\ UNCHANGED <<store, dbUp, locks, keep, ownerUp>>

EnterSection(w) ==
  /\ ownerUp
  /\ writer[w].at = "leased"
  /\ lock = Nobody
  /\ lock' = w
  /\ writer' = [writer EXCEPT ![w].at = "section", ![w].seen = record]
  /\ UNCHANGED <<store, dbUp, lease, keep, ownerUp>>

\* Mutant: the version after the selected one is recorded.
RaiseFurther(w) ==
  /\ ownerUp
  /\ writer[w].at = "section"
  /\ ~Downgrade(w, writer[w].seen)
  /\ record' = [writer[w].seen EXCEPT ![writer[w].service] = writer[w].version + 1]
  /\ lock' = LockWithout(w)
  /\ writer' = [writer EXCEPT ![w].at = "running", ![w].seen = NoSchemas]
  /\ UNCHANGED <<data, cluster, entry, dbUp, lease, keep, ownerUp>>

\* The record is raised to the version, unless it holds it already.
Raise(w) ==
  /\ ownerUp
  /\ writer[w].at = "section"
  /\ ~Downgrade(w, writer[w].seen)
  /\ record' = [writer[w].seen EXCEPT ![writer[w].service] = writer[w].version]
  /\ lock' = LockWithout(w)
  /\ writer' = [writer EXCEPT ![w].at = "running", ![w].seen = NoSchemas]
  /\ UNCHANGED <<data, cluster, entry, dbUp, lease, keep, ownerUp>>

\* A downgrade is refused; a write may fail before or after the rename.
Refuse(w) ==
  /\ ownerUp
  /\ writer[w].at = "section"
  /\ \/ record' = record
     \/ /\ ~Downgrade(w, writer[w].seen)
        /\ record' = [writer[w].seen EXCEPT ![writer[w].service] = writer[w].version]
  /\ WriterGone(w)
  /\ UNCHANGED <<data, cluster, entry, dbUp, keep, ownerUp>>

\* The launched process migrates; it does so without an owner too.
Migrate(w) ==
  /\ writer[w].at = "running"
  /\ dbUp
  /\ data' = [data EXCEPT ![writer[w].service] = writer[w].version]
  /\ UNCHANGED <<record, cluster, entry, dbUp, locks, writer, keep, ownerUp>>

\* The first healthy probe: the migrations are finished, and the lease goes.
Healthy(w) ==
  /\ ownerUp
  /\ writer[w].at = "running"
  /\ data[writer[w].service] = writer[w].version
  /\ WriterGone(w)
  /\ UNCHANGED <<store, dbUp, keep, ownerUp>>

\* The launch ends first: its process is cleaned up, and only then the lease goes.
ProcessEnds(w) ==
  /\ ownerUp
  /\ writer[w].at = "running"
  /\ WriterGoes(w, "ended")
  /\ UNCHANGED <<store, dbUp, locks, keep, ownerUp>>

ScopeCloses(w) ==
  /\ ownerUp
  /\ writer[w].at = "ended"
  /\ WriterGone(w)
  /\ UNCHANGED <<store, dbUp, keep, ownerUp>>

-----------------------------------------------------------------------------
(* The database server.                                                    *)

StartDatabase ==
  /\ ownerUp
  /\ ~dbUp
  /\ keep.at = "idle"
  /\ dbUp' = TRUE
  /\ cluster' = TRUE
  /\ UNCHANGED <<record, data, entry, locks, writer, keep, ownerUp>>

StopDatabase ==
  /\ ownerUp
  /\ dbUp
  /\ dbUp' = FALSE
  /\ UNCHANGED <<store, locks, writer, keep, ownerUp>>

-----------------------------------------------------------------------------
(* The storage operations, one at a time and with the database stopped.    *)

KeepGoes(at) == keep' = [keep EXCEPT !.at = at]
KeepEnds == keep' = NoWork
KeepReleases == lease' = LeasesWithout(Keeper) /\ lock' = LockWithout(Keeper)
HoldsNone == TRUE  \* mutant: the leases are not waited for
HoldsAll == \A s \in Services : lease[s] = Keeper

BeginsRunning == ownerUp /\ keep.at = "idle"  \* mutant: the server may run
Begins == ownerUp /\ ~dbUp /\ keep.at = "idle"

\* saveSnapshot reads the record first, then copies the data and publishes both.
SaveReads ==
  /\ Begins
  /\ cluster
  /\ keep' = [NoWork EXCEPT !.at = "read", !.op = "save", !.writers = record]
  /\ UNCHANGED <<store, dbUp, locks, writer, ownerUp>>

SaveCopies ==
  /\ ownerUp
  /\ keep.at = "read" /\ keep.op = "save"
  /\ keep' = [keep EXCEPT !.at = "copied", !.copy = data]
  /\ UNCHANGED <<store, dbUp, locks, writer, ownerUp>>

SavePublishes ==
  /\ ownerUp
  /\ keep.at = "copied" /\ keep.op = "save"
  /\ entry' = [saved |-> TRUE, data |-> keep.copy, record |-> keep.writers]
  /\ KeepEnds
  /\ UNCHANGED <<record, data, cluster, dbUp, locks, writer, ownerUp>>

\* restoreSnapshot checks that the target is empty and reads the snapshot's record.
RestoreChecks ==
  /\ Begins
  /\ ~cluster
  /\ entry.saved
  /\ keep' = [NoWork EXCEPT !.at = "leasing", !.op = "restore", !.writers = entry.record]
  /\ UNCHANGED <<store, dbUp, locks, writer, ownerUp>>

ResetBegins ==
  /\ Begins
  /\ keep' = [NoWork EXCEPT !.at = "leasing", !.op = "reset"]
  /\ UNCHANGED <<store, dbUp, locks, writer, ownerUp>>

\* holdSchemaWriterLeases: one after the other, in the order of the services.
KeeperLeases(s) ==
  /\ ownerUp
  /\ keep.at = "leasing"
  /\ \A r \in Services : r < s => lease[r] = Keeper
  /\ lease[s] = Nobody
  /\ lease' = [lease EXCEPT ![s] = Keeper]
  /\ UNCHANGED <<store, dbUp, lock, writer, keep, ownerUp>>

AllLeased ==
  /\ ownerUp
  /\ keep.at = "leasing"
  /\ HoldsAll
  /\ KeepGoes(IF keep.op = "reset" THEN "clearing" ELSE "raising")
  /\ UNCHANGED <<store, dbUp, locks, writer, ownerUp>>

KeeperEnters ==
  /\ ownerUp
  /\ keep.at \in {"raising", "placed"}
  /\ lock = Nobody
  /\ lock' = Keeper
  /\ keep' = [keep EXCEPT !.found = record]
  /\ UNCHANGED <<store, dbUp, lease, writer, ownerUp>>

\* Mutant: the record is not raised before the data is placed.
RestoreRaisesNothing ==
  /\ ownerUp
  /\ keep.at = "raising"
  /\ lock = Keeper
  /\ lock' = Nobody
  /\ keep' = [keep EXCEPT !.at = "raised", !.found = NoSchemas]
  /\ UNCHANGED <<store, dbUp, lease, writer, ownerUp>>

\* Restore step one, raiseSchemaWritersTo.
RestoreRaises ==
  /\ ownerUp
  /\ keep.at = "raising"
  /\ lock = Keeper
  /\ record' = Newest(keep.found, keep.writers)
  /\ lock' = Nobody
  /\ keep' = [keep EXCEPT !.at = "raised", !.found = NoSchemas]
  /\ UNCHANGED <<data, cluster, entry, dbUp, lease, writer, ownerUp>>

\* Restore step two: the copied data is renamed into place.
RestorePlaces ==
  /\ ownerUp
  /\ keep.at = "raised"
  /\ data' = entry.data
  /\ cluster' = TRUE
  /\ keep' = [keep EXCEPT !.at = "placed", !.published = TRUE]
  /\ UNCHANGED <<record, entry, dbUp, locks, writer, ownerUp>>

\* Mutant: the record keeps what it was raised to.
RestoreKeepsNewest ==
  /\ ownerUp
  /\ keep.at = "placed"
  /\ lock = Keeper
  /\ record' = Newest(keep.found, keep.writers)
  /\ lock' = Nobody
  /\ keep' = [keep EXCEPT !.at = "setting", !.found = NoSchemas]
  /\ UNCHANGED <<data, cluster, entry, dbUp, lease, writer, ownerUp>>

\* Restore step three, setSchemaWriters.
RestoreSets ==
  /\ ownerUp
  /\ keep.at = "placed"
  /\ lock = Keeper
  /\ record' = keep.writers
  /\ lock' = Nobody
  /\ keep' = [keep EXCEPT !.at = "setting", !.found = NoSchemas]
  /\ UNCHANGED <<data, cluster, entry, dbUp, lease, writer, ownerUp>>

RestoreReleases ==
  /\ ownerUp
  /\ keep.at = "setting"
  /\ KeepReleases
  /\ keep' = [keep EXCEPT !.at = "marking", !.writers = NoSchemas]
  /\ UNCHANGED <<store, dbUp, writer, ownerUp>>

\* The identity and the ready marker are written; the snapshot is restored.
RestoreMarks ==
  /\ ownerUp
  /\ keep.at = "marking"
  /\ KeepEnds
  /\ UNCHANGED <<store, dbUp, locks, writer, ownerUp>>

\* Reset: the data first, the record last.
ResetClears ==
  /\ ownerUp
  /\ keep.at = "clearing"
  /\ data' = NoSchemas
  /\ cluster' = FALSE
  /\ KeepGoes("cleared")
  /\ UNCHANGED <<record, entry, dbUp, locks, writer, ownerUp>>

ResetForgets ==
  /\ ownerUp
  /\ keep.at = "cleared"
  /\ record' = NoSchemas
  /\ KeepReleases
  /\ KeepEnds
  /\ UNCHANGED <<data, cluster, entry, dbUp, writer, ownerUp>>

\* Any step may fail or, where it is restored to interruptible, be interrupted;
\* the leases go with their scope and the compensation follows.
KeeperFails ==
  /\ ownerUp
  /\ keep.at \notin {"idle", "failed"}
  /\ KeepReleases
  /\ keep' = [NoWork EXCEPT !.at = "failed", !.op = keep.op, !.published = keep.published]
  /\ UNCHANGED <<store, dbUp, writer, ownerUp>>

\* The rollback clears the data it published.
KeeperRollsBack ==
  /\ ownerUp
  /\ keep.at = "failed"
  /\ \/ /\ keep.published
        /\ data' = NoSchemas
        /\ cluster' = FALSE
     \/ UNCHANGED <<data, cluster>>
  /\ KeepEnds
  /\ UNCHANGED <<record, entry, dbUp, locks, writer, ownerUp>>

-----------------------------------------------------------------------------
(* The owner dies: its locks and its storage operation die with it, what it *)
(* launched goes on.  The next owner sweeps first.                          *)

OwnerCrashes ==
  /\ ownerUp
  /\ ownerUp' = FALSE
  /\ lease' = [s \in Services |-> Nobody]
  /\ lock' = Nobody
  /\ keep' = NoWork
  /\ writer' = [w \in Writers |-> IF writer[w].at = "running" THEN writer[w] ELSE Rest]
  /\ UNCHANGED <<store, dbUp>>

\* Mutant: the next owner does not sweep.
NextOwnerUnswept ==
  /\ ~ownerUp
  /\ ownerUp' = TRUE
  /\ UNCHANGED <<store, locks, dbUp, writer, keep>>

NextOwner ==
  /\ ~ownerUp
  /\ ownerUp' = TRUE
  /\ dbUp' = FALSE
  /\ writer' = [w \in Writers |-> Rest]
  /\ UNCHANGED <<store, locks, keep>>

-----------------------------------------------------------------------------
WriterStep(w) ==
  \/ Ask(w) \/ TakeLease(w) \/ GiveUp(w) \/ EnterSection(w) \/ Raise(w) \/ Refuse(w)
  \/ Migrate(w) \/ Healthy(w) \/ ProcessEnds(w) \/ ScopeCloses(w)

KeeperStep ==
  \/ SaveReads \/ SaveCopies \/ SavePublishes
  \/ RestoreChecks \/ ResetBegins
  \/ \E s \in Services : KeeperLeases(s)
  \/ AllLeased \/ KeeperEnters
  \/ RestoreRaises \/ RestorePlaces \/ RestoreSets \/ RestoreReleases \/ RestoreMarks
  \/ ResetClears \/ ResetForgets
  \/ KeeperFails \/ KeeperRollsBack

SchemaWritersNext ==
  \/ \E w \in Writers : WriterStep(w)
  \/ StartDatabase \/ StopDatabase
  \/ KeeperStep
  \/ OwnerCrashes \/ NextOwner

SchemaWritersSpec == SchemaWritersInit /\ [][SchemaWritersNext]_swVars

-----------------------------------------------------------------------------
\* The record is at least as new as the schemas in the data, at every instant
\* and through every crash: no service is admitted at a version older than what
\* already migrated the database (schema-writers.ts:266, Database.ts:1150).
RecordCoversData == \A s \in Services : data[s] <= record[s]

\* A published snapshot's record covers its data too, although the record is
\* read before the data is copied and without any lock (DatabaseSnapshot.ts:259).
SnapshotIsCovered == entry.saved => \A s \in Services : entry.data[s] <= entry.record[s]

\* A process that may still migrate has its version in the record: no reset and
\* no restore forgets a raise under it (Database.ts:1158, DatabaseSnapshot.ts:411).
MigrationsAreRecorded ==
  \A w \in Writers :
    writer[w].at = "running" => writer[w].version <= record[writer[w].service]

\* Of one service at most one process may migrate at a time, the ones a dead
\* owner left included (schema-writers.ts:212, Owner.ts:509).
OneMigrationPerService ==
  \A v, w \in Writers :
    writer[v].at = "running" /\ writer[w].at = "running"
      /\ writer[v].service = writer[w].service => v = w

\* While the server runs a schema never goes back to an older version
\* (schema-writers.ts:64).
SchemasOnlyAdvance ==
  [][dbUp => \A s \in Services : data[s] <= data'[s]]_swVars

\* When a restore lets go of the leases, record and data are the snapshot's:
\* no raise was lost, and none of an older attempt is kept (DatabaseSnapshot.ts:408).
RestoredIsTheSnapshot ==
  keep.at = "setting" => record = entry.record /\ data = entry.data

-----------------------------------------------------------------------------
(* What makes them inductive.                                              *)

\* A live owner's writer holds its lease from before the section until the
\* launch is healthy or over.
LeasesAreHeld ==
  ownerUp => \A w \in Writers :
    writer[w].at \in {"leased", "section", "running", "ended"} => lease[writer[w].service] = w

\* A dead owner leaves running processes and nothing else.
DeadOwnersHoldNothing ==
  ~ownerUp =>
    /\ keep = NoWork
    /\ lock = Nobody
    /\ lease = [s \in Services |-> Nobody]
    /\ \A w \in Writers : writer[w].at \in {"idle", "running"}

\* What is read in the critical section is current until the section ends.
SectionsAreCurrent ==
  /\ \A w \in Writers : writer[w].at = "section" => lock = w /\ writer[w].seen = record
  /\ lock = Keeper => keep.at \in {"raising", "placed"} /\ keep.found = record

\* A process that may still migrate is at least as new as the schema it migrates.
MigrationsAdvance ==
  \A w \in Writers :
    writer[w].at = "running" => data[writer[w].service] <= writer[w].version

\* The storage operation has the database stopped and, where it touches the
\* data or the record, every lease.
KeeperExcludes ==
  /\ keep.at # "idle" => ~dbUp
  /\ keep.at \in {"raising", "raised", "placed", "setting", "clearing", "cleared"} => HoldsAll

\* What the storage operation carries from one step to the next.
KeeperCarries ==
  /\ keep.at = "read" => \A s \in Services : data[s] <= keep.writers[s]
  /\ keep.at = "copied" => \A s \in Services : keep.copy[s] <= keep.writers[s]
  /\ (\/ keep.at \in {"raising", "raised", "placed"}
      \/ keep.at = "leasing" /\ keep.op # "reset")
       => entry.saved /\ keep.writers = entry.record
  /\ keep.at = "raised" => \A s \in Services : keep.writers[s] <= record[s]
  /\ keep.at = "placed" => data = entry.data
  /\ keep.at = "cleared" => data = NoSchemas

SchemaWritersInv ==
  /\ SchemaWritersTypeOK
  /\ RecordCoversData
  /\ SnapshotIsCovered
  /\ MigrationsAreRecorded
  /\ OneMigrationPerService
  /\ RestoredIsTheSnapshot
  /\ LeasesAreHeld
  /\ DeadOwnersHoldNothing
  /\ SectionsAreCurrent
  /\ MigrationsAdvance
  /\ KeeperExcludes
  /\ KeeperCarries
=============================================================================
