------------------------- MODULE SchemaWritersProofs -------------------------
(***************************************************************************)
(* The record covers the data for any number of writers, services and      *)
(* versions, through every storage operation and every crash.              *)
(***************************************************************************)
EXTENDS SchemaWriters, TLAPS

USE SchemaWritersAssumption DEF Services, Selectable, Versions, Record, Holder

-----------------------------------------------------------------------------
LEMMA RestTyped ==
  /\ Rest \in Writer /\ Rest.at = "idle"
  /\ NoWork \in Keep /\ NoWork.at = "idle"
  /\ NoSchemas \in Record /\ \A s \in Services : NoSchemas[s] = 0
BY DEF Rest, NoWork, Writer, WriterStages, Keep, KeepStages, NoSchemas

\* A database without schemas satisfies the invariant.
LEMMA InvInit == SchemaWritersInit => SchemaWritersInv
<1> SUFFICES ASSUME SchemaWritersInit PROVE SchemaWritersInv
  OBVIOUS
<1>1. SchemaWritersTypeOK
  BY RestTyped DEF SchemaWritersInit, SchemaWritersTypeOK, Entry
<1>2. /\ RecordCoversData
      /\ SnapshotIsCovered
      /\ DeadOwnersHoldNothing
  BY RestTyped DEF SchemaWritersInit, RecordCoversData, SnapshotIsCovered, DeadOwnersHoldNothing
<1>3. /\ MigrationsAreRecorded
      /\ OneMigrationPerService
      /\ LeasesAreHeld
      /\ MigrationsAdvance
  BY RestTyped DEF SchemaWritersInit, MigrationsAreRecorded, OneMigrationPerService,
    LeasesAreHeld, MigrationsAdvance
<1>4. /\ RestoredIsTheSnapshot
      /\ KeeperExcludes
      /\ KeeperCarries
      /\ SectionsAreCurrent
  BY RestTyped DEF SchemaWritersInit, RestoredIsTheSnapshot, KeeperExcludes, KeeperCarries,
    SectionsAreCurrent
<1> QED
  BY <1>1, <1>2, <1>3, <1>4 DEF SchemaWritersInv

-----------------------------------------------------------------------------
LEMMA WriterTyped ==
  ASSUME SchemaWritersInv, NEW w \in Writers
  PROVE  /\ writer[w] \in Writer
         /\ writer[w].service \in Services
         /\ writer[w].version \in Selectable /\ writer[w].version \in Nat
<1>1. writer[w] \in Writer
  BY DEF SchemaWritersInv, SchemaWritersTypeOK
<1> QED
  BY <1>1 DEF Writer

\* With every lease the storage operation's, no writer is in the section, and
\* none may migrate.
LEMMA KeeperIsAlone ==
  ASSUME SchemaWritersInv, ownerUp, HoldsAll, NEW w \in Writers
  PROVE  writer[w].at \notin {"leased", "section", "running", "ended"}
BY DEF SchemaWritersInv, SchemaWritersTypeOK, Writer, HoldsAll, LeasesAreHeld

\* A step of one writer keeps the invariant when it moves only the writer's own
\* locks, raises the record only from the section, and lets the process migrate
\* only at a version the record holds and under the lease.
LEMMA WriterMoves ==
  ASSUME SchemaWritersInv, ownerUp, NEW w \in Writers, NEW r \in Writer,
         writer' = [writer EXCEPT ![w] = r],
         UNCHANGED <<data, cluster, entry, dbUp, keep, ownerUp>>,
         record' \in Record, lease' \in [Services -> Holder], lock' \in Holder,
         record' = record \/ (writer[w].at = "section" /\ r.at # "section"),
         \A s \in Services : record[s] <= record'[s],
         \A s \in Services : lease'[s] # lease[s] =>
           lease[s] \in {w, Nobody} /\ lease'[s] \in {w, Nobody},
         lock' # lock => lock \in {w, Nobody} /\ lock' \in {w, Nobody},
         r.at \in {"leased", "section", "running", "ended"} => lease'[r.service] = w,
         r.at = "section" => lock' = w /\ r.seen = record,
         r.at = "running" =>
           /\ lease[r.service] = w
           /\ r.version <= record'[r.service]
           /\ data[r.service] <= r.version
  PROVE  SchemaWritersInv'
<1> USE DEF SchemaWritersInv
<1>1. SchemaWritersTypeOK'
  BY DEF SchemaWritersTypeOK
<1>2. writer'[w] = r /\ \A v \in Writers : v # w => writer'[v] = writer[v]
  BY DEF SchemaWritersTypeOK
<1>3. \A v \in Writers : writer[v].service \in Services /\ writer[v].version \in Nat
  BY WriterTyped
<1>4. RecordCoversData' /\ SnapshotIsCovered'
  <2>1. ASSUME NEW s \in Services PROVE data'[s] <= record'[s]
    <3>1. data[s] \in Nat /\ record[s] \in Nat
      BY DEF SchemaWritersTypeOK
    <3>2. record'[s] \in Nat
      OBVIOUS
    <3>3. data[s] <= record[s] /\ record[s] <= record'[s] /\ data'[s] = data[s]
      BY DEF RecordCoversData
    <3> QED
      BY <3>1, <3>2, <3>3
  <2> QED
    BY <2>1 DEF RecordCoversData, SnapshotIsCovered
<1>5. MigrationsAreRecorded' /\ MigrationsAdvance'
  <2> SUFFICES ASSUME NEW v \in Writers, writer'[v].at = "running"
               PROVE  /\ writer'[v].version <= record'[writer'[v].service]
                      /\ data'[writer'[v].service] <= writer'[v].version
    BY DEF MigrationsAreRecorded, MigrationsAdvance
  <2>1. CASE v = w
    <3>1. writer'[v] = r /\ r.at = "running"
      BY <1>2, <2>1
    <3> QED
      BY <3>1
  <2>2. CASE v # w
    <3>1. writer'[v] = writer[v]
      BY <1>2, <2>2
    <3>2. writer[v].service \in Services /\ writer[v].version \in Nat
      BY <1>3
    <3>3. writer[v].version <= record[writer[v].service] /\ data[writer[v].service] <= writer[v].version
      BY <3>1 DEF MigrationsAreRecorded, MigrationsAdvance
    <3>4. record[writer[v].service] \in Nat /\ record'[writer[v].service] \in Nat
      BY <3>2 DEF SchemaWritersTypeOK
    <3>5. record[writer[v].service] <= record'[writer[v].service]
      BY <3>2
    <3> QED
      BY <3>1, <3>3, <3>4, <3>5, <3>2
  <2> QED
    BY <2>1, <2>2
<1>6. OneMigrationPerService'
  <2>1. ASSUME NEW v \in Writers, v # w, writer'[v].at = "running", writer'[w].at = "running"
        PROVE  writer'[v].service # writer'[w].service
    BY <1>2, <2>1 DEF LeasesAreHeld
  <2> QED
    BY <1>2, <2>1 DEF OneMigrationPerService
<1>7. LeasesAreHeld'
  <2> SUFFICES ASSUME NEW v \in Writers,
                      writer'[v].at \in {"leased", "section", "running", "ended"}
               PROVE  lease'[writer'[v].service] = v
    BY DEF LeasesAreHeld
  <2>1. CASE v = w
    BY <1>2, <2>1
  <2>2. CASE v # w
    <3>1. lease[writer[v].service] = v /\ writer[v].service \in Services
      BY <1>2, <1>3, <2>2 DEF LeasesAreHeld
    <3> QED
      BY <1>2, <2>2, <3>1
  <2> QED
    BY <2>1, <2>2
<1>8. DeadOwnersHoldNothing'
  BY DEF DeadOwnersHoldNothing
<1>9. SectionsAreCurrent'
  <2>1. ASSUME NEW v \in Writers, v # w, writer'[v].at = "section"
        PROVE  lock' = v /\ writer'[v].seen = record'
    BY <1>2, <2>1 DEF SectionsAreCurrent
  <2>2. writer'[w].at = "section" => lock' = w /\ writer'[w].seen = record'
    BY <1>2
  <2>3. lock' = Keeper => keep'.at \in {"raising", "placed"} /\ keep'.found = record'
    BY DEF SectionsAreCurrent
  <2> QED
    BY <2>1, <2>2, <2>3 DEF SectionsAreCurrent
<1>10. HoldsAll => HoldsAll' /\ record' = record
  BY KeeperIsAlone DEF HoldsAll
<1>11. KeeperExcludes' /\ RestoredIsTheSnapshot'
  BY <1>10 DEF KeeperExcludes, RestoredIsTheSnapshot
<1>12. KeeperCarries'
  <2>1. keep.at \in {"raising", "raised", "placed", "cleared"} => record' = record
    BY <1>10 DEF KeeperExcludes
  <2> QED
    BY <2>1 DEF KeeperCarries
<1> QED
  BY <1>1, <1>4, <1>5, <1>6, <1>7, <1>8, <1>9, <1>11, <1>12

\* A step of the storage operation keeps the invariant when it moves only its own
\* locks, writes the record only under every lease, and leaves data, record,
\* snapshot and what it carries in agreement.
LEMMA KeeperMoves ==
  ASSUME SchemaWritersInv, ownerUp, keep' \in Keep,
         UNCHANGED <<dbUp, writer, ownerUp>>,
         record' \in Record, data' \in Record, cluster' \in BOOLEAN, entry' \in Entry,
         lease' \in [Services -> Holder], lock' \in Holder,
         \A s \in Services : lease'[s] # lease[s] =>
           lease[s] \in {Keeper, Nobody} /\ lease'[s] \in {Keeper, Nobody},
         lock' # lock => lock \in {Keeper, Nobody} /\ lock' \in {Keeper, Nobody},
         record' = record \/ HoldsAll,
         HoldsAll \/ \A s \in Services : data'[s] <= data[s],
         RecordCoversData', SnapshotIsCovered', RestoredIsTheSnapshot',
         KeeperExcludes', KeeperCarries',
         lock' = Keeper => keep'.at \in {"raising", "placed"} /\ keep'.found = record'
  PROVE  SchemaWritersInv'
<1> USE DEF SchemaWritersInv
<1>1. SchemaWritersTypeOK'
  BY DEF SchemaWritersTypeOK
<1>2. \A v \in Writers : writer[v].service \in Services /\ writer[v].version \in Nat
  BY WriterTyped
<1>3. MigrationsAreRecorded' /\ MigrationsAdvance'
  <2> SUFFICES ASSUME NEW v \in Writers, writer[v].at = "running"
               PROVE  /\ writer[v].version <= record'[writer[v].service]
                      /\ data'[writer[v].service] <= writer[v].version
    BY DEF MigrationsAreRecorded, MigrationsAdvance
  <2>1. ~HoldsAll
    BY KeeperIsAlone
  <2>2. writer[v].service \in Services /\ writer[v].version \in Nat
    BY <1>2
  <2>3. /\ data[writer[v].service] \in Nat /\ data'[writer[v].service] \in Nat
        /\ data'[writer[v].service] <= data[writer[v].service]
    BY <2>1, <2>2 DEF SchemaWritersTypeOK
  <2>4. record' = record
    BY <2>1
  <2>5. /\ writer[v].version <= record[writer[v].service]
        /\ data[writer[v].service] <= writer[v].version
    BY DEF MigrationsAreRecorded, MigrationsAdvance
  <2>6. data'[writer[v].service] <= writer[v].version
    <3> HIDE DEF SchemaWritersInv
    <3> QED
      BY <2>2, <2>3, <2>5
  <2> QED
    BY <2>4, <2>5, <2>6
<1>4. OneMigrationPerService' /\ DeadOwnersHoldNothing'
  BY DEF OneMigrationPerService, DeadOwnersHoldNothing
<1>5. LeasesAreHeld'
  BY <1>2 DEF LeasesAreHeld
<1>6. SectionsAreCurrent'
  <2>1. ASSUME NEW v \in Writers, writer[v].at = "section"
        PROVE  lock' = v /\ writer[v].seen = record'
    BY <2>1, KeeperIsAlone DEF SectionsAreCurrent
  <2> QED
    BY <2>1 DEF SectionsAreCurrent
<1> QED
  BY <1>1, <1>3, <1>4, <1>5, <1>6

-----------------------------------------------------------------------------
\* What lets go of everything lets go of the writer's own locks only.
LEMMA GoneIsOwn ==
  ASSUME SchemaWritersInv, NEW w \in Writers, WriterGone(w)
  PROVE  /\ writer' = [writer EXCEPT ![w] = Rest]
         /\ lease' \in [Services -> Holder] /\ lock' \in Holder
         /\ \A s \in Services : lease'[s] # lease[s] => lease[s] = w /\ lease'[s] = Nobody
         /\ lock' # lock => lock = w /\ lock' = Nobody
BY DEF WriterGone, LeasesWithout, LockWithout, SchemaWritersInv, SchemaWritersTypeOK

LEMMA GoneKeeps ==
  ASSUME SchemaWritersInv, ownerUp, NEW w \in Writers, WriterGone(w),
         UNCHANGED <<data, cluster, entry, dbUp, keep, ownerUp>>,
         record' \in Record, record' = record \/ writer[w].at = "section",
         \A s \in Services : record[s] <= record'[s]
  PROVE  SchemaWritersInv'
BY WriterMoves, GoneIsOwn, RestTyped

\* A migration moves its own schema forward, up to what the record holds.
LEMMA MigrateAdvances ==
  ASSUME SchemaWritersInv, NEW w \in Writers, Migrate(w)
  PROVE  /\ data' \in Record
         /\ \A s \in Services : data[s] <= data'[s] /\ data'[s] <= record[s]
         /\ \A s \in Services : s # writer[w].service => data'[s] = data[s]
         /\ data'[writer[w].service] = writer[w].version
<1>1. /\ writer[w].service \in Services
      /\ writer[w].version \in Selectable /\ writer[w].version \in Nat
  BY WriterTyped
<1>2. data \in Record /\ record \in Record
  BY DEF SchemaWritersInv, SchemaWritersTypeOK
<1>3. data[writer[w].service] <= writer[w].version /\ writer[w].version <= record[writer[w].service]
  BY DEF Migrate, SchemaWritersInv, MigrationsAdvance, MigrationsAreRecorded
<1>4. \A s \in Services : data[s] \in Nat /\ record[s] \in Nat /\ data[s] <= record[s]
  BY <1>2 DEF SchemaWritersInv, RecordCoversData
<1>5. data' = [data EXCEPT ![writer[w].service] = writer[w].version]
  BY DEF Migrate
<1>6. data' \in Record
  BY <1>1, <1>2, <1>5 DEF Record, Selectable, Versions
<1>7. \A s \in Services :
        data'[s] = IF s = writer[w].service THEN writer[w].version ELSE data[s]
  BY <1>2, <1>5 DEF Record
<1>8. ASSUME NEW s \in Services
      PROVE  data[s] <= data'[s] /\ data'[s] <= record[s]
  <2>1. CASE s = writer[w].service
    BY <1>1, <1>3, <1>7, <2>1
  <2>2. CASE s # writer[w].service
    <3>1. data'[s] = data[s] /\ data[s] \in Nat /\ data[s] <= record[s]
      BY <1>4, <1>7, <2>2
    <3> QED
      BY <3>1
  <2> QED
    BY <2>1, <2>2
<1> QED
  BY <1>1, <1>6, <1>7, <1>8

LEMMA MigrateKeeps ==
  ASSUME SchemaWritersInv, NEW w \in Writers, Migrate(w)
  PROVE  SchemaWritersInv'
<1> USE DEF SchemaWritersInv
<1>1. SchemaWritersTypeOK'
  BY MigrateAdvances DEF SchemaWritersTypeOK, Migrate, locks
<1>2. keep.at = "idle" /\ keep' = keep
  BY DEF Migrate, KeeperExcludes
<1>3. RecordCoversData' /\ SnapshotIsCovered' /\ RestoredIsTheSnapshot'
  BY <1>2, MigrateAdvances DEF RecordCoversData, SnapshotIsCovered, RestoredIsTheSnapshot, Migrate
<1>4. MigrationsAdvance'
  <2> SUFFICES ASSUME NEW v \in Writers, writer[v].at = "running"
               PROVE  data'[writer[v].service] <= writer[v].version
    BY DEF MigrationsAdvance, Migrate
  <2>1. writer[v].service \in Services /\ writer[v].version \in Nat
    BY WriterTyped
  <2>2. CASE writer[v].service = writer[w].service
    <3>1. v = w
      BY <2>2 DEF OneMigrationPerService, Migrate
    <3> QED
      BY <2>1, <3>1, MigrateAdvances
  <2>3. CASE writer[v].service # writer[w].service
    BY <2>1, <2>3, MigrateAdvances DEF MigrationsAdvance
  <2> QED
    BY <2>2, <2>3
<1>5. MigrationsAreRecorded' /\ OneMigrationPerService' /\ LeasesAreHeld' /\ DeadOwnersHoldNothing'
  BY DEF Migrate, MigrationsAreRecorded, OneMigrationPerService, LeasesAreHeld,
    DeadOwnersHoldNothing, locks
<1>6. SectionsAreCurrent' /\ KeeperExcludes' /\ KeeperCarries'
  BY <1>2 DEF Migrate, SectionsAreCurrent, KeeperExcludes, KeeperCarries, locks
<1> QED
  BY <1>1, <1>3, <1>4, <1>5, <1>6

\* Each step of a launch or a job keeps the invariant.
LEMMA WriterKeeps ==
  ASSUME SchemaWritersInv, NEW w \in Writers, WriterStep(w)
  PROVE  SchemaWritersInv'
<1>0. /\ writer[w] \in Writer /\ writer[w].service \in Services
      /\ writer[w].version \in Selectable /\ writer[w].version \in Nat
  BY WriterTyped
<1>1. /\ record \in Record /\ data \in Record /\ lease \in [Services -> Holder] /\ lock \in Holder
      /\ \A s \in Services : record[s] <= record[s]
  BY DEF SchemaWritersInv, SchemaWritersTypeOK
<1>2. CASE Ask(w)
  <2>1. PICK s \in Services, v \in Selectable :
          writer' = [writer EXCEPT ![w] = [Rest EXCEPT !.at = "asked", !.service = s, !.version = v]]
    BY <1>2 DEF Ask
  <2> DEFINE r == [Rest EXCEPT !.at = "asked", !.service = s, !.version = v]
  <2>2. r \in Writer /\ r.at = "asked"
    BY RestTyped DEF Writer, WriterStages
  <2> HIDE DEF r
  <2> QED
    BY <1>1, <1>2, <2>1, <2>2, WriterMoves DEF Ask, store, locks, r
<1>3. CASE TakeLease(w)
  <2> DEFINE r == [writer[w] EXCEPT !.at = "leased"]
  <2>1. r \in Writer /\ r.at = "leased" /\ r.service = writer[w].service
    BY <1>0 DEF Writer, WriterStages
  <2>2. writer' = [writer EXCEPT ![w] = r]
    BY <1>3 DEF TakeLease, WriterGoes
  <2>3. /\ lease' \in [Services -> Holder] /\ lease'[r.service] = w
        /\ \A s \in Services : lease'[s] # lease[s] => lease[s] = Nobody /\ lease'[s] = w
    BY <1>0, <1>1, <1>3, <2>1 DEF TakeLease
  <2> HIDE DEF r
  <2> QED
    BY <1>1, <1>3, <2>1, <2>2, <2>3, WriterMoves DEF TakeLease, store
<1>4. CASE GiveUp(w)
  BY <1>1, <1>4, GoneKeeps DEF GiveUp, store
<1>5. CASE EnterSection(w)
  <2> DEFINE r == [writer[w] EXCEPT !.at = "section", !.seen = record]
  <2>1. r \in Writer /\ r.at = "section" /\ r.service = writer[w].service /\ r.seen = record
    BY <1>0, <1>1 DEF Writer, WriterStages
  <2>2. writer' = [writer EXCEPT ![w] = r]
    BY <1>5 DEF EnterSection
  <2>3. lease[r.service] = w
    BY <1>5, <2>1 DEF EnterSection, SchemaWritersInv, LeasesAreHeld
  <2> HIDE DEF r
  <2> QED
    BY <1>1, <1>5, <2>1, <2>2, <2>3, WriterMoves DEF EnterSection, store
<1>6. CASE Raise(w)
  <2> DEFINE r == [writer[w] EXCEPT !.at = "running", !.seen = NoSchemas]
  <2>1. r \in Writer /\ r.at = "running" /\ r.service = writer[w].service /\ r.version = writer[w].version
    BY <1>0, RestTyped DEF Writer, WriterStages
  <2>2. writer' = [writer EXCEPT ![w] = r]
    BY <1>6 DEF Raise
  <2>3. /\ lease[r.service] = w /\ writer[w].seen = record
        /\ record[r.service] <= r.version
    BY <1>0, <1>1, <1>6, <2>1 DEF Raise, Downgrade, SchemaWritersInv, LeasesAreHeld, SectionsAreCurrent
  <2>4. /\ record' \in Record /\ record'[r.service] = r.version
        /\ \A s \in Services : record[s] <= record'[s]
    BY <1>0, <1>1, <1>6, <2>1, <2>3 DEF Raise
  <2>5. data[r.service] <= r.version /\ r.version <= record'[r.service]
    <3>1. data[r.service] \in Nat /\ record[r.service] \in Nat /\ r.version \in Nat
      BY <1>0, <1>1, <2>1
    <3>2. data[r.service] <= record[r.service]
      BY <1>0, <2>1 DEF SchemaWritersInv, RecordCoversData
    <3> QED
      BY <2>3, <2>4, <3>1, <3>2
  <2>6. lock' \in Holder /\ (lock' # lock => lock = w /\ lock' = Nobody)
    BY <1>1, <1>6 DEF Raise, LockWithout
  <2> HIDE DEF r
  <2> QED
    BY ZenonT(60), <1>1, <1>6, <2>1, <2>2, <2>3, <2>4, <2>5, <2>6, WriterMoves DEF Raise
<1>7. CASE Refuse(w)
  <2>1. CASE record' = record
    BY <1>1, <1>7, <2>1, GoneKeeps DEF Refuse
  <2>2. CASE /\ ~Downgrade(w, writer[w].seen)
             /\ record' = [writer[w].seen EXCEPT ![writer[w].service] = writer[w].version]
    <3>1. writer[w].seen = record
      BY <1>7 DEF Refuse, SchemaWritersInv, SectionsAreCurrent
    <3>2. record[writer[w].service] <= writer[w].version
      BY <1>0, <1>1, <2>2, <3>1 DEF Downgrade
    <3>3. record' \in Record /\ \A s \in Services : record[s] <= record'[s]
      BY <1>0, <1>1, <2>2, <3>1, <3>2
    <3> QED
      BY <1>7, <3>3, GoneKeeps DEF Refuse
  <2> QED
    BY <1>7, <2>1, <2>2 DEF Refuse
<1>8. CASE Migrate(w)
  BY <1>8, MigrateKeeps
<1>9. CASE Healthy(w)
  BY <1>1, <1>9, GoneKeeps DEF Healthy, store
<1>10. CASE ProcessEnds(w)
  <2> DEFINE r == [writer[w] EXCEPT !.at = "ended"]
  <2>1. r \in Writer /\ r.at = "ended" /\ r.service = writer[w].service
    BY <1>0 DEF Writer, WriterStages
  <2>2. writer' = [writer EXCEPT ![w] = r]
    BY <1>10 DEF ProcessEnds, WriterGoes
  <2>3. lease[r.service] = w
    BY <1>10, <2>1 DEF ProcessEnds, SchemaWritersInv, LeasesAreHeld
  <2> HIDE DEF r
  <2> QED
    BY <1>1, <1>10, <2>1, <2>2, <2>3, WriterMoves DEF ProcessEnds, store, locks
<1>11. CASE ScopeCloses(w)
  BY <1>1, <1>11, GoneKeeps DEF ScopeCloses, store
<1> QED
  BY <1>2, <1>3, <1>4, <1>5, <1>6, <1>7, <1>8, <1>9, <1>10, <1>11 DEF WriterStep

-----------------------------------------------------------------------------
\* What the storage operation gives back is its own.
LEMMA ReleasesAreOwn ==
  ASSUME SchemaWritersInv, KeepReleases
  PROVE  /\ lease' \in [Services -> Holder] /\ lock' \in Holder
         /\ \A s \in Services : lease'[s] # lease[s] => lease[s] = Keeper /\ lease'[s] = Nobody
         /\ lock' # lock => lock = Keeper /\ lock' = Nobody
         /\ lock' # Keeper
BY DEF KeepReleases, LeasesWithout, LockWithout, SchemaWritersInv, SchemaWritersTypeOK

\* Steps of the storage operation that change what is stored by nothing.
LEMMA StoreKept ==
  ASSUME SchemaWritersInv, ownerUp, keep' \in Keep, UNCHANGED <<store, dbUp, writer, ownerUp>>,
         lease' \in [Services -> Holder], lock' \in Holder,
         \A s \in Services : lease'[s] # lease[s] =>
           lease[s] \in {Keeper, Nobody} /\ lease'[s] \in {Keeper, Nobody},
         lock' # lock => lock \in {Keeper, Nobody} /\ lock' \in {Keeper, Nobody},
         RestoredIsTheSnapshot', KeeperExcludes', KeeperCarries',
         lock' = Keeper => keep'.at \in {"raising", "placed"} /\ keep'.found = record
  PROVE  SchemaWritersInv'
<1>1. /\ record' = record /\ data' = data /\ cluster' = cluster /\ entry' = entry
      /\ record \in Record /\ data \in Record /\ cluster \in BOOLEAN /\ entry \in Entry
  BY DEF store, SchemaWritersInv, SchemaWritersTypeOK
<1>2. \A s \in Services : data[s] <= data[s]
  BY <1>1
<1>3. RecordCoversData' /\ SnapshotIsCovered'
  BY <1>1 DEF SchemaWritersInv, RecordCoversData, SnapshotIsCovered
<1> QED
  BY <1>1, <1>2, <1>3, KeeperMoves

\* Each step of the storage operation keeps the invariant.
LEMMA KeeperKeeps ==
  ASSUME SchemaWritersInv, KeeperStep
  PROVE  SchemaWritersInv'
<1>1. /\ record \in Record /\ data \in Record /\ cluster \in BOOLEAN /\ entry \in Entry
      /\ lease \in [Services -> Holder] /\ lock \in Holder /\ keep \in Keep
      /\ \A s \in Services : record[s] \in Nat /\ data[s] \in Nat /\ data[s] <= record[s]
  BY DEF SchemaWritersInv, SchemaWritersTypeOK, RecordCoversData
<1>2. /\ lock = Keeper => keep.at \in {"raising", "placed"} /\ keep.found = record
      /\ KeeperExcludes /\ KeeperCarries /\ RestoredIsTheSnapshot /\ SnapshotIsCovered
  BY DEF SchemaWritersInv, SectionsAreCurrent
<1>3. CASE SaveReads
  <2>1. keep' \in Keep /\ keep'.at = "read" /\ keep'.writers = record
    BY <1>1, <1>3, RestTyped DEF SaveReads, Keep, KeepStages
  <2>2. RestoredIsTheSnapshot' /\ KeeperExcludes' /\ KeeperCarries'
    BY <1>1, <1>3, <2>1 DEF SaveReads, Begins, store, RestoredIsTheSnapshot, KeeperExcludes, KeeperCarries
  <2>3. lock # Keeper
    BY <1>2, <1>3 DEF SaveReads, Begins
  <2> QED
    BY <1>1, <1>3, <2>1, <2>2, <2>3, StoreKept DEF SaveReads, Begins, locks
<1>4. CASE SaveCopies
  <2>1. keep' \in Keep /\ keep'.at = "copied" /\ keep'.copy = data /\ keep'.writers = keep.writers
    BY <1>1, <1>4 DEF SaveCopies, Keep, KeepStages
  <2>2. RestoredIsTheSnapshot' /\ KeeperExcludes' /\ KeeperCarries'
    BY <1>2, <1>4, <2>1 DEF SaveCopies, RestoredIsTheSnapshot, KeeperExcludes, KeeperCarries
  <2>3. lock # Keeper
    BY <1>2, <1>4 DEF SaveCopies
  <2> QED
    BY <1>1, <1>4, <2>1, <2>2, <2>3, StoreKept DEF SaveCopies, locks
<1>5. CASE SavePublishes
  <2>1. keep' \in Keep /\ keep'.at = "idle"
    BY <1>5, RestTyped DEF SavePublishes, KeepEnds
  <2>2. entry' \in Entry /\ SnapshotIsCovered'
    BY <1>1, <1>2, <1>5 DEF SavePublishes, Entry, Keep, SnapshotIsCovered, KeeperCarries
  <2>3. RestoredIsTheSnapshot' /\ KeeperExcludes' /\ KeeperCarries'
    BY <2>1 DEF RestoredIsTheSnapshot, KeeperExcludes, KeeperCarries
  <2>4. lock # Keeper
    BY <1>2, <1>5 DEF SavePublishes
  <2>5. RecordCoversData' /\ \A s \in Services : data'[s] <= data[s]
    BY <1>1, <1>5 DEF SavePublishes, RecordCoversData
  <2> QED
    BY <1>1, <1>5, <2>1, <2>2, <2>3, <2>4, <2>5, KeeperMoves DEF SavePublishes, locks
<1>6. CASE RestoreChecks
  <2>1. /\ keep' \in Keep /\ keep'.at = "leasing" /\ keep'.writers = entry.record
    BY <1>1, <1>6, RestTyped DEF RestoreChecks, Keep, KeepStages, Entry
  <2>2. RestoredIsTheSnapshot' /\ KeeperExcludes' /\ KeeperCarries'
    BY <1>1, <1>6, <2>1 DEF RestoreChecks, Begins, store, RestoredIsTheSnapshot, KeeperExcludes, KeeperCarries
  <2>3. lock # Keeper
    BY <1>2, <1>6 DEF RestoreChecks, Begins
  <2> QED
    BY <1>1, <1>6, <2>1, <2>2, <2>3, StoreKept DEF RestoreChecks, Begins, locks
<1>7. CASE ResetBegins
  <2>1. /\ keep' \in Keep /\ keep'.at = "leasing" /\ keep'.op = "reset"
    BY <1>1, <1>7, RestTyped DEF ResetBegins, Keep, KeepStages
  <2>2. RestoredIsTheSnapshot' /\ KeeperExcludes' /\ KeeperCarries'
    BY <1>1, <1>7, <2>1 DEF ResetBegins, Begins, RestoredIsTheSnapshot, KeeperExcludes, KeeperCarries
  <2>3. lock # Keeper
    BY <1>2, <1>7 DEF ResetBegins, Begins
  <2> QED
    BY <1>1, <1>7, <2>1, <2>2, <2>3, StoreKept DEF ResetBegins, Begins, locks
<1>8. CASE \E s \in Services : KeeperLeases(s)
  <2>1. PICK s \in Services : KeeperLeases(s)
    BY <1>8
  <2>2. lease' \in [Services -> Holder]
        /\ \A r \in Services : lease'[r] # lease[r] => lease[r] = Nobody /\ lease'[r] = Keeper
    BY <1>1, <2>1 DEF KeeperLeases
  <2>3. RestoredIsTheSnapshot' /\ KeeperExcludes' /\ KeeperCarries'
    BY <1>2, <2>1 DEF KeeperLeases, store, RestoredIsTheSnapshot, KeeperExcludes, KeeperCarries
  <2>4. lock # Keeper
    BY <1>2, <2>1 DEF KeeperLeases
  <2> QED
    BY <1>1, <2>1, <2>2, <2>3, <2>4, StoreKept DEF KeeperLeases
<1>9. CASE AllLeased
  <2>1. /\ keep' \in Keep
        /\ keep'.at = IF keep.op = "reset" THEN "clearing" ELSE "raising"
        /\ keep'.writers = keep.writers
    BY <1>1, <1>9 DEF AllLeased, KeepGoes, Keep, KeepStages
  <2>2. RestoredIsTheSnapshot' /\ KeeperExcludes' /\ KeeperCarries'
    BY <1>2, <1>9, <2>1 DEF AllLeased, store, locks, HoldsAll, RestoredIsTheSnapshot,
      KeeperExcludes, KeeperCarries
  <2>3. lock # Keeper
    BY <1>2, <1>9 DEF AllLeased
  <2> QED
    BY <1>1, <1>9, <2>1, <2>2, <2>3, StoreKept DEF AllLeased, locks
<1>10. CASE KeeperEnters
  <2>1. /\ keep' \in Keep /\ keep'.at = keep.at /\ keep'.writers = keep.writers /\ keep'.found = record
    BY <1>1, <1>10 DEF KeeperEnters, Keep
  <2>2. RestoredIsTheSnapshot' /\ KeeperExcludes' /\ KeeperCarries'
    BY <1>2, <1>10, <2>1 DEF KeeperEnters, store, HoldsAll, RestoredIsTheSnapshot, KeeperExcludes,
      KeeperCarries
  <2> QED
    BY <1>1, <1>10, <2>1, <2>2, StoreKept DEF KeeperEnters
<1>11. CASE RestoreRaises
  <2>1. keep' \in Keep /\ keep'.at = "raised" /\ keep'.writers = keep.writers
    BY <1>1, <1>11, RestTyped DEF RestoreRaises, Keep, KeepStages
  <2>2. keep.found = record /\ keep.writers \in Record /\ HoldsAll
    BY <1>1, <1>2, <1>11 DEF RestoreRaises, Keep, KeeperExcludes
  <2>3. /\ record' \in Record
        /\ \A s \in Services : record[s] <= record'[s] /\ keep.writers[s] <= record'[s]
    BY <1>1, <1>11, <2>2 DEF RestoreRaises, Newest, Max2
  <2>4. RecordCoversData' /\ SnapshotIsCovered' /\ \A s \in Services : data'[s] <= data[s]
    <3>1. ASSUME NEW s \in Services PROVE data[s] <= record'[s]
      <4>1. data[s] \in Nat /\ record[s] \in Nat /\ record'[s] \in Nat
        BY <1>1, <2>3
      <4> QED
        BY <1>1, <2>3, <4>1
    <3> QED
      BY <1>1, <1>2, <1>11, <3>1 DEF RestoreRaises, RecordCoversData, SnapshotIsCovered
  <2>5. RestoredIsTheSnapshot' /\ KeeperExcludes' /\ KeeperCarries'
    BY <1>2, <1>11, <2>1, <2>3 DEF RestoreRaises, HoldsAll, RestoredIsTheSnapshot, KeeperExcludes,
      KeeperCarries
  <2>6. lock' \in Holder /\ lock = Keeper /\ lock' = Nobody
    BY <1>11 DEF RestoreRaises
  <2> QED
    BY <1>1, <1>11, <2>1, <2>2, <2>3, <2>4, <2>5, <2>6, KeeperMoves DEF RestoreRaises
<1>12. CASE RestorePlaces
  <2>1. keep' \in Keep /\ keep'.at = "placed" /\ keep'.writers = keep.writers
    BY <1>1, <1>12 DEF RestorePlaces, Keep, KeepStages
  <2>2. data' \in Record /\ HoldsAll /\ lock # Keeper
    BY <1>1, <1>2, <1>12 DEF RestorePlaces, Entry, KeeperExcludes
  <2>3. RecordCoversData' /\ SnapshotIsCovered'
    <3>1. ASSUME NEW s \in Services PROVE data'[s] <= record[s]
      <4>1. data'[s] \in Nat /\ record[s] \in Nat /\ entry.record[s] \in Nat
        BY <1>1, <2>2 DEF Entry
      <4>2. data'[s] <= entry.record[s]
        BY <1>2, <1>12 DEF RestorePlaces, SnapshotIsCovered, KeeperCarries
      <4>3. entry.record[s] <= record[s]
        BY <1>2, <1>12 DEF RestorePlaces, KeeperCarries
      <4> QED
        BY <4>1, <4>2, <4>3
    <3> QED
      BY <1>2, <1>12, <3>1 DEF RestorePlaces, RecordCoversData, SnapshotIsCovered
  <2>4. RestoredIsTheSnapshot' /\ KeeperExcludes' /\ KeeperCarries'
    BY <1>2, <1>12, <2>1 DEF RestorePlaces, locks, HoldsAll, RestoredIsTheSnapshot, KeeperExcludes,
      KeeperCarries
  <2> QED
    BY <1>1, <1>12, <2>1, <2>2, <2>3, <2>4, KeeperMoves DEF RestorePlaces, locks
<1>13. CASE RestoreSets
  <2>1. keep' \in Keep /\ keep'.at = "setting"
    BY <1>1, <1>13, RestTyped DEF RestoreSets, Keep, KeepStages
  <2>2. /\ record' \in Record /\ record' = entry.record /\ data' = entry.data /\ HoldsAll
        /\ entry.saved /\ entry' = entry
    BY <1>1, <1>2, <1>13 DEF RestoreSets, Keep, Entry, KeeperExcludes, KeeperCarries
  <2>3. RecordCoversData' /\ SnapshotIsCovered'
    BY <1>2, <2>2 DEF RecordCoversData, SnapshotIsCovered
  <2>4. RestoredIsTheSnapshot' /\ KeeperExcludes' /\ KeeperCarries'
    BY <1>2, <1>13, <2>1, <2>2 DEF RestoreSets, HoldsAll, RestoredIsTheSnapshot, KeeperExcludes,
      KeeperCarries
  <2>5. lock' \in Holder /\ lock = Keeper /\ lock' = Nobody
    BY <1>13 DEF RestoreSets
  <2> QED
    BY <1>1, <1>13, <2>1, <2>2, <2>3, <2>4, <2>5, KeeperMoves DEF RestoreSets
<1>14. CASE RestoreReleases
  <2>1. keep' \in Keep /\ keep'.at = "marking"
    BY <1>1, <1>14, RestTyped DEF RestoreReleases, Keep, KeepStages
  <2>2. RestoredIsTheSnapshot' /\ KeeperExcludes' /\ KeeperCarries'
    BY <1>2, <1>14, <2>1 DEF RestoreReleases, RestoredIsTheSnapshot, KeeperExcludes, KeeperCarries
  <2> QED
    BY <1>14, <2>1, <2>2, ReleasesAreOwn, StoreKept DEF RestoreReleases
<1>15. CASE RestoreMarks
  <2>1. keep' \in Keep /\ keep'.at = "idle"
    BY <1>15, RestTyped DEF RestoreMarks, KeepEnds
  <2>2. RestoredIsTheSnapshot' /\ KeeperExcludes' /\ KeeperCarries'
    BY <2>1 DEF RestoredIsTheSnapshot, KeeperExcludes, KeeperCarries
  <2>3. lock # Keeper
    BY <1>2, <1>15 DEF RestoreMarks
  <2> QED
    BY <1>1, <1>15, <2>1, <2>2, <2>3, StoreKept DEF RestoreMarks, locks
<1>16. CASE ResetClears
  <2>1. keep' \in Keep /\ keep'.at = "cleared"
    BY <1>1, <1>16 DEF ResetClears, KeepGoes, Keep, KeepStages
  <2>2. data' \in Record /\ HoldsAll /\ lock # Keeper
    BY <1>2, <1>16, RestTyped DEF ResetClears, KeeperExcludes
  <2>3. RecordCoversData' /\ SnapshotIsCovered'
    BY <1>1, <1>2, <1>16, RestTyped DEF ResetClears, RecordCoversData, SnapshotIsCovered
  <2>4. RestoredIsTheSnapshot' /\ KeeperExcludes' /\ KeeperCarries'
    BY <1>2, <1>16, <2>1 DEF ResetClears, locks, HoldsAll, RestoredIsTheSnapshot, KeeperExcludes,
      KeeperCarries
  <2> QED
    BY <1>1, <1>16, <2>1, <2>2, <2>3, <2>4, KeeperMoves DEF ResetClears, locks
<1>17. CASE ResetForgets
  <2>1. keep' \in Keep /\ keep'.at = "idle"
    BY <1>17, RestTyped DEF ResetForgets, KeepEnds
  <2>2. record' \in Record /\ data' = NoSchemas /\ data = NoSchemas /\ HoldsAll
    BY <1>2, <1>17, RestTyped DEF ResetForgets, KeeperExcludes, KeeperCarries
  <2>3. RecordCoversData' /\ SnapshotIsCovered'
    BY <1>2, <1>17, <2>2, RestTyped DEF ResetForgets, RecordCoversData, SnapshotIsCovered
  <2>4. RestoredIsTheSnapshot' /\ KeeperExcludes' /\ KeeperCarries'
    BY <2>1 DEF RestoredIsTheSnapshot, KeeperExcludes, KeeperCarries
  <2>5. data' \in Record /\ cluster' \in BOOLEAN /\ entry' \in Entry
    BY <1>1, <1>17, <2>2 DEF ResetForgets
  <2> QED
    BY <1>17, <2>1, <2>2, <2>3, <2>4, <2>5, ReleasesAreOwn, KeeperMoves DEF ResetForgets
<1>18. CASE KeeperFails
  <2>1. keep' \in Keep /\ keep'.at = "failed"
    BY <1>1, <1>18, RestTyped DEF KeeperFails, Keep, KeepStages
  <2>2. ~dbUp
    BY <1>2, <1>18 DEF KeeperFails, KeeperExcludes
  <2>3. RestoredIsTheSnapshot' /\ KeeperExcludes' /\ KeeperCarries'
    BY <1>18, <2>1, <2>2 DEF KeeperFails, RestoredIsTheSnapshot, KeeperExcludes, KeeperCarries
  <2> QED
    BY <1>18, <2>1, <2>3, ReleasesAreOwn, StoreKept DEF KeeperFails
<1>19. CASE KeeperRollsBack
  <2>1. keep' \in Keep /\ keep'.at = "idle"
    BY <1>19, RestTyped DEF KeeperRollsBack, KeepEnds
  <2>2. data' \in Record /\ cluster' \in BOOLEAN /\ lock # Keeper
    BY <1>1, <1>2, <1>19, RestTyped DEF KeeperRollsBack
  <2>3. \A s \in Services : data'[s] <= data[s] /\ data'[s] <= record[s]
    BY <1>1, <1>19, RestTyped DEF KeeperRollsBack
  <2>4. RecordCoversData' /\ SnapshotIsCovered'
    BY <1>2, <1>19, <2>3 DEF KeeperRollsBack, RecordCoversData, SnapshotIsCovered
  <2>5. RestoredIsTheSnapshot' /\ KeeperExcludes' /\ KeeperCarries'
    BY <2>1 DEF RestoredIsTheSnapshot, KeeperExcludes, KeeperCarries
  <2> QED
    BY <1>1, <1>19, <2>1, <2>2, <2>3, <2>4, <2>5, KeeperMoves DEF KeeperRollsBack, locks
<1> QED
  BY <1>3, <1>4, <1>5, <1>6, <1>7, <1>8, <1>9, <1>10, <1>11, <1>12, <1>13, <1>14, <1>15, <1>16,
    <1>17, <1>18, <1>19 DEF KeeperStep

-----------------------------------------------------------------------------
\* The server starts and stops outside the storage operations.
LEMMA DatabaseKeeps ==
  ASSUME SchemaWritersInv, StartDatabase \/ StopDatabase
  PROVE  SchemaWritersInv'
<1> USE DEF SchemaWritersInv
<1>1. /\ UNCHANGED <<record, data, entry, locks, writer, keep, ownerUp>>
      /\ dbUp' \in BOOLEAN /\ cluster' \in BOOLEAN
      /\ dbUp' => keep.at = "idle"
  BY DEF StartDatabase, StopDatabase, store, SchemaWritersTypeOK
<1>2. SchemaWritersTypeOK'
  BY <1>1 DEF SchemaWritersTypeOK, locks
<1>3. RecordCoversData' /\ SnapshotIsCovered' /\ RestoredIsTheSnapshot'
  BY <1>1 DEF RecordCoversData, SnapshotIsCovered, RestoredIsTheSnapshot
<1>4. /\ MigrationsAreRecorded' /\ OneMigrationPerService' /\ LeasesAreHeld'
      /\ DeadOwnersHoldNothing' /\ MigrationsAdvance'
  BY <1>1 DEF MigrationsAreRecorded, OneMigrationPerService, LeasesAreHeld, DeadOwnersHoldNothing,
    MigrationsAdvance, locks
<1>5. SectionsAreCurrent' /\ KeeperExcludes' /\ KeeperCarries'
  BY <1>1 DEF SectionsAreCurrent, KeeperExcludes, KeeperCarries, HoldsAll, locks
<1> QED
  BY <1>2, <1>3, <1>4, <1>5

\* A crash leaves what was migrating, and the next owner ends it before anything else.
LEMMA OwnerKeeps ==
  ASSUME SchemaWritersInv, OwnerCrashes \/ NextOwner
  PROVE  SchemaWritersInv'
<1> USE DEF SchemaWritersInv
<1>1. /\ record' = record /\ data' = data /\ cluster' = cluster /\ entry' = entry
      /\ ownerUp' \in BOOLEAN /\ dbUp' \in BOOLEAN
  BY DEF OwnerCrashes, NextOwner, store, SchemaWritersTypeOK
<1>2. keep' = NoWork /\ lock' = Nobody /\ lease' = [s \in Services |-> Nobody]
  BY DEF OwnerCrashes, NextOwner, locks, DeadOwnersHoldNothing
<1>3. \A w \in Writers : writer'[w] = Rest \/ (writer'[w] = writer[w] /\ writer[w].at = "running")
  BY DEF OwnerCrashes, NextOwner
<1>4. writer' \in [Writers -> Writer]
  BY RestTyped DEF OwnerCrashes, NextOwner, SchemaWritersTypeOK
<1>5. ownerUp' => \A w \in Writers : writer'[w] = Rest
  BY DEF OwnerCrashes, NextOwner
<1>6. SchemaWritersTypeOK'
  BY <1>1, <1>2, <1>4, RestTyped DEF SchemaWritersTypeOK
<1>7. RecordCoversData' /\ SnapshotIsCovered' /\ RestoredIsTheSnapshot'
  BY <1>1, <1>2, RestTyped DEF RecordCoversData, SnapshotIsCovered, RestoredIsTheSnapshot
<1>8. MigrationsAreRecorded' /\ MigrationsAdvance' /\ OneMigrationPerService'
  BY <1>1, <1>3, RestTyped DEF MigrationsAreRecorded, MigrationsAdvance, OneMigrationPerService
<1>9. LeasesAreHeld' /\ DeadOwnersHoldNothing' /\ SectionsAreCurrent'
  BY <1>2, <1>3, <1>5, RestTyped DEF LeasesAreHeld, DeadOwnersHoldNothing, SectionsAreCurrent
<1>10. KeeperExcludes' /\ KeeperCarries'
  BY <1>2, RestTyped DEF KeeperExcludes, KeeperCarries
<1> QED
  BY <1>6, <1>7, <1>8, <1>9, <1>10

LEMMA InvNext == SchemaWritersInv /\ [SchemaWritersNext]_swVars => SchemaWritersInv'
<1> SUFFICES ASSUME SchemaWritersInv, [SchemaWritersNext]_swVars PROVE SchemaWritersInv'
  OBVIOUS
<1>1. CASE \E w \in Writers : WriterStep(w)
  BY <1>1, WriterKeeps
<1>2. CASE StartDatabase \/ StopDatabase
  BY <1>2, DatabaseKeeps
<1>3. CASE KeeperStep
  BY <1>3, KeeperKeeps
<1>4. CASE OwnerCrashes \/ NextOwner
  BY <1>4, OwnerKeeps
<1>5. CASE UNCHANGED swVars
  BY <1>5 DEF swVars, SchemaWritersInv, SchemaWritersTypeOK, RecordCoversData, SnapshotIsCovered,
    MigrationsAreRecorded, OneMigrationPerService, RestoredIsTheSnapshot, LeasesAreHeld,
    DeadOwnersHoldNothing, SectionsAreCurrent, MigrationsAdvance, KeeperExcludes, KeeperCarries,
    HoldsAll
<1> QED
  BY <1>1, <1>2, <1>3, <1>4, <1>5 DEF SchemaWritersNext

-----------------------------------------------------------------------------
\* The inductive invariant holds of every behaviour of the writers, the storage
\* operations and their owners.
THEOREM SchemaWritersInvariant == SchemaWritersSpec => []SchemaWritersInv
BY InvInit, InvNext, PTL DEF SchemaWritersSpec

\* Types, for any number of writers, services and versions.
THEOREM SchemaWritersTypeCorrect == SchemaWritersSpec => []SchemaWritersTypeOK
<1>1. SchemaWritersInv => SchemaWritersTypeOK
  BY DEF SchemaWritersInv
<1> QED
  BY <1>1, SchemaWritersInvariant, PTL

\* The record always covers the data (schema-writers.ts:266, Database.ts:1150).
THEOREM RecordAlwaysCovers == SchemaWritersSpec => []RecordCoversData
<1>1. SchemaWritersInv => RecordCoversData
  BY DEF SchemaWritersInv
<1> QED
  BY <1>1, SchemaWritersInvariant, PTL

\* And so does a snapshot's record (DatabaseSnapshot.ts:259).
THEOREM SnapshotAlwaysCovered == SchemaWritersSpec => []SnapshotIsCovered
<1>1. SchemaWritersInv => SnapshotIsCovered
  BY DEF SchemaWritersInv
<1> QED
  BY <1>1, SchemaWritersInvariant, PTL

\* No raise is forgotten while its process may migrate (Database.ts:1158).
THEOREM MigrationsAlwaysRecorded == SchemaWritersSpec => []MigrationsAreRecorded
<1>1. SchemaWritersInv => MigrationsAreRecorded
  BY DEF SchemaWritersInv
<1> QED
  BY <1>1, SchemaWritersInvariant, PTL

\* One process of a service migrates at a time (schema-writers.ts:212).
THEOREM OneMigrationAtATime == SchemaWritersSpec => []OneMigrationPerService
<1>1. SchemaWritersInv => OneMigrationPerService
  BY DEF SchemaWritersInv
<1> QED
  BY <1>1, SchemaWritersInvariant, PTL

\* A restore leaves exactly the snapshot's data and record (DatabaseSnapshot.ts:408).
THEOREM RestoreIsExact == SchemaWritersSpec => []RestoredIsTheSnapshot
<1>1. SchemaWritersInv => RestoredIsTheSnapshot
  BY DEF SchemaWritersInv
<1> QED
  BY <1>1, SchemaWritersInvariant, PTL

\* While the server runs, no schema goes back (schema-writers.ts:64).
THEOREM SchemasNeverGoBack == SchemaWritersSpec => SchemasOnlyAdvance
<1>1. ASSUME SchemaWritersInv, [SchemaWritersNext]_swVars, dbUp, NEW s \in Services
      PROVE  data[s] <= data'[s]
  <2>1. data[s] <= data[s]
    BY <1>1 DEF SchemaWritersInv, SchemaWritersTypeOK
  <2>2. keep.at = "idle"
    BY <1>1 DEF SchemaWritersInv, KeeperExcludes
  <2>3. CASE data' = data
    BY <2>1, <2>3
  <2>4. CASE \E w \in Writers : Migrate(w)
    BY <1>1, <2>4, MigrateAdvances
  <2>5. data' = data \/ \E w \in Writers : Migrate(w)
    BY <1>1, <2>2 DEF SchemaWritersNext, WriterStep, KeeperStep, swVars, store, Ask, TakeLease,
      GiveUp, EnterSection, Raise, Refuse, Healthy, ProcessEnds, ScopeCloses, StartDatabase,
      StopDatabase, SaveReads, SaveCopies, SavePublishes, RestoreChecks, ResetBegins, KeeperLeases,
      AllLeased, KeeperEnters, RestoreRaises, RestorePlaces, RestoreSets, RestoreReleases,
      RestoreMarks, ResetClears, ResetForgets, KeeperFails, KeeperRollsBack, OwnerCrashes, NextOwner
  <2> QED
    BY <2>3, <2>4, <2>5
<1>2. SchemaWritersInv /\ [SchemaWritersNext]_swVars =>
        [dbUp => \A s \in Services : data[s] <= data'[s]]_swVars
  BY <1>1
<1> QED
  BY <1>2, SchemaWritersInvariant, PTL DEF SchemaWritersSpec, SchemasOnlyAdvance
=============================================================================
