\* Two writers of two services at two versions, with every storage operation,
\* failures, and crashes of the owner.
CONSTANTS
  Writers = {w1, w2}
  NumServices = 2
  MaxVersion = 2
  Keeper = keeper
  Nobody = nobody

SPECIFICATION SchemaWritersSpec

SYMMETRY WriterSymmetry

INVARIANTS
  SchemaWritersTypeOK
  RecordCoversData
  SnapshotIsCovered
  MigrationsAreRecorded
  OneMigrationPerService
  RestoredIsTheSnapshot

PROPERTY
  SchemasOnlyAdvance
