--------------------------- MODULE MCSchemaWriters ---------------------------
(***************************************************************************)
(* SchemaWriters on a small instance: two launches, two services, two      *)
(* versions.                                                               *)
(***************************************************************************)
EXTENDS SchemaWriters, TLC

WriterSymmetry == Permutations(Writers)
=============================================================================
