---------------------------- MODULE MCOwnership -----------------------------
EXTENDS Ownership, TLC

\* Processes and files are interchangeable.
OwnershipSymmetry == Permutations(Processes) \union Permutations(Files)
=============================================================================
