------------------------------ MODULE MCStores ------------------------------
(***************************************************************************)
(* Small instances of Stores for TLC, and the properties checked on them.  *)
(***************************************************************************)
EXTENDS Stores, TLC

CONSTANT g1

OneGrn == [b \in Batches |-> g1]

\* Sessions are interchangeable, and so are locations.
Interchangeable == Permutations(Sessions) \cup Permutations(Locations)
Places == Permutations(Locations)
=============================================================================
