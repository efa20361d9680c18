--------------------------- MODULE MCReleaseStore ---------------------------
(* Small instances of ReleaseStore for TLC. *)
EXTENDS ReleaseStore, TLC

RequestSymmetry == Permutations(Requests)
=============================================================================
