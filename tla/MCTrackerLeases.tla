--------------------------- MODULE MCTrackerLeases ---------------------------
(* Small instances of TrackerLeases for TLC. *)
EXTENDS TrackerLeases, TLC

OwnerSymmetry == Permutations(Owners)
=============================================================================
