------------------------- MODULE MCFleetCoordinator -------------------------
(* A small instance of the coordinator's ledger: an author and a publication *)
(* owner of the same host, with one author slot, two under an extension, and *)
(* one model slot.                                                           *)
EXTENDS FleetCoordinator, TLC

CONSTANTS h1

OneHost == [o \in Owners |-> h1]

Identical == Permutations(ModelOps) \cup Permutations(Claims) \cup Permutations(Workbooks)
=============================================================================
