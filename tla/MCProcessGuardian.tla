-------------------------- MODULE MCProcessGuardian --------------------------
(* Small instances of ProcessGuardian for TLC. *)
EXTENDS ProcessGuardian, TLC
=============================================================================
