------------------------- MODULE MCNotesTransactions -------------------------
(* Small instances of NotesTransactions for TLC. *)
EXTENDS NotesTransactions, TLC
=============================================================================
