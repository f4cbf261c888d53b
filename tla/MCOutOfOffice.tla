--------------------------- MODULE MCOutOfOffice ---------------------------
(***************************************************************************)
(* A small instance of OutOfOffice for TLC: two accounts, a1 is the first  *)
(* of the list.                                                            *)
(***************************************************************************)
EXTENDS OutOfOffice, TLC

CONSTANTS a1, a2
=============================================================================
