------------------------------- MODULE Absence -------------------------------
(***************************************************************************)
(* The value of what is not there: a null reference, a row or a file that  *)
(* does not exist.                                                         *)
(***************************************************************************)
CONSTANT None
=============================================================================
