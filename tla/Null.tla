-------------------------------- MODULE Null --------------------------------
(***************************************************************************)
(* The value that stands for what is not there: a row, an answer, a run.   *)
(***************************************************************************)
CONSTANT None
=============================================================================
