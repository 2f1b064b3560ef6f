------------------------------- MODULE MCFees -------------------------------
(***************************************************************************)
(* Instances of Fees for TLC.                                              *)
(***************************************************************************)
EXTENDS Fees
=============================================================================
