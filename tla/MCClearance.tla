---------------------------- MODULE MCClearance ----------------------------
(***************************************************************************)
(* Instances of Clearance for TLC.  The amounts: one of which two are      *)
(* within the daily limit and three are not, and a large one.              *)
(***************************************************************************)
EXTENDS Clearance, TLC

Amounts == {24999000, 30000000}

Symmetry == Permutations(Request)
=============================================================================
