---------------------------- MODULE MCSubmission ----------------------------
(***************************************************************************)
(* Instances of Submission for TLC.                                        *)
(***************************************************************************)
EXTENDS Submission, TLC

Symmetry == Permutations(Handler) \cup Permutations(Key) \cup Permutations(Quote)
=============================================================================
