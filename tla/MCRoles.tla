------------------------------ MODULE MCRoles ------------------------------
(***************************************************************************)
(* Instances of Roles for TLC.                                             *)
(***************************************************************************)
EXTENDS Roles, TLC

CONSTANTS p1, p2

NoneOrBoth == {{}, {p1, p2}}

Symmetry == Permutations(Request) \cup Permutations(User)
=============================================================================
