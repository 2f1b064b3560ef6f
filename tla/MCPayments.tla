----------------------------- MODULE MCPayments -----------------------------
(***************************************************************************)
(* Instances of Payments for TLC.                                          *)
(***************************************************************************)
EXTENDS Payments, TLC

CONSTANT p1

HandlerSymmetry == Permutations(Handler)

NoEvents    == {}
FailedEvent == {[id |-> 1, payment |-> p1, type |-> "failed",
                 route |-> "generic"]}
=============================================================================
