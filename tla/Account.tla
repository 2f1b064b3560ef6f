------------------------------ MODULE Account -------------------------------
(***************************************************************************)
(* What an account promises its users: a balance that a credit raises, and *)
(* that a debit lowers only when it covers the amount.                     *)
(***************************************************************************)
EXTENDS Naturals

CONSTANT Amount   \* the amounts that are ever credited or debited

VARIABLE balance

Init == balance = 0

Credit(a) == balance' = balance + a
Debit(a)  == balance >= a /\ balance' = balance - a

Next == \E a \in Amount : Credit(a) \/ Debit(a)

Spec == Init /\ [][Next]_balance
=============================================================================
