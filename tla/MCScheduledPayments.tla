------------------------- MODULE MCScheduledPayments -------------------------
(***************************************************************************)
(* Instances of ScheduledPayments for TLC.  Months of two days and of one  *)
(* follow each other: from the second day of the long month, day 1 or 4,   *)
(* the next date is in the long month again and skips the short one.       *)
(***************************************************************************)
EXTENDS ScheduledPayments

Months == [d \in 0 .. Cycle - 1 |-> IF d = 2 THEN 1 ELSE 2]
=============================================================================
