-------------------------------- MODULE Runs --------------------------------
(***************************************************************************)
(* Runs of handlers in the order in which they begin: one that has not     *)
(* begun is None, one that is done may be Over.                            *)
(***************************************************************************)
EXTENDS Naturals, Null

CONSTANTS
    Requests,  \* how many handler runs there are
    Over

VARIABLE reqs

Request == 1..Requests

\* The run that begins next.
Fresh(r) == reqs[r] = None /\ \A q \in 1..(r - 1) : reqs[q] # None
=============================================================================
