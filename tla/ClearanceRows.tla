---------------------------- MODULE ClearanceRows ---------------------------
(***************************************************************************)
(* The rows that decide whether a payment is accepted, the history of the  *)
(* runs that write them, and what must hold of both.  Clearance has the    *)
(* actions.                                                                *)
(***************************************************************************)
EXTENDS Naturals, Null

VARIABLES
    kyc, expiry,  \* users.kyc_status, kyc_expires_at
    application,  \* the row of kyc_applications
    beneficiary,  \* the row of beneficiaries
    jobs,         \* queued screening jobs
    \* history:
    crossed,      \* writers that overtook a decision since the last one
    uploaded,     \* documents that were acknowledged
    risky,        \* those another upload was about to write over
    screened,     \* the details the last screening job found
    lost,         \* a screening job was lost
    above,        \* payments above the daily limit that were not flagged
    overtaken     \* submissions that another one came between

\* The user and the application tell the same story, through any reviews,
\* uploads and expiries, unless an upload or a guard that had read the rows
\* before a decision wrote after it.
KycAgrees ==
    /\ kyc = "pending" => application = None \/ application.status \in {"pending", "submitted"}
    /\ kyc = "approved" => application.status = "approved" \/ "upload" \in crossed
    /\ kyc = "expired" => \/ expiry = "past" /\ application.status = "approved"
                          \/ crossed # {}
    /\ kyc = "rejected" => application.status \in {"rejected", "submitted"}
    /\ application # None /\ application.status = "approved" => kyc \in {"approved", "expired"}

\* A document whose upload was answered stays in the application, unless
\* another upload had read the list before it was added.
DocumentsStay == uploaded \subseteq risky \cup IF application = None THEN {} ELSE application.docs

\* A beneficiary is clear only with the details the last screening job found,
\* and one that waits for screening has a job, unless a job was lost.
ScreeningFollows ==
    beneficiary # None =>
      /\ beneficiary.status = "clear" => screened = beneficiary.details
      /\ beneficiary.status = "pending" => jobs > 0 \/ lost

\* No payment above the daily limit goes unflagged, unless its submission
\* overlapped another one.
VelocityHolds == above \subseteq overtaken
=============================================================================
