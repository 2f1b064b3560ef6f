----------------------------- MODULE Clearance -----------------------------
(***************************************************************************)
(* What must be clear before a payment is accepted: the identity check of  *)
(* its user (kycGuard and modules/compliance), the screening of its        *)
(* beneficiary (modules/beneficiaries and workers/compliance.worker), and  *)
(* the checks of its amount (runAmlChecks, resolveApprovalRule).  One user *)
(* and one beneficiary.  Each handler is a run with its reads and writes   *)
(* as separate steps.  Documents and the details of the beneficiary are    *)
(* named by the run that wrote them.  The rows and the properties are in   *)
(* ClearanceRows.                                                          *)
(*                                                                         *)
(* Definitions that are not used are wrong variants of the ones that       *)
(* follow (see Payments).                                                  *)
(***************************************************************************)
EXTENDS Naturals, FiniteSets, FiniteSetsExt, ClearanceRows

CONSTANTS
    Request,  \* handler runs, each used once
    Seed,     \* the run before them
    Amount,   \* in thousandths of the currency
    Over

VARIABLES
    recent,  \* payments of the last 24 hours that count
    reqs,
    sums     \* the total a submission found

identity == <<kyc, expiry, application, crossed, uploaded, risky>>
screening == <<beneficiary, jobs, screened, lost>>
amounts == <<recent, sums, above, overtaken>>
vars == <<identity, screening, amounts, reqs>>

Id == Request \cup {Seed}

KycStatus == {"pending", "approved", "rejected", "expired"}
Application == [status: {"pending", "submitted", "approved", "rejected"},
                docs: SUBSET Id]
Beneficiary == [status: {"pending", "clear", "flagged", "blocked"},
                details: Id, active: BOOLEAN]
Payment == [id: Id, amount: Amount,
            status: {"processing", "pending_approval", "pending_compliance"}]
Op == {"initiate", "upload", "approve", "reject", "submit", "edit", "delete"}
Pc == {"create", "document", "decide", "expire", "check", "aml", "insert", "write"}
Run == [op: Op, pc: Pc, docs: SUBSET Id, amount: Amount \cup {0}]

ASSUME ClearanceAssumption ==
    /\ IsFiniteSet(Request) /\ Seed \notin Request
    /\ Amount \subseteq Nat \ {0}
    /\ None # Over /\ None \notin Run \cup Application \cup Beneficiary \cup Id
    /\ Over \notin Run

TypeOK ==
    /\ kyc \in KycStatus /\ expiry \in {"none", "ahead", "past"}
    /\ application \in Application \cup {None}
    /\ beneficiary \in Beneficiary \cup {None}
    /\ jobs \in Nat /\ recent \subseteq Payment
    /\ reqs \in [Request -> Run \cup {None, Over}]
    /\ sums \in [Request -> Nat]
    /\ crossed \subseteq {"upload", "guard"}
    /\ uploaded \subseteq Id /\ risky \subseteq Id
    /\ screened \in Id \cup {None} /\ lost \in BOOLEAN
    /\ above \subseteq Id /\ overtaken \subseteq Request

\* A user who has just come, or one who was approved; a seeded beneficiary was
\* entered by hand.  Seeded users with an approval and no application are left
\* out.
Init ==
    /\ \/ kyc = "pending" /\ expiry = "none" /\ application = None
       \/ /\ kyc = "approved" /\ expiry = "ahead"
          /\ application = [status |-> "approved", docs |-> {Seed}]
    /\ beneficiary \in {None, [status |-> "flagged", details |-> Seed, active |-> TRUE]}
    /\ jobs = 0 /\ reqs = [r \in Request |-> None] /\ sums = [r \in Request |-> 0]
    /\ recent \in {{}} \cup {{[id |-> Seed, amount |-> a, status |-> "processing"]} : a \in Amount}
    /\ crossed = {} /\ uploaded = {} /\ risky = {}
    /\ screened = None /\ lost = FALSE /\ above = {} /\ overtaken = {}

----------------------------------------------------------------------------
Running(r) == reqs[r] \notin {None, Over}

At(r, pc) == Running(r) /\ reqs[r].pc = pc

GoTo(r, pc) == reqs' = [reqs EXCEPT ![r].pc = pc]

End(r) == reqs' = [reqs EXCEPT ![r] = Over]

Begin(r, op, pc, docs, amount) ==
    /\ reqs[r] = None
    /\ reqs' = [reqs EXCEPT ![r] = [op |-> op, pc |-> pc, docs |-> docs,
                                    amount |-> amount]]

----------------------------------------------------------------------------
(* The identity check.                                                     *)

\* initiateKyc: the insert of a second application fails on the unique index.
InitiateKyc(r) ==
    /\ application = None
    /\ Begin(r, "initiate", "create", {}, 0)
    /\ UNCHANGED <<identity, screening, amounts>>

CreateKyc(r) ==
    /\ At(r, "create")
    /\ application' = IF application = None THEN [status |-> "pending", docs |-> {}]
                                            ELSE application
    /\ End(r)
    /\ UNCHANGED <<kyc, expiry, crossed, uploaded, risky, screening, amounts>>

UploadKycDocument(r) ==
    /\ application # None /\ application.status # "approved"
    /\ Begin(r, "upload", "document", application.docs, 0)
    /\ UNCHANGED <<identity, screening, amounts>>

ReplaceDocument(r) ==
    /\ At(r, "document")
    /\ application' = [status |-> "submitted", docs |-> {r}]
    /\ crossed' = IF application.status = "approved" THEN crossed \cup {"upload"} ELSE crossed
    /\ uploaded' = uploaded \cup {r}
    /\ risky' = IF \E q \in Request \ {r} : At(q, "document") THEN risky \cup {r} ELSE risky
    /\ End(r)
    /\ UNCHANGED <<kyc, expiry, screening, amounts>>
WriteDocument(r) ==
    /\ At(r, "document")
    /\ application' = [status |-> "submitted", docs |-> reqs[r].docs \cup {r}]
    /\ crossed' = IF application.status = "approved" THEN crossed \cup {"upload"} ELSE crossed
    /\ uploaded' = uploaded \cup {r}
    /\ risky' = IF \E q \in Request \ {r} : At(q, "document") THEN risky \cup {r} ELSE risky
    /\ End(r)
    /\ UNCHANGED <<kyc, expiry, screening, amounts>>

\* Only an approval is refused for an approved application.
ApproveKyc(r) ==
    /\ application # None /\ application.status # "approved"
    /\ Begin(r, "approve", "decide", {}, 0)
    /\ UNCHANGED <<identity, screening, amounts>>

RejectKyc(r) ==
    /\ application # None
    /\ Begin(r, "reject", "decide", {}, 0)
    /\ UNCHANGED <<identity, screening, amounts>>

\* One transaction writes the user and the application.
WriteApproval(r) ==
    /\ At(r, "decide") /\ reqs[r].op = "approve"
    /\ kyc' = "approved" /\ expiry' = "ahead"
    /\ application' = [application EXCEPT !.status = "approved"]
    /\ crossed' = {}
    /\ End(r)
    /\ UNCHANGED <<uploaded, risky, screening, amounts>>

RejectUserOnly(r) ==
    /\ At(r, "decide") /\ reqs[r].op = "reject"
    /\ kyc' = "rejected"
    /\ crossed' = {}
    /\ End(r)
    /\ UNCHANGED <<expiry, application, uploaded, risky, screening, amounts>>
WriteRejection(r) ==
    /\ At(r, "decide") /\ reqs[r].op = "reject"
    /\ kyc' = "rejected"
    /\ application' = [application EXCEPT !.status = "rejected"]
    /\ crossed' = {}
    /\ End(r)
    /\ UNCHANGED <<expiry, uploaded, risky, screening, amounts>>

\* Two years later.
Lapse ==
    /\ expiry = "ahead"
    /\ expiry' = "past"
    /\ UNCHANGED <<kyc, application, crossed, uploaded, risky, screening, amounts, reqs>>

\* kycGuard before a submission; executions of a schedule do not pass it.
Submit(r) ==
    /\ \E a \in Amount :
         \/ kyc = "approved" /\ expiry = "past" /\ Begin(r, "submit", "expire", {}, a)
         \/ kyc = "approved" /\ expiry # "past" /\ Begin(r, "submit", "check", {}, a)
    /\ UNCHANGED <<identity, screening, amounts>>

SubmitScheduled(r) ==
    /\ \E a \in Amount : Begin(r, "submit", "check", {}, a)
    /\ UNCHANGED <<identity, screening, amounts>>

Expire(r) ==
    /\ At(r, "expire")
    /\ kyc' = "expired"
    /\ crossed' = IF kyc = "approved" /\ expiry = "past" THEN crossed
                                                         ELSE crossed \cup {"guard"}
    /\ End(r)
    /\ UNCHANGED <<expiry, application, uploaded, risky, screening, amounts>>

----------------------------------------------------------------------------
(* The beneficiary.                                                        *)

\* enqueueScreening; an error of the queue is swallowed.
Enqueue ==
    \/ jobs' = jobs + 1 /\ UNCHANGED lost
    \/ lost' = TRUE /\ UNCHANGED jobs

CreateBeneficiary(r) ==
    /\ beneficiary = None /\ reqs[r] = None
    /\ beneficiary' = [status |-> "pending", details |-> r, active |-> TRUE]
    /\ Enqueue
    /\ End(r)
    /\ UNCHANGED <<identity, screened, amounts>>

\* updateBeneficiary and deleteBeneficiary find the row first.
FindBeneficiary(r) ==
    /\ beneficiary # None /\ beneficiary.active
    /\ \E op \in {"edit", "delete"} : Begin(r, op, "write", {}, 0)
    /\ UNCHANGED <<identity, screening, amounts>>

\* An edit without changes is screened again too.
\* The row and then the job: a crash in between is the branch that loses the job.
UpdateKeepsStatus(r) ==
    /\ At(r, "write") /\ reqs[r].op = "edit"
    /\ IF beneficiary.active
       THEN /\ beneficiary' = [beneficiary EXCEPT !.details = r]
            /\ Enqueue
       ELSE UNCHANGED <<beneficiary, jobs, lost>>
    /\ End(r)
    /\ UNCHANGED <<identity, screened, amounts>>
UpdateBeneficiary(r) ==
    /\ At(r, "write") /\ reqs[r].op = "edit"
    /\ IF beneficiary.active
       THEN /\ \/ UNCHANGED beneficiary
               \/ beneficiary' = [beneficiary EXCEPT !.status = "pending", !.details = r]
            /\ Enqueue
       ELSE UNCHANGED <<beneficiary, jobs, lost>>
    /\ End(r)
    /\ UNCHANGED <<identity, screened, amounts>>

SoftDelete(r) ==
    /\ At(r, "write") /\ reqs[r].op = "delete"
    /\ beneficiary' = [beneficiary EXCEPT !.active = FALSE]
    /\ End(r)
    /\ UNCHANGED <<identity, jobs, screened, lost, amounts>>

\* beneficiary.screen; a job that was not acknowledged runs again.
Screen ==
    /\ jobs > 0
    /\ beneficiary' = [beneficiary EXCEPT !.status = "clear"]
    /\ screened' = beneficiary.details
    /\ jobs' \in {jobs, jobs - 1}
    /\ UNCHANGED <<identity, lost, amounts, reqs>>

\* Both attempts failed.
ScreeningFails ==
    /\ jobs > 0
    /\ jobs' = jobs - 1
    /\ lost' = TRUE
    /\ UNCHANGED <<identity, beneficiary, screened, amounts, reqs>>

----------------------------------------------------------------------------
(* The amount.                                                             *)

\* getBeneficiaryOrThrow refuses nothing but a blocked beneficiary.
CheckBeneficiary(r) ==
    /\ At(r, "check")
    /\ IF /\ beneficiary # None
          /\ beneficiary.active
          /\ beneficiary.status # "blocked"
       THEN GoTo(r, "aml")
       ELSE End(r)
    /\ UNCHANGED <<identity, screening, amounts>>

Thousand == 1000 * 1000

\* runAmlChecks; no check blocks.
FlaggedSoFar(amount, total) ==
    \/ amount > 25 * Thousand
    \/ total > 50 * Thousand
    \/ amount % Thousand = 0 /\ amount >= 10 * Thousand
Flagged(amount, total) ==
    \/ amount > 25 * Thousand
    \/ total + amount > 50 * Thousand
    \/ amount % Thousand = 0 /\ amount >= 10 * Thousand

\* The rules every tenant is seeded with, by priority.
Rules == << [min |-> 0,             max |-> Thousand - 10,      approvals |-> 0],
            [min |-> Thousand,      max |-> 50 * Thousand - 10, approvals |-> 1],
            [min |-> 50 * Thousand, max |-> None,               approvals |-> 2] >>

Matching(amount) ==
    {i \in 1..3 : amount >= Rules[i].min /\ (Rules[i].max = None \/ amount <= Rules[i].max)}

\* resolveApprovalRule: amounts between two rules take the default.
Approvals(amount) ==
    IF Matching(amount) = {} THEN 1
    ELSE Rules[CHOOSE i \in Matching(amount) : \A j \in Matching(amount) : i <= j].approvals

InitialStatus(amount, total) ==
    IF Flagged(amount, total) THEN "pending_compliance"
    ELSE IF Approvals(amount) = 0 THEN "processing"
    ELSE "pending_approval"

Total == MapThenSumSet(LAMBDA p : p.amount, recent)

\* sumPayments24h.
RunAmlChecks(r) ==
    /\ At(r, "aml")
    /\ sums' = [sums EXCEPT ![r] = Total]
    /\ GoTo(r, "insert")
    /\ UNCHANGED <<identity, screening, recent, above, overtaken>>

InsertPayment(r) ==
    /\ At(r, "insert")
    /\ LET amount == reqs[r].amount
           status == InitialStatus(amount, sums[r]) IN
         /\ recent' = recent \cup {[id |-> r, amount |-> amount, status |-> status]}
         /\ above' = IF Total + amount > 50 * Thousand /\ status # "pending_compliance"
                     THEN above \cup {r} ELSE above
    /\ overtaken' = overtaken \cup {q \in Request \ {r} : At(q, "insert")}
    /\ sums' = [sums EXCEPT ![r] = 0]
    /\ End(r)
    /\ UNCHANGED <<identity, screening>>

\* A payment fails, is refused or cancelled, or is a day old.  One that a stale
\* write brings back into the sum (see Payments) is left out.
Leave(p) ==
    /\ recent' = recent \ {p}
    /\ UNCHANGED <<identity, screening, sums, above, overtaken, reqs>>

Crash ==
    /\ \E r \in Request : Running(r)
    /\ reqs' = [r \in Request |-> IF Running(r) THEN Over ELSE reqs[r]]
    /\ sums' = [r \in Request |-> 0]
    /\ UNCHANGED <<identity, screening, recent, above, overtaken>>

Next ==
    \/ \E r \in Request :
         \/ InitiateKyc(r) \/ CreateKyc(r) \/ UploadKycDocument(r) \/ WriteDocument(r)
         \/ ApproveKyc(r) \/ RejectKyc(r) \/ WriteApproval(r) \/ WriteRejection(r)
         \/ Submit(r) \/ SubmitScheduled(r) \/ Expire(r)
         \/ CreateBeneficiary(r) \/ FindBeneficiary(r) \/ UpdateBeneficiary(r)
         \/ SoftDelete(r) \/ CheckBeneficiary(r) \/ RunAmlChecks(r) \/ InsertPayment(r)
    \/ Lapse \/ Screen \/ ScreeningFails \/ Crash
    \/ \E p \in recent : Leave(p)

Spec == Init /\ [][Next]_vars
=============================================================================
