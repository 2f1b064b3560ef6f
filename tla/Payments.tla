------------------------------ MODULE Payments ------------------------------
(***************************************************************************)
(* The life of a payment in remitx-api: its row and status history, the    *)
(* ledger entries that carry its id, the HTTP requests that move it        *)
(* (payments, compliance and admin services), the payment-queue worker     *)
(* that dispatches it, and the webhook-queue worker that hears about it.   *)
(*                                                                         *)
(* Every HTTP handler reads the row with a plain SELECT, decides, and      *)
(* later writes it in a transaction whose UPDATE is keyed by id only; the  *)
(* event loop runs other handlers between the two.  A handler is therefore *)
(* a Begin step (the read and all its early returns) and a Commit step.    *)
(* The workers await in the same way and are split at the same points.     *)
(* A handler that returns early changes nothing and has no step.           *)
(*                                                                         *)
(* Some definitions are preceded by a wrong variant of themselves, named   *)
(* for the bug it is (CheckerMayRepeat, EveryFailureIsFinal, ...). Nothing *)
(* uses the variants; PROJECT.json lists which property each one breaks    *)
(* when it is put in the place of the right one.                           *)
(***************************************************************************)
EXTENDS Naturals, FiniteSets

CONSTANTS
    Payment,           \* payment ids, one per idempotency key
    User,              \* everybody who can call the API
    Maker,             \* the users who submit payments
    SuperAdmin,        \* the users whose role is super_admin
    Handler,           \* HTTP requests that can be in flight at once
    Event,             \* provider webhook events, [id, payment, type, route]
    Seeded,            \* payments db/seeds/05 may have put in the manual queue
    SourceAmount,      \* payments.source_amount
    FeeAmount,         \* payments.fee_amount
    DispatchAttempts,  \* attempts of a payment.dispatch job (3 in the code)
    WebhookAttempts,   \* attempts of a webhook.process job (5 in the code)
    LossyProvider,     \* may a payout be accepted although the call throws
    MaxCrashes,        \* bound: how often the process dies and restarts
    None,              \* SQL NULL, and an idle handler or worker
    System             \* actor_type 'system'

Status == {"pending_approval", "pending_compliance",
           "pending_manual_processing", "processing",
           "completed", "failed", "rejected", "cancelled"}

\* TRANSITIONS of payments.stateMachine.js.
Transitions ==
    [s \in Status |->
        CASE s = "pending_approval" ->
                {"processing", "pending_compliance",
                 "pending_manual_processing", "rejected", "cancelled"}
          [] s = "pending_compliance" ->
                {"processing", "pending_manual_processing",
                 "rejected", "cancelled"}
          [] s = "pending_manual_processing" ->
                {"completed", "failed", "cancelled"}
          [] s = "processing" -> {"completed", "failed"}
          [] OTHER -> {}]

CanMove(from, to) == from \in Status /\ to \in Transitions[from]
Terminal == {s \in Status : Transitions[s] = {}}

\* approval_rules: auto-approve, one checker, or two checkers.
Rule == {"auto", "single", "dual"}

Row == [status: Status \cup {"none"}, user_id: User \cup {None},
        checker_id: User \cup {None}, rule: Rule,
        provider_name: {"manual", "external"},
        provider_payment_id: {"none", "manual", "external"}]

\* A row of payment_status_history; note stands for its notes column.
Note == {"submitted", "first approval", "approved", "rejected", "cancelled",
         "cleared", "blocked", "ops", "dispatched", "permanent failure",
         "webhook"}
HistoryRow == [status: Status, actor: User \cup {System}, note: Note]

\* The writes a request may be about to make once it has read the row.
Op == {"first approval", "approve", "reject", "cancel",
       "clear", "block", "complete", "fail"}
Call == [op: Op, payment: Payment, user: User]

\* entry names the debit the job pays out: the ledger total it produced.
Job == [payment: Payment, entry: Nat, tries: 0 .. DispatchAttempts]
Hook == [event: Event, tries: 0 .. WebhookAttempts]

ASSUME ConstantsAssumption ==
    /\ Maker \subseteq User /\ SuperAdmin \subseteq User
    /\ Seeded \subseteq Payment
    /\ SourceAmount \in Nat \ {0} /\ FeeAmount \in Nat
    /\ DispatchAttempts \in Nat \ {0} /\ WebhookAttempts \in Nat \ {0}
    /\ MaxCrashes \in Nat /\ LossyProvider \in BOOLEAN
    /\ None \notin User /\ System \notin User
    /\ None \notin Call
    /\ \A e \in Event : /\ e.payment \in Payment
                        /\ e.type \in {"completed", "failed"}
                        /\ e.route \in {"zoqq", "generic"}

VARIABLES
    payments,    \* table payments
    history,     \* table payment_status_history, as a set per payment
    ledger,      \* sums of the ledger_entries that carry the payment's id
    requests,    \* HTTP requests between their read and their transaction
    jobs,        \* payment-queue: waiting or active dispatch jobs
    worker,      \* the payment worker (concurrency 1)
    failures,    \* running handlePermanentFailure calls
    hooks,       \* webhook-queue: waiting or active events
    hookWorker,  \* the webhook worker (concurrency 1)
    seen,        \* redis keys webhook:<provider>:<eventId>
    payouts,     \* payments the external provider has accepted for payout
    crashes      \* how often the process has died

dbVars    == <<payments, history, ledger>>
queueVars == <<jobs, worker, failures>>
hookVars  == <<hooks, hookWorker, seen>>
envVars   == <<payouts, crashes>>
vars == <<dbVars, requests, queueVars, hookVars, envVars>>

IdleWorker     == [pc |-> "idle", job |-> None]
IdleHookWorker == [pc |-> "idle", hook |-> None]

TypeOK ==
    /\ payments \in [Payment -> Row]
    /\ history \in [Payment -> SUBSET HistoryRow]
    /\ ledger \in [Payment -> [debit: Nat, credit: Nat]]
    /\ requests \in [Handler -> Call \cup {None}]
    /\ jobs \subseteq Job
    /\ worker \in [pc: {"idle", "manual", "external", "commit"},
                   job: Job \cup {None}]
    /\ worker.pc # "idle" => worker.job \in Job
    /\ failures \subseteq [payment: Payment, entry: Nat,
                           pc: {"read", "commit"}]
    /\ hooks \subseteq Hook
    /\ hookWorker \in [pc: {"idle", "read", "commit"}, hook: Hook \cup {None}]
    /\ hookWorker.pc # "idle" => hookWorker.hook \in Hook
    /\ seen \subseteq Event
    /\ payouts \subseteq Payment
    /\ crashes \in 0 .. MaxCrashes

----------------------------------------------------------------------------
NoRow == [status |-> "none", user_id |-> None, checker_id |-> None,
          rule |-> "single", provider_name |-> "manual",
          provider_payment_id |-> "none"]

\* db/seeds/05 writes rows that are already in the manual queue; no code
\* path of the program puts one there.
SeededRow(u) == [NoRow EXCEPT !.status = "pending_manual_processing",
                              !.user_id = u]

Init ==
    /\ \E u \in Maker, loaded \in SUBSET Seeded :
         /\ payments = [p \in Payment |-> IF p \in loaded THEN SeededRow(u)
                                                           ELSE NoRow]
         /\ history = [p \in Payment |->
                         IF p \in loaded
                         THEN {[status |-> "pending_manual_processing",
                                actor |-> System, note |-> "submitted"]}
                         ELSE {}]
    /\ ledger = [p \in Payment |-> [debit |-> 0, credit |-> 0]]
    /\ requests = [h \in Handler |-> None]
    /\ jobs = {} /\ worker = IdleWorker /\ failures = {}
    /\ hooks = {} /\ hookWorker = IdleHookWorker
    /\ seen = {}
    /\ payouts = {} /\ crashes = 0

----------------------------------------------------------------------------
(* What the transactions write.                                            *)

SetStatus(p, s) == payments' = [payments EXCEPT ![p].status = s]

Record(p, s, actor, note) ==
    history' = [history EXCEPT ![p] =
                   @ \cup {[status |-> s, actor |-> actor, note |-> note]}]

\* debitAccount takes amount and fee; creditAccount is always called with
\* source_amount alone.
Debit(p)  == ledger' = [ledger EXCEPT ![p].debit =
                                          @ + (SourceAmount + FeeAmount)]
Credit(p) == ledger' = [ledger EXCEPT ![p].credit = @ + SourceAmount]

\* enqueueDispatch after the commit: the add may fail silently
\* (.catch(() => {})), and a crash before it loses it too.
EnqueueDispatch(p) ==
    \/ jobs' = jobs \cup {[payment |-> p, entry |-> ledger'[p].debit,
                           tries |-> 0]}
    \/ UNCHANGED jobs

----------------------------------------------------------------------------
(* payments.service.submitPayment: the transaction that creates the row.   *)
(* What it reads before (idempotency key, quote, balance) only decides     *)
(* whether the transaction runs; the AML verdict and the approval rule     *)
(* are nondeterministic.                                                   *)

InitialStatus(rule, flagged) ==
    IF flagged THEN "pending_compliance"
    ELSE IF rule = "auto" THEN "processing" ELSE "pending_approval"

Submit(p) ==
    \E u \in Maker, rule \in Rule, flagged \in BOOLEAN,
       provider \in {"manual", "external"} :
      LET s == InitialStatus(rule, flagged) IN
      /\ payments[p].status = "none"
      /\ payments' = [payments EXCEPT ![p] =
             [NoRow EXCEPT !.status = s, !.user_id = u, !.rule = rule,
                           !.provider_name = provider]]
      /\ Record(p, s, u, "submitted")
      /\ \/ s = "processing" /\ Debit(p) /\ EnqueueDispatch(p)
         \/ s # "processing" /\ UNCHANGED <<ledger, jobs>>
      /\ UNCHANGED <<requests, worker, failures, hookVars, envVars>>

----------------------------------------------------------------------------
(* The reads of the HTTP handlers: each takes a free handler and passes    *)
(* every check the code makes on the row it read.                          *)

Begin(h, op, p, u) ==
    /\ requests[h] = None
    /\ requests' = [requests EXCEPT ![h] =
                       [op |-> op, payment |-> p, user |-> u]]
    /\ UNCHANGED <<dbVars, queueVars, hookVars, envVars>>

IsFirstApproval(p) == payments[p].rule = "dual" /\ payments[p].checker_id = None

MayCheck(p, u) == payments[p].user_id # u \/ u \in SuperAdmin

CheckerMayRepeat(p, u)  == TRUE
IsNewChecker(p, u) == payments[p].checker_id # u

BeginApprove(h, p, u) ==
    /\ CanMove(payments[p].status, "processing")
    /\ MayCheck(p, u)
    /\ \/ IsFirstApproval(p) /\ Begin(h, "first approval", p, u)
       \/ /\ ~IsFirstApproval(p)
          /\ IsNewChecker(p, u)
          /\ Begin(h, "approve", p, u)

BeginReject(h, p, u) ==
    /\ CanMove(payments[p].status, "rejected")
    /\ Begin(h, "reject", p, u)

CancelsWhileProcessing(p, u) ==
    /\ CanMove(payments[p].status, "cancelled") \/ payments[p].status = "processing"
    /\ payments[p].user_id = u
MayCancel(p, u) ==
    /\ CanMove(payments[p].status, "cancelled")
    /\ payments[p].user_id = u

BeginCancel(h, p, u) == MayCancel(p, u) /\ Begin(h, "cancel", p, u)

\* compliance.service: clearPayment and blockPayment.
ReviewsAnything(p) == payments[p].status # "none"
MayReview(p) == payments[p].status = "pending_compliance"

BeginReview(h, p, u) ==
    /\ MayReview(p)
    /\ Begin(h, "clear", p, u) \/ Begin(h, "block", p, u)

\* admin.service.processPayment on the manual queue.
ProcessesAnything(p) == payments[p].status # "none"
MayProcess(p) == payments[p].status = "pending_manual_processing"

BeginProcess(h, p, u) ==
    /\ MayProcess(p)
    /\ Begin(h, "complete", p, u) \/ Begin(h, "fail", p, u)

BeginRequest(h) ==
    \E p \in Payment, u \in User :
        \/ BeginApprove(h, p, u) \/ BeginReject(h, p, u)
        \/ BeginCancel(h, p, u) \/ BeginReview(h, p, u)
        \/ BeginProcess(h, p, u)

----------------------------------------------------------------------------
(* The transactions of the HTTP handlers.                                  *)

Finish(h) == requests' = [requests EXCEPT ![h] = None]

CommitFirstApproval(h) ==
    LET c == requests[h] IN
    /\ c # None /\ c.op = "first approval"
    /\ payments' = [payments EXCEPT ![c.payment].checker_id = c.user]
    /\ Record(c.payment, "pending_approval", c.user, "first approval")
    /\ Finish(h)
    /\ UNCHANGED <<ledger, queueVars, hookVars, envVars>>

CommitApprove(h) ==
    LET c == requests[h] IN
    /\ c # None /\ c.op = "approve"
    /\ payments' = [payments EXCEPT ![c.payment].status = "processing",
                                    ![c.payment].checker_id = c.user]
    /\ Record(c.payment, "processing", c.user, "approved")
    /\ Debit(c.payment)
    /\ EnqueueDispatch(c.payment)
    /\ Finish(h)
    /\ UNCHANGED <<worker, failures, hookVars, envVars>>

\* INSUFFICIENT_BALANCE from debitAccount rolls the transaction back, and the
\* throw leaves the handler before enqueueDispatch.
DispatchesAnyway(h) ==
    /\ requests[h] # None /\ requests[h].op = "approve"
    /\ Finish(h)
    /\ jobs' = jobs \cup {[payment |-> requests[h].payment, entry |-> 0, tries |-> 0]}
    /\ UNCHANGED <<dbVars, worker, failures, hookVars, envVars>>
AbortApprove(h) ==
    /\ requests[h] # None /\ requests[h].op = "approve"
    /\ Finish(h)
    /\ UNCHANGED <<dbVars, queueVars, hookVars, envVars>>

\* Reject, cancel, clear and block write the status and its history row:
\* no ledger entry, no job.
StoresTheVerb(op) ==
    CASE op = "clear" -> "cleared"
      [] op = "block" -> "blocked"
      [] OTHER -> "rejected"
ReviewStatus(op) ==
    CASE op = "clear" -> "processing"
      [] op = "cancel" -> "cancelled"
      [] OTHER -> "rejected"
ReviewNote(op) ==
    CASE op = "clear" -> "cleared"
      [] op = "cancel" -> "cancelled"
      [] op = "block" -> "blocked"
      [] OTHER -> "rejected"

CommitReview(h) ==
    LET c == requests[h] IN
    /\ c # None /\ c.op \in {"reject", "cancel", "clear", "block"}
    /\ SetStatus(c.payment, ReviewStatus(c.op))
    /\ Record(c.payment, ReviewStatus(c.op), c.user, ReviewNote(c.op))
    /\ Finish(h)
    /\ UNCHANGED <<ledger, queueVars, hookVars, envVars>>

CommitComplete(h) ==
    LET c == requests[h] IN
    /\ c # None /\ c.op = "complete"
    /\ \E ref \in {"none", "manual", "external"} :
         payments' = [payments EXCEPT ![c.payment].status = "completed",
                                      ![c.payment].provider_payment_id = ref]
    /\ Record(c.payment, "completed", c.user, "ops")
    /\ Finish(h)
    /\ UNCHANGED <<ledger, queueVars, hookVars, envVars>>

CommitFail(h) ==
    LET c == requests[h] IN
    /\ c # None /\ c.op = "fail"
    /\ SetStatus(c.payment, "failed")
    /\ Record(c.payment, "failed", c.user, "ops")
    /\ Credit(c.payment)
    /\ Finish(h)
    /\ UNCHANGED <<queueVars, hookVars, envVars>>

CommitRequest(h) ==
    \/ CommitFirstApproval(h) \/ CommitApprove(h) \/ AbortApprove(h)
    \/ CommitReview(h) \/ CommitComplete(h) \/ CommitFail(h)

----------------------------------------------------------------------------
(* payment.worker: processDispatch and handlePermanentFailure.             *)

\* A job whose payment is not in 'processing' is skipped, and done.
DispatchSkip(j) ==
    /\ worker.pc = "idle"
    /\ payments[j.payment].status # "processing"
    /\ jobs' = jobs \ {j}
    /\ UNCHANGED <<dbVars, requests, worker, failures, hookVars, envVars>>

DispatchRead(j) ==
    /\ worker.pc = "idle"
    /\ payments[j.payment].status = "processing"
    /\ worker' = [pc |-> payments[j.payment].provider_name, job |-> j]
    /\ UNCHANGED <<dbVars, requests, jobs, failures, hookVars, envVars>>

DispatchManual ==
    LET j == worker.job IN
    /\ worker.pc = "manual"
    /\ payments' = [payments EXCEPT ![j.payment].status = "completed",
                                    ![j.payment].provider_payment_id = "manual"]
    /\ Record(j.payment, "completed", System, "dispatched")
    /\ jobs' = jobs \ {j}
    /\ worker' = IdleWorker
    /\ UNCHANGED <<ledger, requests, failures, hookVars, envVars>>

EveryFailureIsFinal(j) == TRUE
AttemptsExhausted(j) == j.tries + 1 >= DispatchAttempts

\* The job throws.  BullMQ counts the attempt and puts the job back while
\* attempts are left; the 'failed' listener fires every time, runs on its own,
\* and goes on to handlePermanentFailure when it finds them exhausted.
JobThrows ==
    LET j == worker.job
        rest == jobs \ {j} IN
    /\ worker' = IdleWorker
    /\ jobs' = IF j.tries + 1 >= DispatchAttempts THEN rest
               ELSE rest \cup {[j EXCEPT !.tries = @ + 1]}
    /\ failures' = IF AttemptsExhausted(j)
                   THEN failures \cup {[payment |-> j.payment,
                                        entry |-> j.entry, pc |-> "read"]}
                   ELSE failures

\* resolveProvider, getQuote or provider.submitPayment throws.
ProviderError ==
    /\ worker.pc = "external"
    /\ JobThrows
    /\ \/ UNCHANGED payouts
       \/ LossyProvider /\ payouts' = payouts \cup {worker.job.payment}
    /\ UNCHANGED <<dbVars, requests, hookVars, crashes>>

\* The provider took the payout and reports anything but 'completed': the
\* worker asks for 'pending_manual_processing', which assertTransition refuses
\* from 'processing', so the job throws.
ProviderAccepts ==
    /\ worker.pc = "external"
    /\ ~CanMove("processing", "pending_manual_processing")
    /\ payouts' = payouts \cup {worker.job.payment}
    /\ JobThrows
    /\ UNCHANGED <<dbVars, requests, hookVars, crashes>>

ProviderCompletes ==
    /\ worker.pc = "external"
    /\ payouts' = payouts \cup {worker.job.payment}
    /\ worker' = [worker EXCEPT !.pc = "commit"]
    /\ UNCHANGED <<dbVars, requests, jobs, failures, hookVars, crashes>>

DispatchCommit ==
    LET j == worker.job IN
    /\ worker.pc = "commit"
    /\ payments' = [payments EXCEPT ![j.payment].status = "completed",
                                    ![j.payment].provider_payment_id = "external"]
    /\ Record(j.payment, "completed", System, "dispatched")
    /\ jobs' = jobs \ {j}
    /\ worker' = IdleWorker
    /\ UNCHANGED <<ledger, requests, failures, hookVars, envVars>>

GivesUpOnProcessing(p) == payments[p].status \in {"failed", "processing"}
AlreadyFailed(p) == payments[p].status = "failed"

FailureRead(f) ==
    /\ f.pc = "read"
    /\ failures' = IF AlreadyFailed(f.payment)
                   THEN failures \ {f}
                   ELSE (failures \ {f}) \cup {[f EXCEPT !.pc = "commit"]}
    /\ UNCHANGED <<dbVars, requests, jobs, worker, hookVars, envVars>>

FailureCommit(f) ==
    /\ f.pc = "commit"
    /\ SetStatus(f.payment, "failed")
    /\ Record(f.payment, "failed", System, "permanent failure")
    /\ Credit(f.payment)
    /\ failures' = failures \ {f}
    /\ UNCHANGED <<requests, jobs, worker, hookVars, envVars>>

WorkerStep ==
    \/ \E j \in jobs : DispatchSkip(j) \/ DispatchRead(j)
    \/ DispatchManual
    \/ ProviderError \/ ProviderAccepts \/ ProviderCompletes
    \/ DispatchCommit

FailureStep == \E f \in failures : FailureRead(f) \/ FailureCommit(f)

----------------------------------------------------------------------------
(* app.js webhook endpoints and webhook.worker.processWebhook.             *)

\* Providers deliver at least once, so an event may be posted again.  The Zoqq
\* endpoint finds the payment by provider_payment_id and otherwise only
\* acknowledges; the generic endpoints take the payment id from the body.  The
\* key of an event lives for a day: when the event is posted again it may be gone.
PostWebhook(e) ==
    /\ payments[e.payment].status # "none"
    /\ e.route = "zoqq" => payments[e.payment].provider_payment_id = "external"
    /\ \A k \in hooks : k.event # e
    /\ hooks' = hooks \cup {[event |-> e, tries |-> 0]}
    /\ seen' \in {seen, seen \ {e}}
    /\ UNCHANGED <<dbVars, requests, queueVars, hookWorker, envVars>>

\* SET key NX: an event whose key exists is skipped.
HookSkip(k) ==
    /\ hookWorker.pc = "idle" /\ k.event \in seen
    /\ hooks' = hooks \ {k}
    /\ UNCHANGED <<dbVars, requests, queueVars, hookWorker, seen, envVars>>

HookTake(k) ==
    /\ hookWorker.pc = "idle" /\ k.event \notin seen
    /\ seen' = seen \cup {k.event}
    /\ hookWorker' = [pc |-> "read", hook |-> k]
    /\ UNCHANGED <<dbVars, requests, queueVars, hooks, envVars>>

HookAccept ==
    LET e == hookWorker.hook.event IN
    /\ hookWorker.pc = "read"
    /\ CanMove(payments[e.payment].status, e.type)
    /\ hookWorker' = [hookWorker EXCEPT !.pc = "commit"]
    /\ UNCHANGED <<dbVars, requests, queueVars, hooks, seen, envVars>>

\* assertTransition throws: the job is retried until its attempts run out.
HookRefuse ==
    LET k == hookWorker.hook
        rest == hooks \ {k} IN
    /\ hookWorker.pc = "read"
    /\ ~CanMove(payments[k.event.payment].status, k.event.type)
    /\ hooks' = IF k.tries + 1 >= WebhookAttempts THEN rest
                ELSE rest \cup {[k EXCEPT !.tries = @ + 1]}
    /\ hookWorker' = IdleHookWorker
    /\ UNCHANGED <<dbVars, requests, queueVars, seen, envVars>>

HookCommit ==
    LET k == hookWorker.hook
        e == k.event IN
    /\ hookWorker.pc = "commit"
    /\ SetStatus(e.payment, e.type)
    /\ Record(e.payment, e.type, System, "webhook")
    /\ IF e.type = "failed" THEN Credit(e.payment) ELSE UNCHANGED ledger
    /\ hooks' = hooks \ {k}
    /\ hookWorker' = IdleHookWorker
    /\ UNCHANGED <<requests, queueVars, seen, envVars>>

HookStep ==
    \/ \E k \in hooks : HookSkip(k) \/ HookTake(k)
    \/ HookAccept \/ HookRefuse \/ HookCommit

----------------------------------------------------------------------------
\* The process dies: requests and listeners in flight are gone; BullMQ finds
\* the active jobs stalled and hands them out again.
Crash ==
    /\ crashes < MaxCrashes
    /\ crashes' = crashes + 1
    /\ requests' = [h \in Handler |-> None]
    /\ worker' = IdleWorker
    /\ failures' = {}
    /\ hookWorker' = IdleHookWorker
    /\ UNCHANGED <<dbVars, jobs, hooks, seen, payouts>>

Next ==
    \/ \E p \in Payment : Submit(p)
    \/ \E h \in Handler : BeginRequest(h) \/ CommitRequest(h)
    \/ WorkerStep \/ FailureStep
    \/ \E e \in Event : PostWebhook(e)
    \/ HookStep
    \/ Crash

Spec == Init /\ [][Next]_vars

\* The payment worker keeps taking jobs and its 'failed' listener runs to its
\* end; callers, providers and crashes owe nothing.
Fairness == WF_vars(WorkerStep) /\ WF_vars(FailureStep)
FairSpec == Spec /\ Fairness

----------------------------------------------------------------------------
(* Properties.                                                             *)

\* Nothing is in flight that has already read p's row: no request, no active
\* job, no permanent-failure handler, no webhook past its status check.
Quiet(p) ==
    /\ \A h \in Handler : requests[h] # None => requests[h].payment # p
    /\ worker.pc # "idle" => worker.job.payment # p
    /\ \A f \in failures : f.payment # p
    /\ hookWorker.pc = "commit" => hookWorker.hook.event.payment # p

Debited(p) == ledger[p].debit >= SourceAmount + FeeAmount

Dispatched(p) ==
    \/ \E j \in jobs : j.payment = p
    \/ p \in payouts
    \/ \E r \in history[p] : r.note = "dispatched"

\* Whatever is on its way to the provider, or has been accepted by it or
\* completed by the worker, was paid for: the account was debited amount and
\* fee, in a transaction that committed, before the job existed.  Races between
\* approvals, aborted transactions, retries and crashes must not break it.
DispatchedWasDebited == \A p \in Payment : Dispatched(p) => Debited(p)

\* Its inductive form: also the job the worker has taken, which may no longer
\* be the one in the queue by the time its outcome is written.
DispatchInv ==
    /\ DispatchedWasDebited
    /\ worker.pc # "idle" => Debited(worker.job.payment)

Independent(p, u) == u # payments[p].user_id \/ u \in SuperAdmin

FourEyesOn(p) ==
    ledger[p].debit > 0 /\ payments[p].rule # "auto" =>
      \E b \in history[p] :
        /\ b.note = "approved" /\ Independent(p, b.actor)
        /\ payments[p].rule = "dual" =>
             \E a \in history[p] :
                /\ a.note = "first approval" /\ a.actor # b.actor
                /\ Independent(p, a.actor)

\* Maker-checker: money leaves the account for a payment under the two-checker
\* rule only after two different users have approved it, and under any rule
\* but auto-approve only after one has; none of them is its maker unless a
\* super_admin.  approvePayment decides from a row it read before another
\* approval committed, so this is about every interleaving of checkers.
FourEyes == \A p \in Payment : FourEyesOn(p)

RowJustified(p) ==
    /\ FourEyesOn(p)
    /\ payments[p].status = "none" => history[p] = {} /\ ledger[p].debit = 0
    /\ \A r \in history[p] : r.note \in {"first approval", "approved"} =>
          Independent(p, r.actor)
    /\ /\ payments[p].rule = "dual" /\ payments[p].checker_id # None
       /\ CanMove(payments[p].status, "processing")
       => \E a \in history[p] : /\ a.note = "first approval"
                                /\ a.actor = payments[p].checker_id

CallJustified(c) ==
    /\ payments[c.payment].status # "none"
    /\ c.op \in {"first approval", "approve"} => Independent(c.payment, c.user)
    /\ c.op = "approve" /\ payments[c.payment].rule = "dual" =>
          \E a \in history[c.payment] :
             a.note = "first approval" /\ a.actor # c.user

\* Why FourEyes holds: every approval that is recorded or in flight is
\* independent of the maker; while a payment can still be approved, the checker
\* its row names has a recorded first approval; and a final approval in flight
\* is by somebody else.
ApprovalInv ==
    /\ \A p \in Payment : RowJustified(p)
    /\ \A h \in Handler : requests[h] # None => CallJustified(requests[h])

\* A payment in a terminal status stays there, unless an operation that read
\* the row earlier is still in flight: once none is, no request, job, failure
\* handler or webhook gets past its status check any more.
TerminalIsFinalWhenQuiet ==
    [][\A p \in Payment :
          payments[p].status \in Terminal /\ Quiet(p) =>
              Quiet(p)' /\ payments'[p].status = payments[p].status]_vars

Noted(p, notes) == \E r \in history[p] : r.note \in notes

\* The books of a payment at rest that no webhook has touched: completed, it was
\* debited once, failed, also credited once, and one that was never approved has
\* no ledger entry at all.
SettledOn(p) ==
    LET s == payments[p].status
        book == ledger[p] IN
    Quiet(p) /\ ~Noted(p, {"webhook"}) =>
      /\ s = "completed" =>
           book = [debit |-> SourceAmount + FeeAmount, credit |-> 0]
      /\ s = "failed" =>
           book = [debit |-> SourceAmount + FeeAmount,
                   credit |-> SourceAmount]
      /\ s \in {"rejected", "cancelled",
                "pending_approval", "pending_compliance"} =>
           book = [debit |-> 0, credit |-> 0]

\* While requests do not overlap, but with retries, lost enqueues and crashes:
\* once nothing is in flight, the books of each payment agree with its status.
SettledBooks == \A p \in Payment : SettledOn(p)

\* Permanent failures give each debit back at most once, however approvals race
\* (two can both debit), however often dispatch is retried and whatever the
\* failure handlers that overlap have read.  Webhooks and operators credit
\* without looking for a debit, so a payment they touched is left out.
ReversedAtMostOnce ==
    \A p \in Payment :
        ~Noted(p, {"webhook", "ops"}) =>
            ledger[p].credit * (SourceAmount + FeeAmount)
                <= ledger[p].debit * SourceAmount

\* A payment whose dispatch job is queued while it is processing does not stay
\* there once the process stays up: the worker completes it or, attempts
\* exhausted, fails it.
DispatchSettles ==
    \A p \in Payment :
        (/\ crashes = MaxCrashes
         /\ payments[p].status = "processing" /\ \E j \in jobs : j.payment = p)
            ~> payments[p].status # "processing"

----------------------------------------------------------------------------
(* What a comment and a log message say and the code does not keep.        *)

\* payment.worker.js 'Reverse the debit': a payment that failed for good, with
\* nothing in flight, has got back what was taken.
ReversalRestoresDebit ==
    \A p \in Payment :
        Quiet(p) /\ (\E r \in history[p] : r.note = "permanent failure") =>
            ledger[p].credit = ledger[p].debit
=============================================================================
