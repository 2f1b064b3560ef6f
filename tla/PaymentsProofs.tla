--------------------------- MODULE PaymentsProofs ---------------------------
(***************************************************************************)
(* Proofs about module Payments, for every value of its constants.         *)
(***************************************************************************)
EXTENDS Payments, FiniteSetTheorems, TLAPS

USE ConstantsAssumption

----------------------------------------------------------------------------
(* Type correctness.                                                       *)

\* The three writes keep their tables well typed.
LEMMA SetStatusType ==
    ASSUME TypeOK, NEW p \in Payment, NEW s \in Status, SetStatus(p, s)
    PROVE  payments' \in [Payment -> Row]
<1>1. payments[p] \in Row
  BY DEF TypeOK
<1>2. [payments[p] EXCEPT !.status = s] \in Row
  BY <1>1 DEF Row
<1>3. payments' = [payments EXCEPT ![p] = [payments[p] EXCEPT !.status = s]]
  BY DEF SetStatus
<1> QED
  BY <1>2, <1>3 DEF TypeOK

LEMMA RecordType ==
    ASSUME TypeOK, NEW p \in Payment, NEW s \in Status,
           NEW actor \in User \cup {System}, NEW note \in Note,
           Record(p, s, actor, note)
    PROVE  history' \in [Payment -> SUBSET HistoryRow]
<1>1. [status |-> s, actor |-> actor, note |-> note] \in HistoryRow
  BY DEF HistoryRow
<1> QED
  BY <1>1 DEF TypeOK, Record

LEMMA DebitType ==
    ASSUME TypeOK, NEW p \in Payment, Debit(p)
    PROVE  /\ ledger' \in [Payment -> [debit: Nat, credit: Nat]]
           /\ ledger'[p].debit = ledger[p].debit + (SourceAmount + FeeAmount)
           /\ \A q \in Payment : ledger'[q].debit >= ledger[q].debit
BY DEF TypeOK, Debit

LEMMA CreditType ==
    ASSUME TypeOK, NEW p \in Payment, Credit(p)
    PROVE  /\ ledger' \in [Payment -> [debit: Nat, credit: Nat]]
           /\ \A q \in Payment : ledger'[q].debit = ledger[q].debit
BY DEF TypeOK, Credit

LEMMA EnqueueType ==
    ASSUME TypeOK, NEW p \in Payment, EnqueueDispatch(p),
           ledger' \in [Payment -> [debit: Nat, credit: Nat]]
    PROVE  jobs' \subseteq Job
<1>1. [payment |-> p, entry |-> ledger'[p].debit, tries |-> 0] \in Job
  BY DEF Job
<1> QED
  BY <1>1 DEF TypeOK, EnqueueDispatch

LEMMA InitType == Init => TypeOK
<1> SUFFICES ASSUME Init
             PROVE  TypeOK
  OBVIOUS
<1>1. NoRow \in Row
  BY DEF NoRow, Row, Rule
<1>2. ASSUME NEW u \in Maker
      PROVE  SeededRow(u) \in Row
  BY <1>1 DEF SeededRow, Row, Status
<1>3. payments \in [Payment -> Row]
  BY <1>1, <1>2 DEF Init
<1>4. history \in [Payment -> SUBSET HistoryRow]
  BY DEF Init, HistoryRow, Note, Status
<1> QED
  BY <1>3, <1>4 DEF Init, TypeOK, IdleWorker, IdleHookWorker

LEMMA SubmitType ==
    ASSUME TypeOK, NEW p \in Payment, Submit(p)
    PROVE  TypeOK'
<1>1. PICK u \in Maker, rule \in Rule, flagged \in BOOLEAN,
           provider \in {"manual", "external"} : Submit(p)!(u, rule, flagged, provider)
  BY DEF Submit
<1> DEFINE s == InitialStatus(rule, flagged)
<1>2. s \in Status
  BY DEF InitialStatus, Status
<1>3. payments' \in [Payment -> Row]
  BY <1>1, <1>2 DEF TypeOK, NoRow, Row
<1>4. history' \in [Payment -> SUBSET HistoryRow]
  BY <1>1, <1>2, RecordType DEF Note
<1>5. /\ ledger' \in [Payment -> [debit: Nat, credit: Nat]]
      /\ jobs' \subseteq Job
  BY <1>1, DebitType, EnqueueType DEF TypeOK
<1> QED
  BY <1>1, <1>3, <1>4, <1>5 DEF TypeOK, hookVars, envVars

LEMMA BeginType ==
    ASSUME TypeOK, NEW h \in Handler, NEW op \in Op, NEW p \in Payment,
           NEW u \in User, Begin(h, op, p, u)
    PROVE  TypeOK'
<1>1. [op |-> op, payment |-> p, user |-> u] \in Call
  BY DEF Call
<1> QED
  BY <1>1 DEF Begin, TypeOK, dbVars, queueVars, hookVars, envVars

LEMMA BeginRequestType ==
    ASSUME TypeOK, NEW h \in Handler, BeginRequest(h)
    PROVE  TypeOK'
<1>1. \E p \in Payment, u \in User, op \in Op : Begin(h, op, p, u)
  BY DEF BeginRequest, BeginApprove, BeginReject, BeginCancel, BeginReview,
         BeginProcess, Op
<1> QED
  BY <1>1, BeginType

\* What a request in flight looks like.
LEMMA CallType ==
    ASSUME TypeOK, NEW h \in Handler, requests[h] # None
    PROVE  /\ requests[h] \in Call
           /\ requests[h].payment \in Payment
           /\ requests[h].user \in User
           /\ requests[h].op \in Op
BY DEF TypeOK, Call

LEMMA FinishType ==
    ASSUME TypeOK, NEW h \in Handler, Finish(h)
    PROVE  requests' \in [Handler -> Call \cup {None}]
BY DEF TypeOK, Finish

LEMMA CommitFirstApprovalType ==
    ASSUME TypeOK, NEW h \in Handler, CommitFirstApproval(h)
    PROVE  TypeOK'
<1> DEFINE c == requests[h]
<1>1. c.payment \in Payment /\ c.user \in User
  BY CallType DEF CommitFirstApproval
<1>2. payments[c.payment] \in Row
  BY <1>1 DEF TypeOK
<1>3. [payments[c.payment] EXCEPT !.checker_id = c.user] \in Row
  BY <1>1, <1>2 DEF Row
<1>4. payments' = [payments EXCEPT ![c.payment] =
                      [payments[c.payment] EXCEPT !.checker_id = c.user]]
  BY DEF CommitFirstApproval
<1>5. payments' \in [Payment -> Row]
  BY <1>3, <1>4 DEF TypeOK
<1>6. history' \in [Payment -> SUBSET HistoryRow]
  BY <1>1, RecordType DEF CommitFirstApproval, Status, Note
<1> QED
  BY <1>5, <1>6, FinishType
     DEF CommitFirstApproval, TypeOK, queueVars, hookVars, envVars

LEMMA CommitApproveType ==
    ASSUME TypeOK, NEW h \in Handler, CommitApprove(h)
    PROVE  TypeOK'
<1> DEFINE c == requests[h]
           row == [payments[c.payment] EXCEPT !.status = "processing",
                                              !.checker_id = c.user]
<1>1. c.payment \in Payment /\ c.user \in User
  BY CallType DEF CommitApprove
<1>2. payments[c.payment] \in Row
  BY <1>1 DEF TypeOK
<1>3. row \in Row
  BY <1>1, <1>2 DEF Row, Status
<1>4. payments' = [payments EXCEPT ![c.payment] = row]
  BY <1>1 DEF CommitApprove, TypeOK
<1>5. payments' \in [Payment -> Row]
  BY <1>3, <1>4 DEF TypeOK
<1>6. history' \in [Payment -> SUBSET HistoryRow]
  BY <1>1, RecordType DEF CommitApprove, Status, Note
<1>7. /\ ledger' \in [Payment -> [debit: Nat, credit: Nat]]
      /\ jobs' \subseteq Job
  BY <1>1, DebitType, EnqueueType DEF CommitApprove
<1> QED
  BY <1>5, <1>6, <1>7, FinishType DEF CommitApprove, TypeOK, hookVars, envVars

LEMMA CommitReviewType ==
    ASSUME TypeOK, NEW h \in Handler, CommitReview(h)
    PROVE  TypeOK'
<1> DEFINE c == requests[h]
<1>1. c.payment \in Payment /\ c.user \in User
  BY CallType DEF CommitReview
<1>2. ReviewStatus(c.op) \in Status /\ ReviewNote(c.op) \in Note
  BY DEF ReviewStatus, ReviewNote, Status, Note
<1>3. payments' \in [Payment -> Row]
  BY <1>1, <1>2, SetStatusType DEF CommitReview
<1>4. history' \in [Payment -> SUBSET HistoryRow]
  BY <1>1, <1>2, RecordType DEF CommitReview
<1> QED
  BY <1>3, <1>4, FinishType
     DEF CommitReview, TypeOK, queueVars, hookVars, envVars

LEMMA CommitCompleteType ==
    ASSUME TypeOK, NEW h \in Handler, CommitComplete(h)
    PROVE  TypeOK'
<1> DEFINE c == requests[h]
<1>1. c.payment \in Payment /\ c.user \in User
  BY CallType DEF CommitComplete
<1>2. PICK ref \in {"none", "manual", "external"} :
         payments' = [payments EXCEPT ![c.payment].status = "completed",
                                      ![c.payment].provider_payment_id = ref]
  BY DEF CommitComplete
<1> DEFINE row == [payments[c.payment] EXCEPT !.status = "completed",
                                              !.provider_payment_id = ref]
<1>3. payments[c.payment] \in Row
  BY <1>1 DEF TypeOK
<1>4. row \in Row
  BY <1>3 DEF Row, Status
<1>5. payments' = [payments EXCEPT ![c.payment] = row]
  BY <1>1, <1>2 DEF TypeOK
<1>6. payments' \in [Payment -> Row]
  BY <1>4, <1>5 DEF TypeOK
<1>7. history' \in [Payment -> SUBSET HistoryRow]
  BY <1>1, RecordType DEF CommitComplete, Status, Note
<1> QED
  BY <1>6, <1>7, FinishType
     DEF CommitComplete, TypeOK, queueVars, hookVars, envVars

LEMMA CommitFailType ==
    ASSUME TypeOK, NEW h \in Handler, CommitFail(h)
    PROVE  TypeOK'
<1> DEFINE c == requests[h]
<1>1. c.payment \in Payment /\ c.user \in User
  BY CallType DEF CommitFail
<1>2. payments' \in [Payment -> Row]
  BY <1>1, SetStatusType DEF CommitFail, Status
<1>3. history' \in [Payment -> SUBSET HistoryRow]
  BY <1>1, RecordType DEF CommitFail, Status, Note
<1>4. ledger' \in [Payment -> [debit: Nat, credit: Nat]]
  BY <1>1, CreditType DEF CommitFail
<1> QED
  BY <1>2, <1>3, <1>4, FinishType
     DEF CommitFail, TypeOK, queueVars, hookVars, envVars

LEMMA CommitRequestType ==
    ASSUME TypeOK, NEW h \in Handler, CommitRequest(h)
    PROVE  TypeOK'
<1>1. CASE AbortApprove(h)
  BY <1>1, FinishType
     DEF AbortApprove, TypeOK, dbVars, queueVars, hookVars, envVars
<1> QED
  BY <1>1, CommitFirstApprovalType, CommitApproveType, CommitReviewType,
     CommitCompleteType, CommitFailType DEF CommitRequest

----------------------------------------------------------------------------
\* The job the payment worker is running.
LEMMA WorkerType ==
    ASSUME TypeOK, worker.pc # "idle"
    PROVE  /\ worker.job \in Job
           /\ worker.job.payment \in Payment
           /\ worker.job.entry \in Nat
           /\ worker.job.tries \in 0 .. DispatchAttempts
BY DEF TypeOK, Job

LEMMA IdleWorkerType ==
    /\ IdleWorker \in [pc: {"idle", "manual", "external", "commit"},
                       job: Job \cup {None}]
    /\ IdleWorker.pc = "idle"
BY DEF IdleWorker

\* Completing a payment, as both dispatch branches do.
LEMMA CompleteType ==
    ASSUME TypeOK, NEW p \in Payment,
           NEW ref \in {"none", "manual", "external"},
           payments' = [payments EXCEPT ![p].status = "completed",
                                        ![p].provider_payment_id = ref]
    PROVE  payments' \in [Payment -> Row]
<1> DEFINE row == [payments[p] EXCEPT !.status = "completed",
                                      !.provider_payment_id = ref]
<1>1. payments[p] \in Row
  BY DEF TypeOK
<1>2. row \in Row
  BY <1>1 DEF Row, Status
<1>3. payments' = [payments EXCEPT ![p] = row]
  BY DEF TypeOK
<1> QED
  BY <1>2, <1>3 DEF TypeOK

LEMMA DispatchDoneType ==
    ASSUME TypeOK, DispatchManual \/ DispatchCommit
    PROVE  TypeOK'
<1> DEFINE p == worker.job.payment
<1>1. p \in Payment
  BY WorkerType DEF DispatchManual, DispatchCommit
<1>2. payments' \in [Payment -> Row]
  BY <1>1, CompleteType DEF DispatchManual, DispatchCommit
<1>3. history' \in [Payment -> SUBSET HistoryRow]
  BY <1>1, RecordType DEF DispatchManual, DispatchCommit, Status, Note
<1> QED
  BY <1>2, <1>3, IdleWorkerType
     DEF DispatchManual, DispatchCommit, TypeOK, hookVars, envVars

LEMMA JobThrowsType ==
    ASSUME TypeOK, worker.pc # "idle", JobThrows
    PROVE  /\ jobs' \subseteq Job
           /\ worker' = IdleWorker
           /\ failures' \subseteq [payment: Payment, entry: Nat,
                                   pc: {"read", "commit"}]
<1> DEFINE j == worker.job
<1>1. /\ j \in Job
      /\ j.payment \in Payment /\ j.entry \in Nat
      /\ j.tries \in 0 .. DispatchAttempts
  BY WorkerType
<1>2. ASSUME ~(j.tries + 1 >= DispatchAttempts)
      PROVE  [j EXCEPT !.tries = @ + 1] \in Job
  <2>1. j.tries + 1 \in 0 .. DispatchAttempts
    BY <1>1, <1>2
  <2> QED
    BY <1>1, <2>1 DEF Job
<1>3. jobs' \subseteq Job
  BY <1>2 DEF JobThrows, TypeOK
<1>4. [payment |-> j.payment, entry |-> j.entry, pc |-> "read"]
        \in [payment: Payment, entry: Nat, pc: {"read", "commit"}]
  BY <1>1
<1>5. failures' \subseteq [payment: Payment, entry: Nat,
                           pc: {"read", "commit"}]
  BY <1>4 DEF JobThrows, TypeOK
<1> QED
  BY <1>3, <1>5 DEF JobThrows

LEMMA WorkerStepType ==
    ASSUME TypeOK, WorkerStep
    PROVE  TypeOK'
<1>1. ASSUME NEW j \in jobs, DispatchSkip(j)
      PROVE  TypeOK'
  BY <1>1 DEF DispatchSkip, TypeOK, dbVars, hookVars, envVars
<1>2. ASSUME NEW j \in jobs, DispatchRead(j)
      PROVE  TypeOK'
  <2>1. j \in Job /\ j.payment \in Payment
    BY DEF TypeOK, Job
  <2>2. payments[j.payment].provider_name \in {"manual", "external"}
    BY <2>1 DEF TypeOK, Row
  <2> QED
    BY <1>2, <2>1, <2>2 DEF DispatchRead, TypeOK, dbVars, hookVars, envVars
<1>3. CASE DispatchManual \/ DispatchCommit
  BY <1>3, DispatchDoneType
<1>4. CASE ProviderError \/ ProviderAccepts
  <2>1. worker.job.payment \in Payment
    BY <1>4, WorkerType DEF ProviderError, ProviderAccepts
  <2>2. payouts' \subseteq Payment
    BY <1>4, <2>1 DEF ProviderError, ProviderAccepts, TypeOK
  <2>3. /\ jobs' \subseteq Job
        /\ worker' = IdleWorker
        /\ failures' \subseteq [payment: Payment, entry: Nat,
                                pc: {"read", "commit"}]
    BY <1>4, JobThrowsType DEF ProviderError, ProviderAccepts
  <2>4. UNCHANGED <<dbVars, requests, hookVars, crashes>>
    BY <1>4 DEF ProviderError, ProviderAccepts
  <2> QED
    BY <2>2, <2>3, <2>4, IdleWorkerType DEF TypeOK, dbVars, hookVars
<1>5. CASE ProviderCompletes
  <2>1. worker.job \in Job /\ worker.job.payment \in Payment
    BY <1>5, WorkerType DEF ProviderCompletes
  <2>2. /\ worker' \in [pc: {"idle", "manual", "external", "commit"},
                        job: Job \cup {None}]
        /\ worker'.job \in Job
    BY <1>5, <2>1 DEF ProviderCompletes, TypeOK
  <2> QED
    BY <1>5, <2>1, <2>2 DEF ProviderCompletes, TypeOK, dbVars, hookVars
<1> QED
  BY <1>1, <1>2, <1>3, <1>4, <1>5 DEF WorkerStep

LEMMA FailureStepType ==
    ASSUME TypeOK, FailureStep
    PROVE  TypeOK'
<1> DEFINE Failure == [payment: Payment, entry: Nat, pc: {"read", "commit"}]
<1>1. ASSUME NEW f \in failures, FailureRead(f)
      PROVE  TypeOK'
  <2>1. f \in Failure
    BY DEF TypeOK
  <2>2. [f EXCEPT !.pc = "commit"] \in Failure
    BY <2>1
  <2>3. failures' \subseteq Failure
    BY <1>1, <2>2 DEF FailureRead, TypeOK
  <2> QED
    BY <1>1, <2>3 DEF FailureRead, TypeOK, dbVars, hookVars, envVars
<1>2. ASSUME NEW f \in failures, FailureCommit(f)
      PROVE  TypeOK'
  <2>1. f.payment \in Payment
    BY DEF TypeOK
  <2>2. payments' \in [Payment -> Row]
    BY <1>2, <2>1, SetStatusType DEF FailureCommit, Status
  <2>3. history' \in [Payment -> SUBSET HistoryRow]
    BY <1>2, <2>1, RecordType DEF FailureCommit, Status, Note
  <2>4. ledger' \in [Payment -> [debit: Nat, credit: Nat]]
    BY <1>2, <2>1, CreditType DEF FailureCommit
  <2> QED
    BY <1>2, <2>2, <2>3, <2>4 DEF FailureCommit, TypeOK, hookVars, envVars
<1> QED
  BY <1>1, <1>2 DEF FailureStep

----------------------------------------------------------------------------
LEMMA HookWorkerType ==
    ASSUME TypeOK, hookWorker.pc # "idle"
    PROVE  /\ hookWorker.hook \in Hook
           /\ hookWorker.hook.event \in Event
           /\ hookWorker.hook.event.payment \in Payment
           /\ hookWorker.hook.event.type \in {"completed", "failed"}
           /\ hookWorker.hook.tries \in 0 .. WebhookAttempts
BY DEF TypeOK, Hook

LEMMA IdleHookWorkerType ==
    /\ IdleHookWorker \in [pc: {"idle", "read", "commit"},
                           hook: Hook \cup {None}]
    /\ IdleHookWorker.pc = "idle"
BY DEF IdleHookWorker

LEMMA HookStepType ==
    ASSUME TypeOK, HookStep
    PROVE  TypeOK'
<1>1. ASSUME NEW k \in hooks, HookSkip(k)
      PROVE  TypeOK'
  BY <1>1 DEF HookSkip, TypeOK, dbVars, queueVars, envVars
<1>2. ASSUME NEW k \in hooks, HookTake(k)
      PROVE  TypeOK'
  <2>1. k \in Hook /\ k.event \in Event
    BY DEF TypeOK, Hook
  <2> QED
    BY <1>2, <2>1 DEF HookTake, TypeOK, dbVars, queueVars, envVars
<1>3. CASE HookAccept
  <2>1. hookWorker.hook \in Hook
    BY <1>3, HookWorkerType DEF HookAccept
  <2>2. /\ hookWorker' \in [pc: {"idle", "read", "commit"},
                            hook: Hook \cup {None}]
        /\ hookWorker'.hook \in Hook
    BY <1>3, <2>1 DEF HookAccept, TypeOK
  <2> QED
    BY <1>3, <2>2 DEF HookAccept, TypeOK, dbVars, queueVars, envVars
<1>4. CASE HookRefuse
  <2> DEFINE k == hookWorker.hook
  <2>1. k \in Hook /\ k.event \in Event /\ k.tries \in 0 .. WebhookAttempts
    BY <1>4, HookWorkerType DEF HookRefuse
  <2>2. ASSUME ~(k.tries + 1 >= WebhookAttempts)
        PROVE  [k EXCEPT !.tries = @ + 1] \in Hook
    <3>1. k.tries + 1 \in 0 .. WebhookAttempts
      BY <2>1, <2>2
    <3> QED
      BY <2>1, <3>1 DEF Hook
  <2>3. hooks' \subseteq Hook
    BY <1>4, <2>2 DEF HookRefuse, TypeOK
  <2> QED
    BY <1>4, <2>3, IdleHookWorkerType
       DEF HookRefuse, TypeOK, dbVars, queueVars, envVars
<1>5. CASE HookCommit
  <2> DEFINE e == hookWorker.hook.event
  <2>1. e \in Event /\ e.payment \in Payment /\ e.type \in {"completed", "failed"}
    BY <1>5, HookWorkerType DEF HookCommit
  <2>2. payments' \in [Payment -> Row]
    BY <1>5, <2>1, SetStatusType DEF HookCommit, Status
  <2>3. history' \in [Payment -> SUBSET HistoryRow]
    <3>1. Record(e.payment, e.type, System, "webhook")
      BY <1>5 DEF HookCommit
    <3>2. e.type \in Status /\ System \in User \cup {System} /\ "webhook" \in Note
      BY <2>1 DEF Status, Note
    <3> QED
      BY <2>1, <3>1, <3>2, RecordType
  <2>4. ledger' \in [Payment -> [debit: Nat, credit: Nat]]
    BY <1>5, <2>1, CreditType DEF HookCommit, TypeOK
  <2> QED
    BY <1>5, <2>1, <2>2, <2>3, <2>4, IdleHookWorkerType
       DEF HookCommit, TypeOK, queueVars, envVars
<1> QED
  BY <1>1, <1>2, <1>3, <1>4, <1>5 DEF HookStep

LEMMA PostWebhookType ==
    ASSUME TypeOK, NEW e \in Event, PostWebhook(e)
    PROVE  TypeOK'
<1>1. [event |-> e, tries |-> 0] \in Hook
  BY DEF Hook
<1> QED
  BY <1>1 DEF PostWebhook, TypeOK, dbVars, queueVars, envVars

LEMMA CrashType == TypeOK /\ Crash => TypeOK'
BY IdleWorkerType, IdleHookWorkerType DEF Crash, TypeOK, dbVars

LEMMA NextType == TypeOK /\ [Next]_vars => TypeOK'
<1> SUFFICES ASSUME TypeOK, [Next]_vars
             PROVE  TypeOK'
  OBVIOUS
<1>1. CASE UNCHANGED vars
  BY <1>1 DEF TypeOK, vars, dbVars, queueVars, hookVars, envVars
<1> QED
  BY <1>1, SubmitType, BeginRequestType, CommitRequestType, WorkerStepType,
     FailureStepType, PostWebhookType, HookStepType, CrashType DEF Next

\* The tables, queues and workers keep their types in every behaviour; in
\* particular no job or webhook is ever given more attempts than configured.
THEOREM TypeCorrect == Spec => []TypeOK
BY InitType, NextType, PTL DEF Spec

----------------------------------------------------------------------------
(* What no step may do: forget a debit or a history row, change the maker  *)
(* or the rule of a payment, or delete its row.                            *)

Kept(q) ==
    /\ ledger'[q].debit >= ledger[q].debit
    /\ history[q] \subseteq history'[q]
    /\ payments[q].status # "none" =>
         /\ payments'[q].status # "none"
         /\ payments'[q].user_id = payments[q].user_id
         /\ payments'[q].rule = payments[q].rule

LEMMA DbUnchangedKept ==
    ASSUME TypeOK, UNCHANGED dbVars, NEW q \in Payment
    PROVE  Kept(q)
BY DEF TypeOK, dbVars, Kept

LEMMA SubmitKept ==
    ASSUME TypeOK, NEW p \in Payment, Submit(p), NEW q \in Payment
    PROVE  Kept(q)
<1>1. payments[p].status = "none"
  BY DEF Submit
<1>2. q # p => payments'[q] = payments[q]
  BY DEF Submit, TypeOK
<1>3. history[q] \subseteq history'[q]
  BY DEF Submit, Record, TypeOK
<1>4. ledger'[q].debit >= ledger[q].debit
  BY DebitType DEF Submit, TypeOK
<1> QED
  BY <1>1, <1>2, <1>3, <1>4 DEF Kept

\* One transaction: the row of p is updated, a history row appended, and the
\* ledger left alone, debited or credited.
LEMMA WriteKept ==
    ASSUME TypeOK, NEW p \in Payment, NEW q \in Payment,
           NEW s \in Status, NEW actor, NEW note,
           \E c, r :
             \/ payments' = [payments EXCEPT ![p].status = s]
             \/ payments' = [payments EXCEPT ![p].status = s,
                                             ![p].checker_id = c]
             \/ payments' = [payments EXCEPT ![p].status = s,
                                             ![p].provider_payment_id = r],
           Record(p, s, actor, note),
           UNCHANGED ledger \/ Debit(p) \/ Credit(p)
    PROVE  Kept(q)
<1>1. history[q] \subseteq history'[q]
  BY DEF Record, TypeOK
<1>2. ledger'[q].debit >= ledger[q].debit
  BY DebitType, CreditType DEF TypeOK
<1>3. s # "none"
  BY DEF Status
<1>4. payments[q].status # "none" =>
         /\ payments'[q].status # "none"
         /\ payments'[q].user_id = payments[q].user_id
         /\ payments'[q].rule = payments[q].rule
  <2> DEFINE row == payments[p]
  <2>1. payments \in [Payment -> Row]
    BY DEF TypeOK
  <2>2. q # p => payments'[q] = payments[q]
    BY <2>1
  <2>3. PICK c, r :
             \/ payments'[p] = [row EXCEPT !.status = s]
             \/ payments'[p] = [row EXCEPT !.status = s, !.checker_id = c]
             \/ payments'[p] = [row EXCEPT !.status = s,
                                           !.provider_payment_id = r]
    BY <2>1
  <2>4. row \in Row
    BY <2>1
  <2>5. /\ payments'[p].status = s
        /\ payments'[p].user_id = row.user_id
        /\ payments'[p].rule = row.rule
    BY <2>3, <2>4 DEF Row
  <2> QED
    BY <1>3, <2>2, <2>5
<1> QED
  BY <1>1, <1>2, <1>4 DEF Kept

LEMMA CommitRequestKept ==
    ASSUME TypeOK, NEW h \in Handler, CommitRequest(h), NEW q \in Payment
    PROVE  Kept(q)
<1> DEFINE c == requests[h]
<1>1. CASE AbortApprove(h)
  BY <1>1, DbUnchangedKept DEF AbortApprove
<1>2. CASE ~AbortApprove(h)
  <2>1. c # None
    BY <1>2 DEF CommitRequest, CommitFirstApproval, CommitApprove,
                CommitReview, CommitComplete, CommitFail
  <2>2. c.payment \in Payment
    BY <2>1, CallType
  <2>3. CASE CommitFirstApproval(h)
    <3>1. /\ payments'[q].status = payments[q].status
          /\ payments'[q].user_id = payments[q].user_id
          /\ payments'[q].rule = payments[q].rule
      <4> DEFINE row == payments[c.payment]
      <4>1. payments \in [Payment -> Row]
        BY DEF TypeOK
      <4>2. q # c.payment => payments'[q] = payments[q]
        BY <2>2, <2>3, <4>1 DEF CommitFirstApproval
      <4>3. payments'[c.payment] = [row EXCEPT !.checker_id = c.user]
        BY <2>2, <2>3, <4>1 DEF CommitFirstApproval
      <4>4. row \in Row
        BY <2>2, <4>1
      <4> QED
        BY <4>2, <4>3, <4>4 DEF Row
    <3>2. history[q] \subseteq history'[q]
      BY <2>2, <2>3 DEF CommitFirstApproval, Record, TypeOK
    <3>3. ledger'[q].debit >= ledger[q].debit
      <4>1. ledger' = ledger
        BY <2>3 DEF CommitFirstApproval
      <4>2. ledger[q].debit \in Nat
        BY DEF TypeOK
      <4> QED
        BY <4>1, <4>2
    <3> QED
      BY <3>1, <3>2, <3>3 DEF Kept
  <2>4. CASE CommitApprove(h)
    BY <2>2, <2>4, WriteKept DEF CommitApprove, Status
  <2>5. CASE CommitReview(h)
    <3>1. ReviewStatus(c.op) \in Status
      BY DEF ReviewStatus, Status
    <3> QED
      BY <2>2, <2>5, <3>1, WriteKept DEF CommitReview, SetStatus
  <2>6. CASE CommitComplete(h)
    BY <2>2, <2>6, WriteKept DEF CommitComplete, Status
  <2>7. CASE CommitFail(h)
    BY <2>2, <2>7, WriteKept DEF CommitFail, SetStatus, Status
  <2> QED
    BY <1>2, <2>3, <2>4, <2>5, <2>6, <2>7 DEF CommitRequest
<1> QED
  BY <1>1, <1>2

LEMMA WorkerStepKept ==
    ASSUME TypeOK, WorkerStep, NEW q \in Payment
    PROVE  Kept(q)
<1>1. CASE DispatchManual \/ DispatchCommit
  <2>1. worker.job.payment \in Payment
    BY <1>1, WorkerType DEF DispatchManual, DispatchCommit
  <2> QED
    BY <1>1, <2>1, WriteKept DEF DispatchManual, DispatchCommit, Status
<1>2. CASE ~(DispatchManual \/ DispatchCommit)
  <2>1. UNCHANGED dbVars
    BY <1>2 DEF WorkerStep, DispatchSkip, DispatchRead, ProviderError,
                ProviderAccepts, ProviderCompletes
  <2> QED
    BY <2>1, DbUnchangedKept
<1> QED
  BY <1>1, <1>2

LEMMA FailureStepKept ==
    ASSUME TypeOK, FailureStep, NEW q \in Payment
    PROVE  Kept(q)
<1>1. PICK f \in failures : FailureRead(f) \/ FailureCommit(f)
  BY DEF FailureStep
<1>2. f.payment \in Payment
  BY DEF TypeOK
<1>3. CASE FailureRead(f)
  BY <1>3, DbUnchangedKept DEF FailureRead
<1>4. CASE FailureCommit(f)
  BY <1>2, <1>4, WriteKept DEF FailureCommit, SetStatus, Status
<1> QED
  BY <1>1, <1>3, <1>4

LEMMA HookStepKept ==
    ASSUME TypeOK, HookStep, NEW q \in Payment
    PROVE  Kept(q)
<1>1. CASE HookCommit
  <2> DEFINE e == hookWorker.hook.event
  <2>1. e.payment \in Payment /\ e.type \in Status
    BY <1>1, HookWorkerType DEF HookCommit, Status
  <2> QED
    BY <1>1, <2>1, WriteKept DEF HookCommit, SetStatus
<1>2. CASE ~HookCommit
  <2>1. UNCHANGED dbVars
    BY <1>2 DEF HookStep, HookSkip, HookTake, HookAccept, HookRefuse
  <2> QED
    BY <2>1, DbUnchangedKept
<1> QED
  BY <1>1, <1>2

LEMMA NextKept ==
    ASSUME TypeOK, [Next]_vars, NEW q \in Payment
    PROVE  Kept(q)
<1>1. CASE UNCHANGED dbVars
  BY <1>1, DbUnchangedKept
<1>2. CASE ~UNCHANGED dbVars
  <2>1. ASSUME NEW h \in Handler, BeginRequest(h)
        PROVE  FALSE
    <3>1. \E p, u, op : Begin(h, op, p, u)
      BY <2>1 DEF BeginRequest, BeginApprove, BeginReject, BeginCancel,
                  BeginReview, BeginProcess
    <3> QED
      BY <1>2, <3>1 DEF Begin
  <2>2. \A e \in Event : ~PostWebhook(e)
    BY <1>2 DEF PostWebhook
  <2>3. ~Crash
    BY <1>2 DEF Crash
  <2>4. vars' # vars
    BY <1>2 DEF vars
  <2>5. \/ \E p \in Payment : Submit(p)
        \/ \E h \in Handler : CommitRequest(h)
        \/ WorkerStep \/ FailureStep \/ HookStep
    BY <2>1, <2>2, <2>3, <2>4 DEF Next
  <2> QED
    BY <2>5, SubmitKept, CommitRequestKept, WorkerStepKept, FailureStepKept,
       HookStepKept
<1> QED
  BY <1>1, <1>2

----------------------------------------------------------------------------
(* Nothing is dispatched that was not debited.                             *)

LEMMA DebitedKept ==
    ASSUME TypeOK, [Next]_vars, NEW q \in Payment, Debited(q)
    PROVE  Debited(q)'
<1>1. ledger'[q].debit >= ledger[q].debit
  BY NextKept DEF Kept
<1>2. ledger'[q].debit \in Nat /\ ledger[q].debit \in Nat
  <2>1. TypeOK'
    BY NextType
  <2> QED
    BY <2>1 DEF TypeOK
<1> QED
  BY <1>1, <1>2 DEF Debited

LEMMA DebitMakesDebited ==
    ASSUME TypeOK, NEW p \in Payment, Debit(p)
    PROVE  Debited(p)'
<1>1. ledger[p].debit \in Nat
  BY DEF TypeOK
<1> QED
  BY <1>1, DebitType DEF Debited

\* A history row with another note dispatches nothing.
LEMMA RecordNotDispatched ==
    ASSUME TypeOK, NEW p \in Payment, NEW q \in Payment, NEW s, NEW actor,
           NEW note, note # "dispatched", Record(p, s, actor, note),
           \E r \in history'[q] : r.note = "dispatched"
    PROVE  \E r \in history[q] : r.note = "dispatched"
<1>1. history'[q] \subseteq
        history[q] \cup {[status |-> s, actor |-> actor, note |-> note]}
  BY DEF Record, TypeOK
<1> QED
  BY <1>1

\* A debit and the enqueue after it.
LEMMA EnqueueDebited ==
    ASSUME TypeOK, NEW p \in Payment, NEW q \in Payment, Debit(p),
           EnqueueDispatch(p), \E j \in jobs' : j.payment = q
    PROVE  (\E j \in jobs : j.payment = q) \/ Debited(q)'
BY DebitMakesDebited DEF EnqueueDispatch

LEMMA SubmitDispatched ==
    ASSUME TypeOK, NEW p \in Payment, Submit(p), NEW q \in Payment,
           Dispatched(q)'
    PROVE  Dispatched(q) \/ Debited(q)'
<1>1. PICK u \in Maker, rule \in Rule, flagged \in BOOLEAN,
           provider \in {"manual", "external"} : Submit(p)!(u, rule, flagged, provider)
  BY DEF Submit
<1>2. (\E r \in history'[q] : r.note = "dispatched") =>
         \E r \in history[q] : r.note = "dispatched"
  BY <1>1, RecordNotDispatched
<1>3. (\E j \in jobs' : j.payment = q) =>
         (\E j \in jobs : j.payment = q) \/ Debited(q)'
  BY <1>1, EnqueueDebited
<1>4. payouts' = payouts
  BY <1>1 DEF envVars
<1> QED
  BY <1>2, <1>3, <1>4 DEF Dispatched

LEMMA CommitRequestDispatched ==
    ASSUME TypeOK, NEW h \in Handler, CommitRequest(h), NEW q \in Payment,
           Dispatched(q)'
    PROVE  Dispatched(q) \/ Debited(q)'
<1> DEFINE c == requests[h]
<1>1. payouts' = payouts
  BY DEF CommitRequest, CommitFirstApproval, CommitApprove, AbortApprove,
         CommitReview, CommitComplete, CommitFail, envVars
<1>2. CASE AbortApprove(h)
  BY <1>2 DEF AbortApprove, Dispatched, dbVars, queueVars, envVars
<1>3. CASE ~AbortApprove(h)
  <2>1. c # None
    BY <1>3 DEF CommitRequest, CommitFirstApproval, CommitApprove,
                CommitReview, CommitComplete, CommitFail
  <2>2. c.payment \in Payment
    BY <2>1, CallType
  <2>3. \E s, actor, note : /\ note # "dispatched"
                           /\ Record(c.payment, s, actor, note)
    <3>1. ReviewNote(c.op) # "dispatched"
      BY DEF ReviewNote
    <3> QED
      BY <1>3, <3>1 DEF CommitRequest, CommitFirstApproval, CommitApprove,
                        CommitReview, CommitComplete, CommitFail
  <2>4. (\E r \in history'[q] : r.note = "dispatched") =>
           \E r \in history[q] : r.note = "dispatched"
    BY <2>2, <2>3, RecordNotDispatched
  <2>5. (\E j \in jobs' : j.payment = q) =>
           (\E j \in jobs : j.payment = q) \/ Debited(q)'
    <3>1. CASE CommitApprove(h)
      BY <2>2, <3>1, EnqueueDebited DEF CommitApprove
    <3>2. CASE ~CommitApprove(h)
      BY <1>3, <3>2 DEF CommitRequest, CommitFirstApproval, CommitReview,
                        CommitComplete, CommitFail, queueVars
    <3> QED
      BY <3>1, <3>2
  <2> QED
    BY <1>1, <2>4, <2>5 DEF Dispatched
<1> QED
  BY <1>2, <1>3

\* The worker dispatches only the job it holds.
LEMMA WorkerStepDispatched ==
    ASSUME TypeOK, WorkerStep, NEW q \in Payment, Dispatched(q)'
    PROVE  Dispatched(q) \/ (worker.pc # "idle" /\ worker.job.payment = q)
<1> DEFINE w == worker.job
<1>1. CASE \E j \in jobs : DispatchSkip(j) \/ DispatchRead(j)
  BY <1>1 DEF DispatchSkip, DispatchRead, Dispatched, dbVars, envVars
<1>2. CASE DispatchManual \/ DispatchCommit
  <2>1. w.payment \in Payment /\ worker.pc # "idle"
    BY <1>2, WorkerType DEF DispatchManual, DispatchCommit
  <2>2. q # w.payment => history'[q] = history[q]
    BY <1>2, <2>1 DEF DispatchManual, DispatchCommit, Record, TypeOK
  <2> QED
    BY <1>2, <2>1, <2>2 DEF DispatchManual, DispatchCommit, Dispatched, envVars
<1>3. CASE ProviderError \/ ProviderAccepts
  <2>1. worker.pc = "external" /\ JobThrows /\ UNCHANGED dbVars
    BY <1>3 DEF ProviderError, ProviderAccepts
  <2>2. payouts' \subseteq payouts \cup {w.payment}
    BY <1>3 DEF ProviderError, ProviderAccepts
  <2>3. jobs' \subseteq jobs \cup {[w EXCEPT !.tries = @ + 1]}
    BY <2>1 DEF JobThrows
  <2>4. w \in Job
    BY <2>1, WorkerType
  <2>5. [w EXCEPT !.tries = @ + 1].payment = w.payment
    BY <2>4 DEF Job
  <2> QED
    BY <2>1, <2>2, <2>3, <2>5 DEF Dispatched, dbVars
<1>4. CASE ProviderCompletes
  BY <1>4 DEF ProviderCompletes, Dispatched, dbVars
<1> QED
  BY <1>1, <1>2, <1>3, <1>4 DEF WorkerStep

LEMMA OtherStepDispatched ==
    ASSUME TypeOK, NEW q \in Payment, Dispatched(q)',
           \/ FailureStep
           \/ HookStep
           \/ \E h \in Handler : BeginRequest(h)
           \/ \E e \in Event : PostWebhook(e)
           \/ Crash
           \/ UNCHANGED vars
    PROVE  Dispatched(q)
<1>1. CASE \E h \in Handler : BeginRequest(h)
  <2>1. \E h, op, x, u : Begin(h, op, x, u)
    BY <1>1 DEF BeginRequest, BeginApprove, BeginReject, BeginCancel,
                BeginReview, BeginProcess
  <2> QED
    BY <2>1 DEF Begin, Dispatched, dbVars, queueVars, envVars
<1>2. CASE (\E e \in Event : PostWebhook(e)) \/ Crash \/ UNCHANGED vars
  BY <1>2 DEF PostWebhook, Crash, Dispatched, vars, dbVars, queueVars, envVars
<1>3. CASE FailureStep
  <2>1. PICK f \in failures : FailureRead(f) \/ FailureCommit(f)
    BY <1>3 DEF FailureStep
  <2>2. CASE FailureRead(f)
    BY <2>2 DEF FailureRead, Dispatched, dbVars, envVars
  <2>3. CASE FailureCommit(f)
    <3>1. f.payment \in Payment
      BY DEF TypeOK
    <3>2. (\E r \in history'[q] : r.note = "dispatched") =>
             \E r \in history[q] : r.note = "dispatched"
      BY <2>3, <3>1, RecordNotDispatched DEF FailureCommit
    <3> QED
      BY <2>3, <3>2 DEF FailureCommit, Dispatched, envVars
  <2> QED
    BY <2>1, <2>2, <2>3
<1>4. CASE HookStep
  <2>1. jobs' = jobs /\ payouts' = payouts
    BY <1>4 DEF HookStep, HookSkip, HookTake, HookAccept, HookRefuse,
                HookCommit, queueVars, envVars
  <2>2. CASE HookCommit
    <3>1. (\E r \in history'[q] : r.note = "dispatched") =>
             \E r \in history[q] : r.note = "dispatched"
      BY <2>2, HookWorkerType, RecordNotDispatched DEF HookCommit
    <3> QED
      BY <2>1, <3>1 DEF Dispatched
  <2>3. CASE ~HookCommit
    <3>1. history' = history
      BY <1>4, <2>3 DEF HookStep, HookSkip, HookTake, HookAccept, HookRefuse,
                        dbVars
    <3> QED
      BY <2>1, <3>1 DEF Dispatched
  <2> QED
    BY <2>2, <2>3
<1> QED
  BY <1>1, <1>2, <1>3, <1>4

\* The worker takes its job from the queue and keeps it until it is idle.
LEMMA WorkerJobStep ==
    ASSUME [Next]_vars, worker'.pc # "idle"
    PROVE  \/ worker.pc # "idle" /\ worker'.job = worker.job
           \/ worker'.job \in jobs
<1>1. CASE WorkerStep
  <2>1. CASE \E j \in jobs : DispatchSkip(j) \/ DispatchRead(j)
    <3>1. PICK j \in jobs : DispatchSkip(j) \/ DispatchRead(j)
      BY <2>1
    <3>2. worker' = worker \/ worker'.job = j
      BY <3>1 DEF DispatchSkip, DispatchRead
    <3> QED
      BY <3>2
  <2>2. CASE DispatchManual \/ ProviderError \/ ProviderAccepts \/ DispatchCommit
    BY <2>2 DEF DispatchManual, ProviderError, ProviderAccepts,
                DispatchCommit, JobThrows, IdleWorker
  <2>3. CASE ProviderCompletes
    BY <2>3 DEF ProviderCompletes
  <2> QED
    BY <1>1, <2>1, <2>2, <2>3 DEF WorkerStep
<1>2. CASE \E h \in Handler : BeginRequest(h)
  <2>1. \E h, op, x, u : Begin(h, op, x, u)
    BY <1>2 DEF BeginRequest, BeginApprove, BeginReject, BeginCancel,
                BeginReview, BeginProcess
  <2> QED
    BY <2>1 DEF Begin, queueVars
<1>3. CASE \E h \in Handler : CommitRequest(h)
  BY <1>3 DEF CommitRequest, CommitFirstApproval, CommitApprove, AbortApprove,
              CommitReview, CommitComplete, CommitFail, queueVars
<1>4. CASE FailureStep \/ HookStep
  BY <1>4 DEF FailureStep, FailureRead, FailureCommit, HookStep, HookSkip,
              HookTake, HookAccept, HookRefuse, HookCommit, queueVars
<1>5. CASE \/ \E p \in Payment : Submit(p)
           \/ \E e \in Event : PostWebhook(e)
           \/ Crash
           \/ UNCHANGED vars
  <2>1. ASSUME NEW p \in Payment, Submit(p)
        PROVE  worker' = worker
    BY <2>1 DEF Submit
  <2> QED
    BY <1>5, <2>1 DEF PostWebhook, Crash, IdleWorker, vars, queueVars
<1> QED
  BY <1>1, <1>2, <1>3, <1>4, <1>5 DEF Next

LEMMA DispatchInvStep ==
    ASSUME TypeOK, DispatchInv, [Next]_vars
    PROVE  DispatchInv'
<1>1. ASSUME NEW q \in Payment, Dispatched(q)'
      PROVE  Debited(q)'
  <2>1. \/ Dispatched(q)
        \/ Debited(q)'
        \/ worker.pc # "idle" /\ worker.job.payment = q
    BY <1>1, SubmitDispatched, CommitRequestDispatched, WorkerStepDispatched,
       OtherStepDispatched DEF Next
  <2>2. Debited(q) \/ Debited(q)'
    BY <2>1 DEF DispatchInv, DispatchedWasDebited
  <2> QED
    BY <2>2, DebitedKept
<1>2. ASSUME worker'.pc # "idle"
      PROVE  Debited(worker.job.payment)'
  <2>1. \/ worker.pc # "idle" /\ worker'.job = worker.job
        \/ worker'.job \in jobs
    BY <1>2, WorkerJobStep
  <2>2. worker'.job.payment \in Payment
    BY <2>1, WorkerType DEF TypeOK, Job
  <2>3. Debited(worker'.job.payment)
    BY <2>1, <2>2 DEF DispatchInv, DispatchedWasDebited, Dispatched
  <2> QED
    BY <2>2, <2>3, DebitedKept DEF Debited
<1> QED
  BY <1>1, <1>2 DEF DispatchInv, DispatchedWasDebited

LEMMA DispatchInvInit == Init => DispatchInv
BY DEF Init, DispatchInv, DispatchedWasDebited, Dispatched, IdleWorker

\* Whatever the interleaving of approvals, retries, webhooks and crashes, a
\* payment that has a dispatch job, was accepted for payout or was completed by
\* the worker has been debited amount and fee (payments.service approvePayment
\* and submitPayment, payment.worker).
THEOREM DispatchedIsPaidFor == Spec => []DispatchedWasDebited
<1>1. DispatchInv => DispatchedWasDebited
  BY DEF DispatchInv
<1>2. TypeOK /\ DispatchInv /\ [Next]_vars => DispatchInv'
  BY DispatchInvStep
<1> QED
  BY <1>1, <1>2, DispatchInvInit, TypeCorrect, PTL DEF Spec

----------------------------------------------------------------------------
(* Two independent approvals before money moves.                           *)

Untouched(q) ==
    payments'[q] = payments[q] /\ history'[q] = history[q]
                               /\ ledger'[q] = ledger[q]

\* A write that approves nothing: it leaves the payment where it can no longer
\* be approved, and takes no money.
PlainWrite(q) ==
    /\ payments'[q].status \in
         {"processing", "completed", "failed", "rejected", "cancelled"}
    /\ payments'[q].user_id = payments[q].user_id
    /\ payments'[q].rule = payments[q].rule
    /\ ledger'[q].debit = ledger[q].debit
    /\ \E r : /\ history'[q] = history[q] \cup {r}
             /\ r.note \notin {"first approval", "approved"}

LEMMA UntouchedWhenUnchanged ==
    ASSUME UNCHANGED dbVars, NEW q
    PROVE  Untouched(q)
BY DEF dbVars, Untouched

LEMMA PlainWriteEffect ==
    ASSUME TypeOK, NEW p \in Payment, NEW q \in Payment,
           NEW s \in {"processing", "completed", "failed", "rejected",
                      "cancelled"},
           NEW actor, NEW note, note # "first approval", note # "approved",
           \/ payments' = [payments EXCEPT ![p].status = s]
           \/ \E r : payments' = [payments EXCEPT
                                     ![p].status = s,
                                     ![p].provider_payment_id = r],
           Record(p, s, actor, note),
           UNCHANGED ledger \/ Credit(p)
    PROVE  Untouched(q) \/ PlainWrite(q)
<1>1. CASE q # p
  <2>1. payments'[q] = payments[q]
    BY <1>1 DEF TypeOK
  <2>2. history'[q] = history[q]
    BY <1>1 DEF TypeOK, Record
  <2>3. ledger'[q] = ledger[q]
    BY <1>1 DEF TypeOK, Credit
  <2> QED
    BY <2>1, <2>2, <2>3 DEF Untouched
<1>2. CASE q = p
  <2> DEFINE row == payments[p]
             r == [status |-> s, actor |-> actor, note |-> note]
  <2>1. row \in Row
    BY DEF TypeOK
  <2>2. \E ref : \/ payments'[p] = [row EXCEPT !.status = s]
               \/ payments'[p] = [row EXCEPT !.status = s,
                                             !.provider_payment_id = ref]
    BY DEF TypeOK
  <2>3. /\ payments'[p].status = s
        /\ payments'[p].user_id = row.user_id
        /\ payments'[p].rule = row.rule
    BY <2>1, <2>2 DEF Row
  <2>4. ledger'[p].debit = ledger[p].debit
    BY CreditType
  <2>5. history'[p] = history[p] \cup {r} /\ r.note = note
    BY DEF TypeOK, Record
  <2> QED
    BY <1>2, <2>3, <2>4, <2>5 DEF PlainWrite
<1> QED
  BY <1>1, <1>2

\* What a transaction of an HTTP handler does to a payment.
LEMMA CommitEffect ==
    ASSUME TypeOK, NEW h \in Handler, CommitRequest(h), NEW q \in Payment
    PROVE  \/ Untouched(q)
           \/ PlainWrite(q)
           \/ CommitFirstApproval(h) /\ requests[h].payment = q
           \/ CommitApprove(h) /\ requests[h].payment = q
<1> DEFINE c == requests[h]
<1>1. CASE AbortApprove(h)
  BY <1>1, UntouchedWhenUnchanged DEF AbortApprove
<1>2. CASE ~AbortApprove(h)
  <2>1. c # None
    BY <1>2 DEF CommitRequest, CommitFirstApproval, CommitApprove,
                CommitReview, CommitComplete, CommitFail
  <2>2. c.payment \in Payment
    BY <2>1, CallType
  <2>3. CASE CommitFirstApproval(h) \/ CommitApprove(h)
    <3>1. CASE q = c.payment
      BY <2>3, <3>1
    <3>2. CASE q # c.payment
      <4>0. \/ payments' = [payments EXCEPT ![c.payment].checker_id = c.user]
            \/ payments' = [payments EXCEPT ![c.payment].status = "processing",
                                            ![c.payment].checker_id = c.user]
        BY <2>3, Zenon DEF CommitFirstApproval, CommitApprove
      <4>1. payments'[q] = payments[q]
        BY <2>2, <3>2, <4>0 DEF TypeOK
      <4>2. \E s, actor, note : Record(c.payment, s, actor, note)
        BY <2>3 DEF CommitFirstApproval, CommitApprove
      <4>3. history'[q] = history[q]
        BY <2>2, <3>2, <4>2 DEF Record, TypeOK
      <4>4. Debit(c.payment) \/ ledger' = ledger
        BY <2>3 DEF CommitFirstApproval, CommitApprove
      <4>5. ledger'[q] = ledger[q]
        BY <2>2, <3>2, <4>4 DEF Debit, TypeOK
      <4> QED
        BY <4>1, <4>3, <4>5 DEF Untouched
    <3> QED
      BY <3>1, <3>2
  <2>4. CASE CommitReview(h)
    <3>1. ReviewStatus(c.op) \in
            {"processing", "completed", "failed", "rejected", "cancelled"}
      BY DEF ReviewStatus
    <3>2. ReviewNote(c.op) # "first approval" /\ ReviewNote(c.op) # "approved"
      BY DEF ReviewNote
    <3>3. /\ payments' = [payments EXCEPT
                            ![c.payment].status = ReviewStatus(c.op)]
          /\ Record(c.payment, ReviewStatus(c.op), c.user, ReviewNote(c.op))
          /\ UNCHANGED ledger
      BY <2>4 DEF CommitReview, SetStatus
    <3> QED
      BY <2>2, <3>1, <3>2, <3>3, PlainWriteEffect
  <2>5. CASE CommitComplete(h)
    BY <2>2, <2>5, PlainWriteEffect DEF CommitComplete
  <2>6. CASE CommitFail(h)
    BY <2>2, <2>6, PlainWriteEffect DEF CommitFail, SetStatus
  <2> QED
    BY <1>2, <2>3, <2>4, <2>5, <2>6 DEF CommitRequest
<1> QED
  BY <1>1, <1>2

\* The workers and the webhooks approve nothing.
LEMMA BackgroundEffect ==
    ASSUME TypeOK, WorkerStep \/ FailureStep \/ HookStep, NEW q \in Payment
    PROVE  Untouched(q) \/ PlainWrite(q)
<1>1. CASE DispatchManual \/ DispatchCommit
  <2>1. worker.job.payment \in Payment
    BY <1>1, WorkerType DEF DispatchManual, DispatchCommit
  <2> QED
    BY <1>1, <2>1, PlainWriteEffect DEF DispatchManual, DispatchCommit
<1>2. CASE FailureStep
  <2>1. PICK f \in failures : FailureRead(f) \/ FailureCommit(f)
    BY <1>2 DEF FailureStep
  <2>2. f.payment \in Payment
    BY DEF TypeOK
  <2>3. CASE FailureRead(f)
    BY <2>3, UntouchedWhenUnchanged DEF FailureRead
  <2>4. CASE FailureCommit(f)
    BY <2>2, <2>4, PlainWriteEffect DEF FailureCommit, SetStatus
  <2> QED
    BY <2>1, <2>3, <2>4
<1>3. CASE HookCommit
  <2> DEFINE e == hookWorker.hook.event
  <2>1. e.payment \in Payment
    BY <1>3, HookWorkerType DEF HookCommit
  <2>2. e.type \in
          {"processing", "completed", "failed", "rejected", "cancelled"}
    BY <1>3, HookWorkerType DEF HookCommit
  <2>3. UNCHANGED ledger \/ Credit(e.payment)
    BY <1>3 DEF HookCommit
  <2>4. /\ payments' = [payments EXCEPT ![e.payment].status = e.type]
        /\ Record(e.payment, e.type, System, "webhook")
    BY <1>3 DEF HookCommit, SetStatus
  <2> QED
    BY <2>1, <2>2, <2>3, <2>4, PlainWriteEffect
<1>4. CASE /\ WorkerStep \/ HookStep
           /\ ~(DispatchManual \/ DispatchCommit \/ HookCommit)
  <2>1. UNCHANGED dbVars
    BY <1>4 DEF WorkerStep, DispatchSkip, DispatchRead, ProviderError,
                ProviderAccepts, ProviderCompletes, HookStep, HookSkip,
                HookTake, HookAccept, HookRefuse
  <2> QED
    BY <2>1, UntouchedWhenUnchanged
<1> QED
  BY <1>1, <1>2, <1>3, <1>4

LEMMA PlainWriteJustified ==
    ASSUME TypeOK, NEW q \in Payment, RowJustified(q), PlainWrite(q)
    PROVE  RowJustified(q)'
<1>1. PICK r : /\ history'[q] = history[q] \cup {r}
               /\ r.note \notin {"first approval", "approved"}
  BY DEF PlainWrite
<1>2. \A u : Independent(q, u)' <=> Independent(q, u)
  BY DEF PlainWrite, Independent
<1>3. FourEyesOn(q)'
  BY <1>1, <1>2 DEF PlainWrite, RowJustified, FourEyesOn
<1>4. payments'[q].status # "none"
  BY DEF PlainWrite
<1>5. \A x \in history'[q] : x.note \in {"first approval", "approved"} =>
         Independent(q, x.actor)'
  BY <1>1, <1>2 DEF RowJustified
<1>6. ~CanMove(payments'[q].status, "processing")
  BY DEF PlainWrite, CanMove, Transitions, Status
<1> QED
  BY <1>3, <1>4, <1>5, <1>6 DEF RowJustified

LEMMA UntouchedJustified ==
    ASSUME NEW q \in Payment, RowJustified(q), Untouched(q)
    PROVE  RowJustified(q)'
BY DEF Untouched, RowJustified, FourEyesOn, Independent

LEMMA SubmitJustified ==
    ASSUME TypeOK, NEW p \in Payment, Submit(p), NEW q \in Payment,
           RowJustified(q)
    PROVE  RowJustified(q)'
<1>1. PICK u \in Maker, rule \in Rule, flagged \in BOOLEAN,
           provider \in {"manual", "external"} : Submit(p)!(u, rule, flagged, provider)
  BY DEF Submit
<1> DEFINE s == InitialStatus(rule, flagged)
<1>2. CASE q # p
  <2>1. payments'[q] = payments[q]
    BY <1>1, <1>2 DEF TypeOK
  <2>2. history'[q] = history[q]
    BY <1>1, <1>2 DEF Record, TypeOK
  <2>3. ledger'[q] = ledger[q]
    BY <1>1, <1>2 DEF Debit, TypeOK
  <2> QED
    BY <2>1, <2>2, <2>3, UntouchedJustified DEF Untouched
<1>3. CASE q = p
  <2>1. history[p] = {} /\ ledger[p].debit = 0
    BY <1>1, <1>3 DEF RowJustified
  <2>2. payments'[p] = [NoRow EXCEPT !.status = s, !.user_id = u,
                                     !.rule = rule, !.provider_name = provider]
    BY <1>1 DEF TypeOK
  <2>3. /\ payments'[p].status = s
        /\ payments'[p].rule = rule
        /\ payments'[p].checker_id = None
    BY <2>2 DEF NoRow
  <2>4. \A x \in history'[p] : x.note = "submitted"
    BY <1>1, <2>1 DEF Record, TypeOK
  <2>5. s # "none"
    BY DEF InitialStatus
  <2>6. ledger'[p].debit > 0 => rule = "auto"
    <3>1. s = "processing" => rule = "auto"
      BY DEF InitialStatus
    <3>2. s # "processing" => ledger' = ledger
      BY <1>1
    <3> QED
      BY <2>1, <3>1, <3>2
  <2>7. FourEyesOn(p)'
    BY <2>3, <2>6 DEF FourEyesOn
  <2> QED
    BY <1>3, <2>3, <2>4, <2>5, <2>7 DEF RowJustified
<1> QED
  BY <1>2, <1>3

LEMMA FirstApprovalJustified ==
    ASSUME TypeOK, NEW h \in Handler, CommitFirstApproval(h),
           NEW q \in Payment, q = requests[h].payment,
           NEW u, u = requests[h].user,
           RowJustified(q), CallJustified(requests[h])
    PROVE  RowJustified(q)'
<1> DEFINE row == payments[q]
           r == [status |-> "pending_approval", actor |-> u,
                 note |-> "first approval"]
<1>1. payments'[q] = [row EXCEPT !.checker_id = u]
  BY DEF CommitFirstApproval, TypeOK
<1>2. /\ payments'[q].status = row.status
      /\ payments'[q].user_id = row.user_id
      /\ payments'[q].rule = row.rule
      /\ payments'[q].checker_id = u
  <2>1. row \in Row
    BY DEF TypeOK
  <2> QED
    BY <1>1, <2>1 DEF Row
<1>3. history'[q] = history[q] \cup {r}
  BY DEF CommitFirstApproval, Record, TypeOK
<1>4. ledger' = ledger
  BY DEF CommitFirstApproval
<1>5. Independent(q, u)
  BY DEF CommitFirstApproval, CallJustified
<1>6. FourEyesOn(q)'
  <2>1. history[q] \subseteq history'[q]
    BY <1>3
  <2>2. FourEyesOn(q)
    BY DEF RowJustified
  <2> QED
    <3>1. CASE ledger[q].debit > 0 /\ row.rule # "auto"
      <4>1. PICK b \in history[q] :
              /\ b.note = "approved" /\ Independent(q, b.actor)
              /\ row.rule = "dual" =>
                   \E x \in history[q] :
                      /\ x.note = "first approval" /\ x.actor # b.actor
                      /\ Independent(q, x.actor)
        BY <2>2, <3>1 DEF FourEyesOn
      <4>2. Independent(q, b.actor)'
        BY <1>2, <4>1 DEF Independent
      <4>3. row.rule = "dual" =>
              \E x \in history'[q] :
                 /\ x.note = "first approval" /\ x.actor # b.actor
                 /\ Independent(q, x.actor)'
        BY <1>2, <2>1, <4>1 DEF Independent
      <4> QED
        BY <1>2, <2>1, <4>1, <4>2, <4>3 DEF FourEyesOn
    <3>2. CASE ~(ledger[q].debit > 0 /\ row.rule # "auto")
      BY <1>2, <1>4, <3>2 DEF FourEyesOn
    <3> QED
      BY <3>1, <3>2
<1>7. \A x \in history'[q] : x.note \in {"first approval", "approved"} =>
         Independent(q, x.actor)'
  <2>1. \A x \in history[q] : x.note \in {"first approval", "approved"} =>
           Independent(q, x.actor)
    BY DEF RowJustified
  <2>2. r.actor = u
    OBVIOUS
  <2> QED
    BY <1>2, <1>3, <1>5, <2>1, <2>2 DEF Independent
<1>8. payments'[q].status # "none"
  BY <1>2 DEF CallJustified
<1>9. \E a \in history'[q] : a.note = "first approval" /\ a.actor = u
  <2>1. r \in history'[q]
    BY <1>3
  <2>2. r.note = "first approval" /\ r.actor = u
    OBVIOUS
  <2> QED
    BY <2>1, <2>2
<1> QED
  BY <1>2, <1>6, <1>7, <1>8, <1>9 DEF RowJustified

LEMMA ApproveJustified ==
    ASSUME TypeOK, NEW h \in Handler, CommitApprove(h),
           NEW q \in Payment, q = requests[h].payment,
           NEW u, u = requests[h].user,
           RowJustified(q), CallJustified(requests[h])
    PROVE  RowJustified(q)'
<1> DEFINE row == payments[q]
           r == [status |-> "processing", actor |-> u, note |-> "approved"]
<1>1. payments'[q] = [row EXCEPT !.status = "processing", !.checker_id = u]
  BY DEF CommitApprove, TypeOK
<1>2. /\ payments'[q].status = "processing"
      /\ payments'[q].user_id = row.user_id
      /\ payments'[q].rule = row.rule
  <2>1. row \in Row
    BY DEF TypeOK
  <2> QED
    BY <1>1, <2>1 DEF Row
<1>3. history'[q] = history[q] \cup {r}
  BY DEF CommitApprove, Record, TypeOK
<1>4. Independent(q, u)
  BY DEF CommitApprove, CallJustified
<1>5. \A v : Independent(q, v)' <=> Independent(q, v)
  BY <1>2 DEF Independent
<1>6. \A x \in history'[q] : x.note \in {"first approval", "approved"} =>
         Independent(q, x.actor)'
  <2>1. \A x \in history[q] : x.note \in {"first approval", "approved"} =>
           Independent(q, x.actor)
    BY DEF RowJustified
  <2>2. r.actor = u
    OBVIOUS
  <2> QED
    BY <1>2, <1>3, <1>4, <2>1, <2>2 DEF Independent
<1>7. row.rule = "dual" =>
         \E a \in history'[q] : a.note = "first approval" /\ a.actor # u
  BY <1>3 DEF CommitApprove, CallJustified
<1>8. FourEyesOn(q)'
  <2>1. r \in history'[q] /\ r.note = "approved" /\ r.actor = u
    BY <1>3
  <2>2. Independent(q, u)'
    BY <1>4, <1>5
  <2>3. row.rule = "dual" =>
           \E a \in history'[q] : /\ a.note = "first approval"
                                  /\ a.actor # u
                                  /\ Independent(q, a.actor)'
    BY <1>6, <1>7
  <2> QED
    BY <1>2, <2>1, <2>2, <2>3 DEF FourEyesOn
<1>9. ~CanMove(payments'[q].status, "processing")
  BY <1>2 DEF CanMove, Transitions, Status
<1> QED
  BY <1>2, <1>6, <1>8, <1>9 DEF RowJustified

LEMMA RowJustifiedStep ==
    ASSUME TypeOK, ApprovalInv, [Next]_vars, NEW q \in Payment
    PROVE  RowJustified(q)'
<1>1. RowJustified(q)
  BY DEF ApprovalInv
<1>2. CASE \E p \in Payment : Submit(p)
  BY <1>1, <1>2, SubmitJustified
<1>3. CASE \E h \in Handler : CommitRequest(h)
  <2>1. PICK h \in Handler : CommitRequest(h)
    BY <1>3
  <2>2. CASE CommitFirstApproval(h) /\ requests[h].payment = q
    <3>1. CallJustified(requests[h])
      BY <2>2 DEF ApprovalInv, CommitFirstApproval
    <3> QED
      BY <1>1, <2>2, <3>1, FirstApprovalJustified
  <2>3. CASE CommitApprove(h) /\ requests[h].payment = q
    <3>1. CallJustified(requests[h])
      BY <2>3 DEF ApprovalInv, CommitApprove
    <3> QED
      BY <1>1, <2>3, <3>1, ApproveJustified
  <2>4. CASE Untouched(q) \/ PlainWrite(q)
    BY <1>1, <2>4, UntouchedJustified, PlainWriteJustified
  <2> QED
    BY <2>1, <2>2, <2>3, <2>4, CommitEffect
<1>4. CASE WorkerStep \/ FailureStep \/ HookStep
  BY <1>1, <1>4, BackgroundEffect, UntouchedJustified, PlainWriteJustified
<1>5. CASE \E h \in Handler : BeginRequest(h)
  <2>1. \E h, op, x, u : Begin(h, op, x, u)
    BY <1>5 DEF BeginRequest, BeginApprove, BeginReject, BeginCancel,
                BeginReview, BeginProcess
  <2>2. UNCHANGED dbVars
    BY <2>1 DEF Begin
  <2> QED
    BY <1>1, <2>2, UntouchedWhenUnchanged, UntouchedJustified
<1>6. CASE (\E e \in Event : PostWebhook(e)) \/ Crash \/ UNCHANGED vars
  <2>1. UNCHANGED dbVars
    BY <1>6 DEF PostWebhook, Crash, vars
  <2> QED
    BY <1>1, <2>1, UntouchedWhenUnchanged, UntouchedJustified
<1> QED
  BY <1>2, <1>3, <1>4, <1>5, <1>6 DEF Next

\* A justified request stays justified while others commit: the row keeps its
\* maker and rule, and the history only grows.
LEMMA CallStaysJustified ==
    ASSUME TypeOK, [Next]_vars, NEW c, c.payment \in Payment, CallJustified(c)
    PROVE  CallJustified(c)'
<1> DEFINE p == c.payment
<1>1. payments[p].status # "none"
  BY DEF CallJustified
<1>2. /\ history[p] \subseteq history'[p]
      /\ payments'[p].status # "none"
      /\ payments'[p].user_id = payments[p].user_id
      /\ payments'[p].rule = payments[p].rule
  BY <1>1, NextKept DEF Kept
<1> QED
  BY <1>2 DEF CallJustified, Independent

\* A request is justified by the checks of its read.
LEMMA BeginJustified ==
    ASSUME TypeOK, ApprovalInv, NEW h \in Handler, BeginRequest(h)
    PROVE  CallJustified(requests'[h])
<1>1. PICK p \in Payment, u \in User :
         \/ BeginApprove(h, p, u) \/ BeginReject(h, p, u)
         \/ BeginCancel(h, p, u) \/ BeginReview(h, p, u)
         \/ BeginProcess(h, p, u)
  BY DEF BeginRequest
<1>2. payments[p].status # "none"
  BY <1>1 DEF BeginApprove, BeginReject, BeginCancel, MayCancel, BeginReview,
              MayReview, BeginProcess, MayProcess, CanMove, Status
\* It is enough that the call this step puts in flight is justified.
<1>3. ASSUME NEW op, Begin(h, op, p, u),
             op \in {"first approval", "approve"} => Independent(p, u),
             op = "approve" /\ payments[p].rule = "dual" =>
               \E a \in history[p] : a.note = "first approval" /\ a.actor # u
      PROVE  CallJustified(requests'[h])
  <2> DEFINE c == [op |-> op, payment |-> p, user |-> u]
  <2>1. requests'[h] = c
    BY <1>3 DEF Begin, TypeOK
  <2>2. c.op = op /\ c.payment = p /\ c.user = u
    OBVIOUS
  <2> HIDE DEF c
  <2>3. CallJustified(c)
    BY <1>2, <1>3, <2>2 DEF CallJustified
  <2> QED
    BY <2>1, <2>3
<1>4. CASE BeginApprove(h, p, u)
  <2>1. Independent(p, u) /\ CanMove(payments[p].status, "processing")
    BY <1>4 DEF BeginApprove, MayCheck, Independent
  <2>2. CASE IsFirstApproval(p)
    BY <1>3, <1>4, <2>1, <2>2 DEF BeginApprove
  <2>3. CASE ~IsFirstApproval(p)
    <3>1. IsNewChecker(p, u) /\ Begin(h, "approve", p, u)
      BY <1>4, <2>3 DEF BeginApprove
    <3>2. payments[p].rule = "dual" =>
             \E a \in history[p] : a.note = "first approval" /\ a.actor # u
      BY <2>1, <2>3, <3>1
         DEF IsFirstApproval, IsNewChecker, ApprovalInv, RowJustified
    <3> QED
      BY <1>3, <2>1, <3>1, <3>2
  <2> QED
    BY <2>2, <2>3
<1>5. CASE ~BeginApprove(h, p, u)
  <2>1. \E op \in {"reject", "cancel", "clear", "block", "complete", "fail"} :
           Begin(h, op, p, u)
    BY <1>1, <1>5 DEF BeginReject, BeginCancel, BeginReview, BeginProcess
  <2> QED
    BY <1>3, <2>1
<1> QED
  BY <1>4, <1>5

\* Where a request in flight comes from.
LEMMA RequestStep ==
    ASSUME TypeOK, [Next]_vars, NEW h \in Handler, requests'[h] # None
    PROVE  \/ requests[h] # None /\ requests'[h] = requests[h]
           \/ BeginRequest(h) /\ UNCHANGED dbVars
<1>1. ASSUME NEW g \in Handler, BeginRequest(g)
      PROVE  \/ requests'[h] = requests[h]
             \/ g = h /\ UNCHANGED dbVars
  <2>1. \E op, x, u : Begin(g, op, x, u)
    BY <1>1 DEF BeginRequest, BeginApprove, BeginReject, BeginCancel,
                BeginReview, BeginProcess
  <2> QED
    BY <2>1 DEF Begin, TypeOK
<1>2. ASSUME NEW g \in Handler, CommitRequest(g)
      PROVE  requests'[h] = requests[h]
  <2>1. Finish(g)
    BY <1>2 DEF CommitRequest, CommitFirstApproval, CommitApprove,
                AbortApprove, CommitReview, CommitComplete, CommitFail
  <2> QED
    BY <2>1 DEF Finish, TypeOK
<1>3. ASSUME NEW p \in Payment, Submit(p)
      PROVE  requests' = requests
  BY <1>3 DEF Submit
<1>4. WorkerStep \/ FailureStep \/ HookStep => requests' = requests
  BY DEF WorkerStep, DispatchSkip, DispatchRead, DispatchManual, ProviderError,
         ProviderAccepts, ProviderCompletes, DispatchCommit, FailureStep,
         FailureRead, FailureCommit, HookStep, HookSkip, HookTake, HookAccept,
         HookRefuse, HookCommit
<1>5. (\E e \in Event : PostWebhook(e)) \/ UNCHANGED vars =>
         requests' = requests
  BY DEF PostWebhook, vars
<1>6. ~Crash
  BY DEF Crash
<1> QED
  BY <1>1, <1>2, <1>3, <1>4, <1>5, <1>6 DEF Next

LEMMA ApprovalInvStep ==
    ASSUME TypeOK, ApprovalInv, [Next]_vars
    PROVE  ApprovalInv'
<1>1. ASSUME NEW q \in Payment
      PROVE  RowJustified(q)'
  BY RowJustifiedStep
<1>2. ASSUME NEW h \in Handler, requests'[h] # None
      PROVE  CallJustified(requests[h])'
  <2>1. CASE requests[h] # None /\ requests'[h] = requests[h]
    <3> DEFINE c == requests[h]
    <3>1. c.payment \in Payment /\ CallJustified(c)
      BY <2>1, CallType DEF ApprovalInv
    <3>2. \A x : x.payment \in Payment /\ CallJustified(x) => CallJustified(x)'
      BY CallStaysJustified
    <3> QED
      BY <2>1, <3>1, <3>2
  <2>2. CASE BeginRequest(h) /\ UNCHANGED dbVars
    <3>1. CallJustified(requests'[h])
      BY <2>2, BeginJustified
    <3> QED
      BY <2>2, <3>1 DEF CallJustified, Independent, dbVars
  <2> QED
    BY <1>2, <2>1, <2>2, RequestStep
<1> QED
  BY <1>1, <1>2 DEF ApprovalInv

LEMMA ApprovalInvInit == Init => ApprovalInv
<1> SUFFICES ASSUME Init
             PROVE  ApprovalInv
  OBVIOUS
<1>1. ASSUME NEW p \in Payment
      PROVE  RowJustified(p)
  <2>1. \A r \in history[p] : r.note = "submitted"
    BY DEF Init
  <2>2. ledger[p].debit = 0
    BY DEF Init
  <2>3. payments[p].status = "none" => history[p] = {}
    BY DEF Init, NoRow, SeededRow
  <2>4. payments[p].checker_id = None
    BY DEF Init, NoRow, SeededRow
  <2>5. FourEyesOn(p)
    <3>1. ~(ledger[p].debit > 0)
      BY <2>2
    <3> QED
      BY <3>1 DEF FourEyesOn
  <2>6. ~\E r \in history[p] : r.note \in {"first approval", "approved"}
    BY <2>1
  <2> QED
    BY <2>2, <2>3, <2>4, <2>5, <2>6 DEF RowJustified
<1> QED
  BY <1>1 DEF Init, ApprovalInv

\* Whatever the interleaving of checkers, money leaves the account only after
\* the approvals its rule asks for, by different users who are not the maker
\* unless super_admin (payments.service approvePayment).
THEOREM TwoPairsOfEyes == Spec => []FourEyes
<1>1. ApprovalInv => FourEyes
  BY DEF ApprovalInv, RowJustified, FourEyes
<1>2. TypeOK /\ ApprovalInv /\ [Next]_vars => ApprovalInv'
  BY ApprovalInvStep
<1> QED
  BY <1>1, <1>2, ApprovalInvInit, TypeCorrect, PTL DEF Spec

----------------------------------------------------------------------------
(* Terminal statuses.                                                      *)

LEMMA TerminalStatus ==
    ASSUME NEW s \in Terminal
    PROVE  /\ s \notin {"none", "processing", "pending_compliance", "pending_manual_processing"}
           /\ \A t : ~CanMove(s, t)
BY DEF Terminal, Transitions, Status, CanMove

LEMMA RequestsWhenQuiet ==
    ASSUME TypeOK, NEW p \in Payment, payments[p].status \in Terminal, Quiet(p),
           NEW h \in Handler, BeginRequest(h)
    PROVE  Quiet(p)' /\ UNCHANGED dbVars
<1>1. PICK q \in Payment, u \in User :
         \/ BeginApprove(h, q, u) \/ BeginReject(h, q, u)
         \/ BeginCancel(h, q, u) \/ BeginReview(h, q, u)
         \/ BeginProcess(h, q, u)
  BY DEF BeginRequest
<1>2. q # p
  BY <1>1, TerminalStatus DEF BeginApprove, BeginReject, BeginCancel, MayCancel,
                              BeginReview, MayReview, BeginProcess, MayProcess
<1>3. PICK op : Begin(h, op, q, u)
  BY <1>1 DEF BeginApprove, BeginReject, BeginCancel, BeginReview, BeginProcess
<1>4. \A g \in Handler : requests'[g] # None => requests'[g].payment # p
  <2>1. requests' = [requests EXCEPT ![h] = [op |-> op, payment |-> q, user |-> u]]
    BY <1>3 DEF Begin
  <2> QED
    BY <1>2, <2>1 DEF Quiet, TypeOK
<1> QED
  BY <1>3, <1>4 DEF Begin, Quiet, dbVars, queueVars, hookVars

LEMMA CommitWhenQuiet ==
    ASSUME TypeOK, NEW p \in Payment, Quiet(p), NEW h \in Handler, CommitRequest(h)
    PROVE  Quiet(p)' /\ payments'[p].status = payments[p].status
<1>1. requests[h] # None /\ Finish(h)
  BY DEF CommitRequest, CommitFirstApproval, CommitApprove, AbortApprove, CommitReview,
         CommitComplete, CommitFail
<1>2. requests[h].payment # p
  BY <1>1 DEF Quiet
<1>3. payments'[p] = payments[p]
  <2>1. PICK q : q = requests[h].payment /\ q # p
    BY <1>2
  <2>2. CASE CommitFirstApproval(h)
    BY <2>1, <2>2 DEF CommitFirstApproval, TypeOK
  <2>3. CASE CommitApprove(h)
    BY <2>1, <2>3 DEF CommitApprove, TypeOK
  <2>4. CASE AbortApprove(h)
    BY <2>4 DEF AbortApprove, dbVars
  <2>5. CASE CommitReview(h)
    BY <2>1, <2>5 DEF CommitReview, SetStatus, TypeOK
  <2>6. CASE CommitComplete(h)
    BY <2>1, <2>6 DEF CommitComplete, TypeOK
  <2>7. CASE CommitFail(h)
    BY <2>1, <2>7 DEF CommitFail, SetStatus, TypeOK
  <2> QED
    BY <2>2, <2>3, <2>4, <2>5, <2>6, <2>7 DEF CommitRequest
<1>4. UNCHANGED <<worker, failures, hookWorker>>
  BY DEF CommitRequest, CommitFirstApproval, CommitApprove, AbortApprove, CommitReview,
         CommitComplete, CommitFail, queueVars, hookVars
<1>5. \A g \in Handler : requests'[g] # None => requests'[g] = requests[g]
  BY <1>1 DEF Finish, TypeOK
<1> QED
  BY <1>3, <1>4, <1>5 DEF Quiet

LEMMA WorkersWhenQuiet ==
    ASSUME TypeOK, NEW p \in Payment, payments[p].status \in Terminal, Quiet(p),
           WorkerStep \/ FailureStep \/ HookStep
    PROVE  Quiet(p)' /\ payments'[p].status = payments[p].status
<1>1. ASSUME NEW j \in jobs, DispatchSkip(j) \/ DispatchRead(j)
      PROVE  Quiet(p)' /\ payments'[p].status = payments[p].status
  BY <1>1, TerminalStatus DEF DispatchSkip, DispatchRead, Quiet, dbVars, hookVars
<1>2. ASSUME DispatchManual \/ DispatchCommit
      PROVE  Quiet(p)' /\ payments'[p].status = payments[p].status
  <2>1. worker.job.payment # p
    BY <1>2 DEF DispatchManual, DispatchCommit, Quiet
  <2>2. payments'[p] = payments[p]
    BY <1>2, <2>1 DEF DispatchManual, DispatchCommit, TypeOK
  <2> QED
    BY <1>2, <2>2 DEF DispatchManual, DispatchCommit, Quiet, IdleWorker, hookVars
<1>3. ASSUME ProviderError \/ ProviderAccepts
      PROVE  Quiet(p)' /\ payments'[p].status = payments[p].status
  <2>1. worker.job.payment # p /\ JobThrows
    BY <1>3 DEF ProviderError, ProviderAccepts, Quiet
  <2>2. \A f \in failures' : f \in failures \/ f.payment = worker.job.payment
    BY <2>1 DEF JobThrows
  <2> QED
    BY <1>3, <2>1, <2>2 DEF ProviderError, ProviderAccepts, JobThrows, Quiet, IdleWorker,
                            dbVars, hookVars
<1>4. ASSUME ProviderCompletes
      PROVE  Quiet(p)' /\ payments'[p].status = payments[p].status
  <2>1. worker.pc # "idle" /\ worker'.job = worker.job
    BY <1>4 DEF ProviderCompletes, TypeOK
  <2> QED
    BY <1>4, <2>1 DEF ProviderCompletes, Quiet, dbVars, hookVars
<1>5. ASSUME NEW f \in failures, FailureRead(f) \/ FailureCommit(f)
      PROVE  Quiet(p)' /\ payments'[p].status = payments[p].status
  <2>1. f.payment # p /\ f.payment \in Payment /\ [f EXCEPT !.pc = "commit"].payment = f.payment
    BY DEF Quiet, TypeOK
  <2>2. payments'[p] = payments[p]
    BY <1>5, <2>1 DEF FailureRead, FailureCommit, SetStatus, TypeOK, dbVars
  <2>3. \A g \in failures' : g \in failures \/ g.payment = f.payment
    BY <1>5, <2>1 DEF FailureRead, FailureCommit
  <2>4. UNCHANGED <<requests, worker, hookWorker>>
    BY <1>5 DEF FailureRead, FailureCommit, hookVars
  <2> QED
    BY <2>1, <2>2, <2>3, <2>4 DEF Quiet
<1>6. ASSUME HookStep
      PROVE  Quiet(p)' /\ payments'[p].status = payments[p].status
  <2>1. UNCHANGED <<requests, worker, failures>>
    BY <1>6 DEF HookStep, HookSkip, HookTake, HookAccept, HookRefuse, HookCommit, queueVars
  <2>2. CASE HookCommit
    <3>1. hookWorker.hook.event.payment # p
      BY <2>2 DEF HookCommit, Quiet
    <3>2. payments'[p] = payments[p]
      BY <2>2, <3>1 DEF HookCommit, SetStatus, TypeOK
    <3> QED
      BY <2>1, <2>2, <3>2 DEF HookCommit, Quiet, IdleHookWorker
  <2>3. CASE HookAccept
    <3>1. hookWorker.hook.event.payment # p /\ hookWorker'.hook = hookWorker.hook
      BY <2>3, TerminalStatus DEF HookAccept, TypeOK
    <3> QED
      BY <2>1, <2>3, <3>1 DEF HookAccept, Quiet, dbVars
  <2>4. CASE ~HookCommit /\ ~HookAccept
    <3>1. UNCHANGED dbVars /\ (hookWorker'.pc # "commit" \/ hookWorker' = hookWorker)
      BY <1>6, <2>4 DEF HookStep, HookSkip, HookTake, HookRefuse, IdleHookWorker
    <3> QED
      BY <2>1, <3>1 DEF Quiet, dbVars
  <2> QED
    BY <2>2, <2>3, <2>4
<1> QED
  BY <1>1, <1>2, <1>3, <1>4, <1>5, <1>6 DEF WorkerStep, FailureStep

\* A payment that is completed, failed, rejected or cancelled stays so once the
\* operations that had read its row before are over: whatever comes later finds
\* a status from which it cannot move (payments.stateMachine assertTransition and
\* the checks of the admin and compliance services).
THEOREM TerminalStatusesAreFinal == Spec => TerminalIsFinalWhenQuiet
<1>1. ASSUME TypeOK, Next, NEW p \in Payment, payments[p].status \in Terminal, Quiet(p)
      PROVE  Quiet(p)' /\ payments'[p].status = payments[p].status
  <2>1. ASSUME NEW q \in Payment, Submit(q)
        PROVE  Quiet(p)' /\ payments'[p].status = payments[p].status
    <3>1. q # p
      BY <1>1, <2>1, TerminalStatus DEF Submit
    <3> QED
      BY <2>1, <1>1, <3>1 DEF Submit, TypeOK, Quiet, hookVars
  <2>2. CASE \E h \in Handler : BeginRequest(h) \/ CommitRequest(h)
    BY <1>1, <2>2, RequestsWhenQuiet, CommitWhenQuiet DEF dbVars
  <2>3. CASE \E e \in Event : PostWebhook(e)
    BY <1>1, <2>3 DEF PostWebhook, Quiet, dbVars, queueVars
  <2>4. CASE Crash
    BY <2>4 DEF Crash, Quiet, IdleWorker, IdleHookWorker, dbVars
  <2> QED
    BY <1>1, <2>1, <2>2, <2>3, <2>4, WorkersWhenQuiet DEF Next
<1>2. TypeOK /\ [Next]_vars =>
        [\A p \in Payment :
          payments[p].status \in Terminal /\ Quiet(p) =>
              Quiet(p)' /\ payments'[p].status = payments[p].status]_vars
  BY <1>1
<1> QED
  BY <1>2, TypeCorrect, PTL DEF Spec, TerminalIsFinalWhenQuiet

----------------------------------------------------------------------------
(* A debit is given back once.                                             *)

\* The debits a job still pays out or a failure handler is about to give back.
Due(p) == {j.entry : j \in {j \in jobs : j.payment = p}}
          \cup {f.entry : f \in {f \in failures : f.payment = p}}

\* Each debit has one job or one failure handler, or had one.
OneOwner ==
    /\ \A i, j \in jobs : i.payment = j.payment /\ i.entry = j.entry => i = j
    /\ \A f, g \in failures : f.payment = g.payment /\ f.entry = g.entry => f = g
    /\ \A j \in jobs, f \in failures : j.payment = f.payment => j.entry # f.entry
    /\ \A j \in jobs : j.entry <= ledger[j.payment].debit
    /\ \A f \in failures : f.entry <= ledger[f.payment].debit
    /\ worker.pc # "idle" => worker.job \in jobs

Elsewhere(p) == Noted(p, {"webhook", "ops"})

\* There are as many debits as credits and as those still due, or more.
Balanced(p) ==
    /\ IsFiniteSet(Due(p))
    /\ \E k, m \in Nat :
         /\ ledger[p].credit = k * SourceAmount
         /\ ledger[p].debit = m * (SourceAmount + FeeAmount)
         /\ k + Cardinality(Due(p)) <= m

ReversalInv == OneOwner /\ \A p \in Payment : Elsewhere(p) \/ Balanced(p)

LEMMA JobFields ==
    ASSUME TypeOK
    PROVE  /\ \A j \in jobs : j.payment \in Payment /\ j.entry \in Nat
           /\ \A f \in failures : f.payment \in Payment /\ f.entry \in Nat
           /\ \A p \in Payment : ledger[p].debit \in Nat /\ ledger[p].credit \in Nat
BY DEF TypeOK, Job

LEMMA DueMembers ==
    ASSUME NEW p, NEW e
    PROVE  e \in Due(p) <=> \/ \E j \in jobs : j.payment = p /\ j.entry = e
                            \/ \E f \in failures : f.payment = p /\ f.entry = e
BY DEF Due

LEMMA DueMembersNext ==
    ASSUME NEW p, NEW e
    PROVE  e \in Due(p)' <=> \/ \E j \in jobs' : j.payment = p /\ j.entry = e
                             \/ \E f \in failures' : f.payment = p /\ f.entry = e
BY DEF Due

LEMMA ElsewhereStays ==
    ASSUME TypeOK, [Next]_vars, NEW p \in Payment, Elsewhere(p)
    PROVE  Elsewhere(p)'
BY NextKept DEF Kept, Elsewhere, Noted

LEMMA Times ==
    ASSUME NEW k \in Nat, NEW m \in Nat, NEW a \in Nat, NEW b \in Nat, k <= m
    PROVE  (k * a) * b <= (m * b) * a
<1>1. PICK d \in Nat : m = k + d
  <2>1. m - k \in Nat /\ m = k + (m - k)
    OBVIOUS
  <2> QED
    BY <2>1
<1>2. (m * b) * a = (k * a) * b + (d * b) * a
  BY <1>1
<1>3. d * b \in Nat
  OBVIOUS
<1>4. (d * b) * a \in Nat
  BY <1>3
<1>5. k * a \in Nat
  OBVIOUS
<1>6. (k * a) * b \in Nat
  BY <1>5
<1> QED
  BY <1>2, <1>4, <1>6

LEMMA BalancedIsEnough == ASSUME ReversalInv PROVE ReversedAtMostOnce
<1> SUFFICES ASSUME NEW p \in Payment, ~Noted(p, {"webhook", "ops"})
             PROVE  ledger[p].credit * (SourceAmount + FeeAmount) <= ledger[p].debit * SourceAmount
  BY DEF ReversedAtMostOnce
<1>1. PICK k, m \in Nat :
         /\ ledger[p].credit = k * SourceAmount
         /\ ledger[p].debit = m * (SourceAmount + FeeAmount)
         /\ k + Cardinality(Due(p)) <= m
  BY DEF ReversalInv, Elsewhere, Balanced
<1>2. Cardinality(Due(p)) \in Nat
  BY FS_CardinalityType DEF ReversalInv, Elsewhere, Balanced
<1>3. k <= m
  BY <1>1, <1>2
<1>4. SourceAmount \in Nat /\ SourceAmount + FeeAmount \in Nat
  OBVIOUS
<1> QED
  BY <1>1, <1>3, <1>4, Times

\* A step after which no more debits of p are due.
LEMMA BalancedShrinks ==
    ASSUME NEW p \in Payment, Balanced(p), ledger'[p] = ledger[p],
           \A e : e \in Due(p)' => e \in Due(p)
    PROVE  Balanced(p)'
<1>1. Due(p)' \in SUBSET Due(p)
  OBVIOUS
<1>2. IsFiniteSet(Due(p)') /\ Cardinality(Due(p)') <= Cardinality(Due(p))
      /\ Cardinality(Due(p)') \in Nat /\ Cardinality(Due(p)) \in Nat
  BY <1>1, FS_Subset, FS_CardinalityType DEF Balanced
<1>3. PICK k, m \in Nat :
         /\ ledger[p].credit = k * SourceAmount
         /\ ledger[p].debit = m * (SourceAmount + FeeAmount)
         /\ k + Cardinality(Due(p)) <= m
  BY DEF Balanced
<1>4. k + Cardinality(Due(p)') <= m
  BY <1>2, <1>3
<1> QED
  BY <1>2, <1>3, <1>4 DEF Balanced

\* A debit makes one more due, if its job is queued.
LEMMA BalancedDebit ==
    ASSUME TypeOK, NEW p \in Payment, Balanced(p), Debit(p),
           \A e : e \in Due(p)' => e \in Due(p) \/ e = ledger'[p].debit
    PROVE  Balanced(p)'
<1> DEFINE D == Due(p) \cup {ledger'[p].debit}
<1>1. IsFiniteSet(D) /\ Cardinality(D) <= Cardinality(Due(p)) + 1
      /\ Cardinality(D) \in Nat /\ Cardinality(Due(p)) \in Nat
  <2>1. IsFiniteSet(Due(p)) /\ Cardinality(Due(p)) \in Nat
    BY FS_CardinalityType DEF Balanced
  <2>2. PICK n : n = ledger'[p].debit
    OBVIOUS
  <2>3. /\ IsFiniteSet(Due(p) \cup {n})
        /\ Cardinality(Due(p) \cup {n})
             = IF n \in Due(p) THEN Cardinality(Due(p)) ELSE Cardinality(Due(p)) + 1
    BY <2>1, FS_AddElement
  <2> QED
    BY <2>1, <2>2, <2>3
<1>2. Due(p)' \in SUBSET D
  OBVIOUS
<1>3. IsFiniteSet(Due(p)') /\ Cardinality(Due(p)') <= Cardinality(D)
      /\ Cardinality(Due(p)') \in Nat
  <2> HIDE DEF D
  <2> QED
    BY <1>1, <1>2, FS_Subset, FS_CardinalityType
<1>4. PICK k, m \in Nat :
         /\ ledger[p].credit = k * SourceAmount
         /\ ledger[p].debit = m * (SourceAmount + FeeAmount)
         /\ k + Cardinality(Due(p)) <= m
  BY DEF Balanced
<1>5. /\ ledger'[p].credit = ledger[p].credit
      /\ ledger'[p].debit = ledger[p].debit + (SourceAmount + FeeAmount)
  BY DEF Debit, TypeOK
<1>6. (m + 1) * (SourceAmount + FeeAmount)
        = m * (SourceAmount + FeeAmount) + (SourceAmount + FeeAmount)
  OBVIOUS
<1>7. k + Cardinality(Due(p)') <= m + 1
  <2> HIDE DEF D
  <2> QED
    BY <1>1, <1>3, <1>4
<1> QED
  BY <1>3, <1>4, <1>5, <1>6, <1>7 DEF Balanced

\* A failure handler gives back a debit that was due.
LEMMA BalancedCredit ==
    ASSUME TypeOK, NEW p \in Payment, Balanced(p), Credit(p), NEW d \in Due(p),
           \A e : e \in Due(p)' => e \in Due(p) /\ e # d
    PROVE  Balanced(p)'
<1> DEFINE D == Due(p) \ {d}
<1>1. IsFiniteSet(D) /\ Cardinality(D) = Cardinality(Due(p)) - 1
      /\ Cardinality(D) \in Nat /\ Cardinality(Due(p)) \in Nat
  BY FS_RemoveElement, FS_CardinalityType DEF Balanced
<1>2. Due(p)' \in SUBSET D
  OBVIOUS
<1>3. IsFiniteSet(Due(p)') /\ Cardinality(Due(p)') <= Cardinality(D)
      /\ Cardinality(Due(p)') \in Nat
  <2> HIDE DEF D
  <2> QED
    BY <1>1, <1>2, FS_Subset, FS_CardinalityType
<1>4. PICK k, m \in Nat :
         /\ ledger[p].credit = k * SourceAmount
         /\ ledger[p].debit = m * (SourceAmount + FeeAmount)
         /\ k + Cardinality(Due(p)) <= m
  BY DEF Balanced
<1>5. /\ ledger'[p].debit = ledger[p].debit
      /\ ledger'[p].credit = ledger[p].credit + SourceAmount
  BY DEF Credit, TypeOK
<1>6. (k + 1) * SourceAmount = k * SourceAmount + SourceAmount
  OBVIOUS
<1>7. k + 1 + Cardinality(Due(p)') <= m
  <2> HIDE DEF D
  <2> QED
    BY <1>1, <1>3, <1>4
<1> QED
  BY <1>3, <1>4, <1>5, <1>6, <1>7 DEF Balanced

\* A debit and its job.
LEMMA ReversalDebit ==
    ASSUME TypeOK, ReversalInv, NEW x \in Payment, Debit(x), EnqueueDispatch(x),
           UNCHANGED <<worker, failures>>,
           \A p \in Payment : Elsewhere(p) => Elsewhere(p)'
    PROVE  ReversalInv'
<1> DEFINE n == ledger'[x].debit
           new == [payment |-> x, entry |-> n, tries |-> 0]
<1>1. /\ n = ledger[x].debit + (SourceAmount + FeeAmount)
      /\ n \in Nat /\ n > ledger[x].debit
      /\ \A p \in Payment : /\ ledger'[p].debit >= ledger[p].debit
                            /\ ledger'[p].debit \in Nat
                            /\ p # x => ledger'[p] = ledger[p]
  <2>1. ledger[x].debit \in Nat
    BY JobFields
  <2>2. \A p \in Payment : ledger'[p].debit \in Nat
    BY DebitType
  <2>3. \A p \in Payment : p # x => ledger'[p] = ledger[p]
    BY DEF Debit, TypeOK
  <2> QED
    BY <2>1, <2>2, <2>3, DebitType
<1>2. new.payment = x /\ new.entry = n
  OBVIOUS
<1>3. jobs' = jobs \cup {new} \/ jobs' = jobs
  BY DEF EnqueueDispatch
<1> HIDE DEF n, new
<1>4. /\ \A j \in jobs : j.payment = x => j.entry < n
      /\ \A f \in failures : f.payment = x => f.entry < n
  BY <1>1, JobFields DEF ReversalInv, OneOwner
<1>5. \A j \in jobs' : j \in jobs \/ j = new
  BY <1>3
<1>6. OneOwner'
  <2>1. \A i, j \in jobs' : i.payment = j.payment /\ i.entry = j.entry => i = j
    BY <1>1, <1>2, <1>4, <1>5, JobFields DEF ReversalInv, OneOwner
  <2>2. \A j \in jobs', f \in failures' : j.payment = f.payment => j.entry # f.entry
    BY <1>1, <1>2, <1>4, <1>5, JobFields DEF ReversalInv, OneOwner
  <2>3. \A j \in jobs' : j.entry <= ledger'[j.payment].debit
    <3>1. n <= ledger'[x].debit
      BY <1>1 DEF n
    <3> QED
      BY <1>1, <1>2, <1>5, <3>1, JobFields DEF ReversalInv, OneOwner
  <2>4. \A f \in failures' : f.entry <= ledger'[f.payment].debit
    BY <1>1, JobFields DEF ReversalInv, OneOwner
  <2>5. worker'.pc # "idle" => worker'.job \in jobs'
    BY <1>3 DEF ReversalInv, OneOwner
  <2> QED
    BY <2>1, <2>2, <2>3, <2>4, <2>5 DEF ReversalInv, OneOwner
<1>7. ASSUME NEW p \in Payment, ~Elsewhere(p)'
      PROVE  Balanced(p)'
  <2>1. Balanced(p)
    BY <1>7 DEF ReversalInv
  <2>2. \A e : e \in Due(p)' => e \in Due(p) \/ (p = x /\ e = n)
    BY <1>2, <1>5, DueMembers, DueMembersNext
  <2>3. CASE p = x
    BY <2>1, <2>2, <2>3, BalancedDebit DEF n
  <2>4. CASE p # x
    BY <1>1, <2>1, <2>2, <2>4, BalancedShrinks
  <2> QED
    BY <2>3, <2>4
<1> QED
  BY <1>6, <1>7 DEF ReversalInv

\* A step that debits nothing and hands no debit out anew.
LEMMA ReversalFrame ==
    ASSUME ReversalInv, OneOwner',
           \A p \in Payment : Elsewhere(p) => Elsewhere(p)',
           \A p \in Payment : ledger'[p] = ledger[p] \/ Elsewhere(p)',
           \A j \in jobs' : \E i \in jobs : i.payment = j.payment /\ i.entry = j.entry,
           \A f \in failures' :
             \/ \E i \in jobs : i.payment = f.payment /\ i.entry = f.entry
             \/ \E g \in failures : g.payment = f.payment /\ g.entry = f.entry
    PROVE  ReversalInv'
<1>1. ASSUME NEW p \in Payment, ~Elsewhere(p)'
      PROVE  Balanced(p)'
  <2>1. Balanced(p) /\ ledger'[p] = ledger[p]
    BY <1>1 DEF ReversalInv
  <2>2. \A e : e \in Due(p)' => e \in Due(p)
    BY DueMembers, DueMembersNext
  <2> QED
    BY <2>1, <2>2, BalancedShrinks
<1> QED
  BY <1>1 DEF ReversalInv

\* A step of the queue: nothing changes but who owns the debits.
LEMMA ReversalQueue ==
    ASSUME TypeOK, ReversalInv, UNCHANGED dbVars,
           \/ UNCHANGED <<jobs, failures>> /\ (worker'.pc # "idle" => worker'.job \in jobs)
           \/ UNCHANGED failures /\ worker'.pc = "idle" /\ jobs' \subseteq jobs
           \/ UNCHANGED jobs /\ failures' \subseteq failures
              /\ (worker'.pc # "idle" => worker'.job \in jobs)
    PROVE  ReversalInv'
<1>1. OneOwner'
  BY DEF ReversalInv, OneOwner, dbVars
<1>2. jobs' \subseteq jobs /\ failures' \subseteq failures
  OBVIOUS
<1> QED
  BY <1>1, <1>2, ReversalFrame DEF dbVars, Elsewhere, Noted

\* The last attempt hands the debit from the job to the failure handler.
LEMMA ReversalThrows ==
    ASSUME TypeOK, ReversalInv, UNCHANGED dbVars, worker.pc # "idle", JobThrows
    PROVE  ReversalInv'
<1> DEFINE j == worker.job
           next == [j EXCEPT !.tries = @ + 1]
           f == [payment |-> j.payment, entry |-> j.entry, pc |-> "read"]
<1>1. j \in jobs /\ j \in Job
  BY WorkerType DEF ReversalInv, OneOwner
<1>2. /\ next.payment = j.payment /\ next.entry = j.entry
      /\ f.payment = j.payment /\ f.entry = j.entry
  BY <1>1 DEF Job
<1>3. worker'.pc = "idle"
  BY DEF JobThrows, IdleWorker
<1>4. \/ jobs' = jobs \ {j} /\ failures' = failures \cup {f}
      \/ jobs' = (jobs \ {j}) \cup {next} /\ failures' = failures
  BY DEF JobThrows, AttemptsExhausted
<1> HIDE DEF j, next, f
<1>5. OneOwner'
  <2>1. CASE jobs' = jobs \ {j} /\ failures' = failures \cup {f}
    <3>1. \A g, h \in failures' : g.payment = h.payment /\ g.entry = h.entry => g = h
      BY <1>1, <1>2, <2>1 DEF ReversalInv, OneOwner
    <3>2. \A i \in jobs', g \in failures' : i.payment = g.payment => i.entry # g.entry
      BY <1>1, <1>2, <2>1 DEF ReversalInv, OneOwner
    <3>3. \A g \in failures' : g.entry <= ledger'[g.payment].debit
      BY <1>1, <1>2, <2>1 DEF ReversalInv, OneOwner, dbVars
    <3> QED
      BY <1>3, <2>1, <3>1, <3>2, <3>3 DEF ReversalInv, OneOwner, dbVars
  <2>2. CASE jobs' = (jobs \ {j}) \cup {next} /\ failures' = failures
    <3>1. \A i, k \in jobs' : i.payment = k.payment /\ i.entry = k.entry => i = k
      BY <1>1, <1>2, <2>2 DEF ReversalInv, OneOwner
    <3>2. \A i \in jobs', g \in failures' : i.payment = g.payment => i.entry # g.entry
      BY <1>1, <1>2, <2>2 DEF ReversalInv, OneOwner
    <3>3. \A i \in jobs' : i.entry <= ledger'[i.payment].debit
      BY <1>1, <1>2, <2>2 DEF ReversalInv, OneOwner, dbVars
    <3> QED
      BY <1>3, <2>2, <3>1, <3>2, <3>3 DEF ReversalInv, OneOwner, dbVars
  <2> QED
    BY <1>4, <2>1, <2>2
<1>6. /\ \A k \in jobs' : \E i \in jobs : i.payment = k.payment /\ i.entry = k.entry
      /\ \A g \in failures' :
           \/ \E i \in jobs : i.payment = g.payment /\ i.entry = g.entry
           \/ \E h \in failures : h.payment = g.payment /\ h.entry = g.entry
  BY <1>1, <1>2, <1>4
<1> QED
  BY <1>5, <1>6, ReversalFrame DEF dbVars, Elsewhere, Noted

\* A credit of an operator or a webhook leaves its note.
LEMMA ReversalElsewhere ==
    ASSUME TypeOK, ReversalInv, NEW x \in Payment, Credit(x), Elsewhere(x)',
           \A p \in Payment : Elsewhere(p) => Elsewhere(p)',
           UNCHANGED queueVars
    PROVE  ReversalInv'
<1>1. \A p \in Payment : /\ ledger'[p].debit = ledger[p].debit
                         /\ p # x => ledger'[p] = ledger[p]
  BY DEF Credit, TypeOK
<1>2. OneOwner'
  BY <1>1, JobFields DEF ReversalInv, OneOwner, queueVars
<1>3. \A p \in Payment : ledger'[p] = ledger[p] \/ Elsewhere(p)'
  BY <1>1
<1> QED
  BY <1>2, <1>3, ReversalFrame DEF queueVars

LEMMA ReversalFailureStep ==
    ASSUME TypeOK, ReversalInv, NEW f \in failures, FailureRead(f) \/ FailureCommit(f),
           \A p \in Payment : Elsewhere(p) => Elsewhere(p)'
    PROVE  ReversalInv'
<1>0. f.payment \in Payment /\ UNCHANGED <<jobs, worker>>
  BY JobFields DEF FailureRead, FailureCommit
<1>1. CASE FailureRead(f)
  <2> DEFINE g == [f EXCEPT !.pc = "commit"]
  <2>1. g.payment = f.payment /\ g.entry = f.entry
    BY DEF TypeOK
  <2>2. failures' = failures \ {f} \/ failures' = (failures \ {f}) \cup {g}
    BY <1>1 DEF FailureRead
  <2> HIDE DEF g
  <2>3. OneOwner'
    <3>1. \A a, b \in failures' : a.payment = b.payment /\ a.entry = b.entry => a = b
      BY <2>1, <2>2 DEF ReversalInv, OneOwner
    <3>2. \A i \in jobs', a \in failures' : i.payment = a.payment => i.entry # a.entry
      BY <1>0, <2>1, <2>2 DEF ReversalInv, OneOwner
    <3>3. \A a \in failures' : a.entry <= ledger[a.payment].debit
      BY <2>1, <2>2 DEF ReversalInv, OneOwner
    <3> QED
      BY <1>0, <1>1, <3>1, <3>2, <3>3 DEF ReversalInv, OneOwner, FailureRead, dbVars
  <2>4. \A a \in failures' : \E b \in failures : b.payment = a.payment /\ b.entry = a.entry
    BY <2>1, <2>2
  <2> QED
    BY <1>0, <1>1, <2>3, <2>4, ReversalFrame DEF FailureRead, dbVars
<1>2. CASE FailureCommit(f)
  <2>1. Credit(f.payment) /\ failures' = failures \ {f}
    BY <1>2 DEF FailureCommit
  <2>2. \A p \in Payment : /\ ledger'[p].debit = ledger[p].debit
                           /\ p # f.payment => ledger'[p] = ledger[p]
    BY <1>0, <2>1 DEF Credit, TypeOK
  <2>3. OneOwner'
    BY <1>0, <2>1, <2>2, JobFields DEF ReversalInv, OneOwner
  <2>4. ASSUME NEW p \in Payment, ~Elsewhere(p)'
        PROVE  Balanced(p)'
    <3>1. Balanced(p)
      BY <2>4 DEF ReversalInv
    <3>2. \A e : e \in Due(p)' => e \in Due(p)
      BY <1>0, <2>1, DueMembers, DueMembersNext
    <3>3. CASE p = f.payment
      <4>1. f.entry \in Due(p)
        BY <3>3, DueMembers
      <4>2. f.entry \notin Due(p)'
        BY <1>0, <2>1, <3>3, DueMembersNext DEF ReversalInv, OneOwner
      <4> QED
        BY <2>1, <3>1, <3>2, <3>3, <4>1, <4>2, BalancedCredit
    <3>4. CASE p # f.payment
      BY <2>2, <3>1, <3>2, <3>4, BalancedShrinks
    <3> QED
      BY <3>3, <3>4
  <2> QED
    BY <2>3, <2>4 DEF ReversalInv
<1> QED
  BY <1>1, <1>2

\* A step that leaves the queue alone and takes and gives no money.
LEMMA ReversalIdle ==
    ASSUME ReversalInv, UNCHANGED <<ledger, queueVars>>,
           \A p \in Payment : Elsewhere(p) => Elsewhere(p)'
    PROVE  ReversalInv'
<1>1. OneOwner'
  BY DEF ReversalInv, OneOwner, queueVars
<1> QED
  BY <1>1, ReversalFrame DEF queueVars

LEMMA ReversalWorker ==
    ASSUME TypeOK, ReversalInv, WorkerStep,
           \A p \in Payment : Elsewhere(p) => Elsewhere(p)'
    PROVE  ReversalInv'
<1>1. ASSUME NEW j \in jobs, DispatchSkip(j) \/ DispatchRead(j)
      PROVE  ReversalInv'
  <2>1. /\ UNCHANGED <<dbVars, failures>>
        /\ \/ jobs' \subseteq jobs /\ worker'.pc = "idle"
           \/ jobs' = jobs /\ worker'.job \in jobs
    BY <1>1 DEF DispatchSkip, DispatchRead
  <2> QED
    BY <2>1, ReversalQueue
<1>2. CASE DispatchManual \/ DispatchCommit
  <2>1. jobs' \subseteq jobs /\ worker'.pc = "idle" /\ UNCHANGED <<ledger, failures>>
    BY <1>2 DEF DispatchManual, DispatchCommit, IdleWorker
  <2>2. OneOwner'
    BY <2>1 DEF ReversalInv, OneOwner
  <2> QED
    BY <2>1, <2>2, ReversalFrame
<1>3. CASE ProviderError \/ ProviderAccepts
  BY <1>3, ReversalThrows DEF ProviderError, ProviderAccepts
<1>4. CASE ProviderCompletes
  <2>1. worker.pc # "idle" /\ worker'.job = worker.job /\ UNCHANGED <<dbVars, jobs, failures>>
    BY <1>4 DEF ProviderCompletes, TypeOK
  <2>2. worker'.job \in jobs
    BY <2>1 DEF ReversalInv, OneOwner
  <2> QED
    BY <2>1, <2>2, ReversalQueue
<1> QED
  BY <1>1, <1>2, <1>3, <1>4 DEF WorkerStep

LEMMA RecordElsewhere ==
    ASSUME TypeOK, NEW p \in Payment, NEW s, NEW actor, NEW note \in {"webhook", "ops"},
           Record(p, s, actor, note)
    PROVE  Elsewhere(p)'
<1> DEFINE r == [status |-> s, actor |-> actor, note |-> note]
<1>1. r \in history'[p] /\ r.note = note
  BY DEF Record, TypeOK
<1> QED
  BY <1>1 DEF Elsewhere, Noted

LEMMA ReversalStep ==
    ASSUME TypeOK, ReversalInv, [Next]_vars
    PROVE  ReversalInv'
<1>0. \A p \in Payment : Elsewhere(p) => Elsewhere(p)'
  BY ElsewhereStays
<1>1. ASSUME NEW p \in Payment, Submit(p)
      PROVE  ReversalInv'
  <2>1. \/ Debit(p) /\ EnqueueDispatch(p) /\ UNCHANGED <<worker, failures>>
        \/ UNCHANGED <<ledger, queueVars>>
    BY <1>1 DEF Submit, queueVars
  <2> QED
    BY <1>0, <2>1, ReversalDebit, ReversalIdle
<1>2. ASSUME NEW h \in Handler, BeginRequest(h)
      PROVE  ReversalInv'
  <2>1. \E op, x, u : Begin(h, op, x, u)
    BY <1>2 DEF BeginRequest, BeginApprove, BeginReject, BeginCancel,
                BeginReview, BeginProcess
  <2> QED
    BY <1>0, <2>1, ReversalIdle DEF Begin, dbVars
<1>3. ASSUME NEW h \in Handler, CommitRequest(h)
      PROVE  ReversalInv'
  <2>1. CASE CommitApprove(h)
    <3>1. requests[h].payment \in Payment
      BY <2>1, CallType DEF CommitApprove
    <3>2. /\ Debit(requests[h].payment) /\ EnqueueDispatch(requests[h].payment)
          /\ UNCHANGED <<worker, failures>>
      BY <2>1 DEF CommitApprove
    <3> QED
      BY <1>0, <3>1, <3>2, ReversalDebit
  <2>2. CASE CommitFail(h)
    <3>1. PICK x \in Payment : x = requests[h].payment
      BY <2>2, CallType DEF CommitFail
    <3>2. /\ Credit(x) /\ UNCHANGED queueVars
          /\ Record(x, "failed", requests[h].user, "ops")
      BY <2>2, <3>1 DEF CommitFail
    <3>3. Elsewhere(x)'
      BY <3>1, <3>2, RecordElsewhere
    <3> QED
      BY <1>0, <3>1, <3>2, <3>3, ReversalElsewhere
  <2>3. CASE ~CommitApprove(h) /\ ~CommitFail(h)
    <3>1. UNCHANGED <<ledger, queueVars>>
      BY <1>3, <2>3 DEF CommitRequest, CommitFirstApproval, AbortApprove, CommitReview,
                        CommitComplete, dbVars
    <3> QED
      BY <1>0, <3>1, ReversalIdle
  <2> QED
    BY <2>1, <2>2, <2>3
<1>4. CASE WorkerStep
  BY <1>0, <1>4, ReversalWorker
<1>5. CASE FailureStep
  BY <1>0, <1>5, ReversalFailureStep DEF FailureStep
<1>6. CASE HookStep
  <2>1. CASE HookCommit /\ hookWorker.hook.event.type = "failed"
    <3>1. PICK x \in Payment : x = hookWorker.hook.event.payment
      BY <2>1, HookWorkerType DEF HookCommit
    <3>2. Credit(x) /\ Record(x, "failed", System, "webhook") /\ UNCHANGED queueVars
      BY <2>1, <3>1 DEF HookCommit
    <3>3. Elsewhere(x)'
      BY <3>1, <3>2, RecordElsewhere
    <3> QED
      BY <1>0, <3>1, <3>2, <3>3, ReversalElsewhere
  <2>2. CASE ~(HookCommit /\ hookWorker.hook.event.type = "failed")
    <3>1. UNCHANGED <<ledger, queueVars>>
      BY <1>6, <2>2 DEF HookStep, HookSkip, HookTake, HookAccept, HookRefuse, HookCommit, dbVars
    <3> QED
      BY <1>0, <3>1, ReversalIdle
  <2> QED
    BY <2>1, <2>2
<1>7. CASE \E e \in Event : PostWebhook(e)
  <2>1. UNCHANGED <<ledger, queueVars>>
    BY <1>7 DEF PostWebhook, dbVars
  <2> QED
    BY <1>0, <2>1, ReversalIdle
<1>8. CASE Crash
  BY <1>8, ReversalQueue DEF Crash, IdleWorker
<1>9. CASE UNCHANGED vars
  BY <1>0, <1>9, ReversalIdle DEF vars, dbVars
<1> QED
  BY <1>1, <1>2, <1>3, <1>4, <1>5, <1>6, <1>7, <1>8, <1>9 DEF Next

LEMMA ReversalInit == ASSUME Init PROVE ReversalInv
<1>1. jobs = {} /\ failures = {} /\ worker.pc = "idle"
  BY DEF Init, IdleWorker
<1>2. OneOwner
  BY <1>1 DEF OneOwner
<1>3. ASSUME NEW p \in Payment
      PROVE  Balanced(p)
  <2>1. Due(p) = {}
    BY <1>1 DEF Due
  <2>2. ledger[p].debit = 0 /\ ledger[p].credit = 0
    BY DEF Init
  <2>3. 0 * SourceAmount = 0 /\ 0 * (SourceAmount + FeeAmount) = 0 /\ 0 + 0 <= 0
    OBVIOUS
  <2> QED
    BY <2>1, <2>2, <2>3, FS_EmptySet DEF Balanced
<1> QED
  BY <1>2, <1>3 DEF ReversalInv

\* Unless an operator or a webhook credited the payment too, permanent failures
\* give no debit back twice, however many approvals debit it, however often
\* dispatch is tried and the process dies (payment.worker handlePermanentFailure).
THEOREM DebitsAreGivenBackOnce == Spec => []ReversedAtMostOnce
<1>1. ReversalInv => ReversedAtMostOnce
  BY BalancedIsEnough
<1>2. TypeOK /\ ReversalInv /\ [Next]_vars => ReversalInv'
  BY ReversalStep
<1>3. Init => ReversalInv
  BY ReversalInit
<1> QED
  BY <1>1, <1>2, <1>3, TypeCorrect, PTL DEF Spec
----------------------------------------------------------------------------
(* The books agree with the status of a payment whose requests do not      *)
(* overlap, whatever happens to the others.                                *)

Unpaid   == [debit |-> 0, credit |-> 0]
Paid     == [debit |-> SourceAmount + FeeAmount, credit |-> 0]
Reversed == [debit |-> SourceAmount + FeeAmount, credit |-> SourceAmount]

\* The books a status allows.  compliance.service clears a payment into
\* processing without a debit, so there both are possible.
BooksFor(s) ==
    CASE s = "completed"  -> {Paid}
      [] s = "failed"     -> {Reversed}
      [] s = "processing" -> {Unpaid, Paid}
      [] OTHER            -> {Unpaid}

InQueue(p) ==
    (\E j \in jobs : j.payment = p) \/ (\E f \in failures : f.payment = p)

InReview(c) ==
    /\ c.op \notin {"complete", "fail"}
    /\ payments[c.payment].status \in {"pending_approval", "pending_compliance"}

\* A job or a failure handler has a debited payment to itself; a request has
\* one that was not debited yet.
InOrder(p) ==
    /\ payments[p].status # "pending_manual_processing"
    /\ ledger[p] \in BooksFor(payments[p].status)
    /\ InQueue(p) => payments[p].status = "processing" /\ ledger[p] = Paid
    /\ \A i, j \in jobs : i.payment = p /\ j.payment = p => i = j
    /\ \A f, g \in failures : f.payment = p /\ g.payment = p => f = g
    /\ \A j \in jobs, f \in failures : j.payment # p \/ f.payment # p
    /\ \A h \in Handler :
         requests[h] # None /\ requests[h].payment = p => InReview(requests[h])

ByWebhook(p) == Noted(p, {"webhook"})

BooksInv(p) == ByWebhook(p) \/ InOrder(p)

\* No two requests on p are in flight.
Alone(p) ==
    \A g, h \in Handler :
        /\ requests[g] # None /\ requests[g].payment = p
        /\ requests[h] # None /\ requests[h].payment = p
        => g = h

LEMMA ByWebhookStays ==
    ASSUME TypeOK, [Next]_vars, NEW p \in Payment, ByWebhook(p)
    PROVE  ByWebhook(p)'
BY NextKept DEF Kept, ByWebhook, Noted

LEMMA BooksAreEnough == ASSUME TypeOK, NEW p \in Payment, BooksInv(p) PROVE SettledOn(p)
BY DEF BooksInv, ByWebhook, InOrder, BooksFor, SettledOn, Paid, Unpaid, Reversed

\* A step that brings p no job, no failure handler and no request, and leaves
\* its status and its books alone.
LEMMA InOrderKept ==
    ASSUME NEW p \in Payment, InOrder(p),
           payments'[p].status = payments[p].status, ledger'[p] = ledger[p],
           \A j \in jobs' : j.payment = p => j \in jobs,
           \A f \in failures' : f.payment = p => f \in failures,
           \A h \in Handler : requests'[h] # None /\ requests'[h].payment = p =>
                                requests'[h] = requests[h]
    PROVE  InOrder(p)'
<1>1. InQueue(p)' => InQueue(p)
  BY DEF InQueue
<1>2. \A h \in Handler :
         requests'[h] # None /\ requests'[h].payment = p => InReview(requests[h])'
  BY DEF InOrder, InReview
<1> QED
  BY <1>1, <1>2 DEF InOrder

\* A step that leaves nothing in flight for p.
LEMMA InOrderSettled ==
    ASSUME NEW p \in Payment,
           payments'[p].status # "pending_manual_processing",
           ledger'[p] \in BooksFor(payments'[p].status),
           \A j \in jobs' : j.payment # p,
           \A f \in failures' : f.payment # p,
           \A h \in Handler : requests'[h] # None => requests'[h].payment # p
    PROVE  InOrder(p)'
<1>1. ~InQueue(p)'
  BY DEF InQueue
<1> QED
  BY <1>1 DEF InOrder, BooksFor

\* The debit of a payment that has none, and its job if the add succeeds.
LEMMA InOrderDebited ==
    ASSUME TypeOK, NEW p \in Payment, ledger[p] = Unpaid, ~InQueue(p),
           Debit(p), EnqueueDispatch(p), payments'[p].status = "processing",
           UNCHANGED failures,
           \A h \in Handler : requests'[h] # None => requests'[h].payment # p
    PROVE  InOrder(p)'
<1> DEFINE new == [payment |-> p, entry |-> ledger'[p].debit, tries |-> 0]
<1>1. ledger'[p] = Paid
  BY DEF TypeOK, Debit, Unpaid, Paid
<1>2. jobs' \subseteq jobs \cup {new}
  BY DEF EnqueueDispatch
<1> HIDE DEF new
<1>3. \A j \in jobs' : j.payment = p => j = new
  BY <1>2 DEF InQueue
<1>4. \A f \in failures' : f.payment # p
  BY DEF InQueue
<1> QED
  BY <1>1, <1>3, <1>4 DEF InOrder, BooksFor

LEMMA BooksSubmit ==
    ASSUME TypeOK, NEW x \in Payment, Submit(x), NEW p \in Payment, InOrder(p)
    PROVE  InOrder(p)'
<1>1. PICK u \in Maker, rule \in Rule, flagged \in BOOLEAN,
           provider \in {"manual", "external"} : Submit(x)!(u, rule, flagged, provider)
  BY DEF Submit
<1> DEFINE s == InitialStatus(rule, flagged)
<1>2. s \in {"processing", "pending_approval", "pending_compliance"}
  BY DEF InitialStatus
<1>3. payments'[x].status = s
  BY <1>1 DEF TypeOK, NoRow
<1>4. UNCHANGED <<requests, failures>>
  BY <1>1
<1> HIDE DEF s
<1>5. CASE p = x
  <2>1. payments[p].status = "none"
    BY <1>1, <1>5
  <2>2. ledger[p] = Unpaid /\ ~InQueue(p)
    BY <2>1 DEF InOrder, BooksFor
  <2>3. \A h \in Handler : requests'[h] # None => requests'[h].payment # p
    BY <1>4, <2>1 DEF InOrder, InReview
  <2>4. CASE s = "processing"
    <3>1. Debit(p) /\ EnqueueDispatch(p)
      BY <1>1, <1>5, <2>4 DEF s
    <3> QED
      BY <1>3, <1>4, <1>5, <2>2, <2>3, <2>4, <3>1, InOrderDebited
  <2>5. CASE s # "processing"
    <3>1. UNCHANGED <<ledger, jobs>>
      BY <1>1, <2>5 DEF s
    <3>2. ledger'[p] \in BooksFor(payments'[p].status)
      BY <1>2, <1>3, <1>5, <2>2, <2>5, <3>1 DEF BooksFor
    <3>3. payments'[p].status # "pending_manual_processing"
      BY <1>2, <1>3, <1>5
    <3> QED
      BY <1>4, <2>2, <2>3, <3>1, <3>2, <3>3, InOrderSettled DEF InQueue
  <2> QED
    BY <2>4, <2>5
<1>6. CASE p # x
  <2>1. payments'[p] = payments[p]
    BY <1>1, <1>6 DEF TypeOK
  <2>2. ledger'[p] = ledger[p]
    BY <1>1, <1>6 DEF Debit, TypeOK
  <2>3. \A j \in jobs' : j.payment = p => j \in jobs
    BY <1>1, <1>6 DEF EnqueueDispatch
  <2> QED
    BY <1>4, <2>1, <2>2, <2>3, InOrderKept
<1> QED
  BY <1>5, <1>6

\* Nobody is in the manual queue, so no request completes or fails a payment.
LEMMA BooksBegin ==
    ASSUME TypeOK, NEW h \in Handler, BeginRequest(h), NEW p \in Payment, InOrder(p)
    PROVE  InOrder(p)'
<1>1. PICK x \in Payment, u \in User :
         \/ BeginApprove(h, x, u) \/ BeginReject(h, x, u)
         \/ BeginCancel(h, x, u) \/ BeginReview(h, x, u)
         \/ BeginProcess(h, x, u)
  BY DEF BeginRequest
<1>2. PICK op \in Op : Begin(h, op, x, u)
  BY <1>1 DEF BeginApprove, BeginReject, BeginCancel, BeginReview, BeginProcess, Op
<1> DEFINE c == [op |-> op, payment |-> x, user |-> u]
<1>3. /\ requests' = [requests EXCEPT ![h] = c]
      /\ UNCHANGED <<payments, ledger, jobs, failures>>
  BY <1>2 DEF Begin, dbVars, queueVars
<1>4. \A g \in Handler : requests'[g] = IF g = h THEN c ELSE requests[g]
  BY <1>3 DEF TypeOK
<1>5. CASE x # p
  <2>1. \A g \in Handler : requests'[g] # None /\ requests'[g].payment = p =>
                             requests'[g] = requests[g]
    BY <1>4, <1>5
  <2> QED
    BY <1>3, <2>1, InOrderKept
<1>6. CASE x = p
  <2>1. payments[p].status \in {"pending_approval", "pending_compliance"}
    <3>1. payments[p].status # "pending_manual_processing"
      BY DEF InOrder
    <3>2. \/ CanMove(payments[p].status, "processing")
          \/ CanMove(payments[p].status, "rejected")
          \/ CanMove(payments[p].status, "cancelled")
          \/ payments[p].status = "pending_compliance"
      BY <1>1, <1>6, <3>1 DEF BeginApprove, BeginReject, BeginCancel, MayCancel,
                              BeginReview, MayReview, BeginProcess, MayProcess
    <3> QED
      BY <3>1, <3>2 DEF CanMove, Transitions
  <2>2. requests'[h].op \notin {"complete", "fail"} /\ requests'[h].payment = p
    <3>1. ~BeginProcess(h, x, u)
      BY <1>6, <2>1 DEF BeginProcess, MayProcess
    <3>2. PICK o \in Op \ {"complete", "fail"} : Begin(h, o, x, u)
      BY <1>1, <3>1 DEF BeginApprove, BeginReject, BeginCancel, BeginReview, Op
    <3>3. requests'[h] = [op |-> o, payment |-> x, user |-> u]
      BY <3>2 DEF Begin, TypeOK
    <3>4. requests'[h].op = o /\ requests'[h].payment = x
      BY <3>3
    <3> QED
      BY <1>6, <3>2, <3>4
  <2>3. \A g \in Handler :
          requests'[g] # None /\ requests'[g].payment = p => InReview(requests[g])'
    BY <1>3, <1>4, <2>1, <2>2 DEF InOrder, InReview
  <2>4. InQueue(p)' <=> InQueue(p)
    BY <1>3 DEF InQueue
  <2> QED
    BY <1>3, <2>3, <2>4 DEF InOrder
<1> QED
  BY <1>5, <1>6

LEMMA CommitElsewhere ==
    ASSUME TypeOK, NEW h \in Handler, CommitRequest(h), NEW p \in Payment,
           requests[h].payment \in Payment, requests[h].payment # p
    PROVE  /\ payments'[p] = payments[p] /\ ledger'[p] = ledger[p]
           /\ \A j \in jobs' : j.payment = p => j \in jobs
<1>1. CASE CommitFirstApproval(h)
  BY <1>1 DEF CommitFirstApproval, TypeOK, queueVars
<1>2. CASE CommitApprove(h)
  <2>1. payments'[p] = payments[p]
    BY <1>2 DEF CommitApprove, TypeOK
  <2>2. ledger'[p] = ledger[p]
    BY <1>2 DEF CommitApprove, Debit, TypeOK
  <2>3. \A j \in jobs' : j.payment = p => j \in jobs
    BY <1>2 DEF CommitApprove, EnqueueDispatch
  <2> QED
    BY <2>1, <2>2, <2>3
<1>3. CASE AbortApprove(h)
  BY <1>3 DEF AbortApprove, dbVars, queueVars
<1>4. CASE CommitReview(h)
  BY <1>4 DEF CommitReview, SetStatus, TypeOK, queueVars
<1>5. CASE CommitComplete(h)
  BY <1>5 DEF CommitComplete, TypeOK, queueVars
<1>6. CASE CommitFail(h)
  BY <1>6 DEF CommitFail, SetStatus, Credit, TypeOK, queueVars
<1> QED
  BY <1>1, <1>2, <1>3, <1>4, <1>5, <1>6 DEF CommitRequest

\* The only request on a payment finds it undebited, with nothing in the queue.
LEMMA BooksCommitRequest ==
    ASSUME TypeOK, NEW h \in Handler, CommitRequest(h), NEW p \in Payment, Alone(p), InOrder(p)
    PROVE  InOrder(p)'
<1> DEFINE c == requests[h]
<1>1. c # None /\ Finish(h)
  BY DEF CommitRequest, CommitFirstApproval, CommitApprove, AbortApprove,
         CommitReview, CommitComplete, CommitFail
<1>2. c.payment \in Payment /\ c.op \in Op
  BY <1>1, CallType
<1>3. \A g \in Handler : requests'[g] # None => requests'[g] = requests[g] /\ g # h
  BY <1>1 DEF Finish, TypeOK
<1>4. UNCHANGED failures
  BY DEF CommitRequest, CommitFirstApproval, CommitApprove, AbortApprove,
         CommitReview, CommitComplete, CommitFail, queueVars
<1>5. CASE c.payment # p
  <2>1. /\ payments'[p] = payments[p] /\ ledger'[p] = ledger[p]
        /\ \A j \in jobs' : j.payment = p => j \in jobs
    BY <1>2, <1>5, CommitElsewhere
  <2> QED
    BY <1>3, <1>4, <2>1, InOrderKept
<1>6. CASE c.payment = p
  <2>1. /\ payments[p].status \in {"pending_approval", "pending_compliance"}
        /\ c.op \notin {"complete", "fail"}
    BY <1>1, <1>6 DEF InOrder, InReview
  <2>2. ledger[p] = Unpaid /\ ~InQueue(p)
    BY <2>1 DEF InOrder, BooksFor
  <2>0. \A g \in Handler : requests'[g] # None => requests'[g].payment # p
    BY <1>1, <1>3, <1>6 DEF Alone
  <2>3. CASE CommitFirstApproval(h)
    <3>1. payments' = [payments EXCEPT ![p] = [payments[p] EXCEPT !.checker_id = c.user]]
      BY <1>6, <2>3 DEF CommitFirstApproval
    <3>2. payments'[p].status = payments[p].status
      BY <3>1 DEF TypeOK, Row
    <3>3. UNCHANGED <<ledger, jobs>>
      BY <2>3 DEF CommitFirstApproval, queueVars
    <3> QED
      BY <1>3, <1>4, <3>2, <3>3, InOrderKept
  <2>4. CASE CommitApprove(h)
    <3>1. payments'[p].status = "processing"
      BY <1>6, <2>4 DEF CommitApprove, TypeOK, Row
    <3>2. Debit(p) /\ EnqueueDispatch(p)
      BY <1>6, <2>4 DEF CommitApprove
    <3> QED
      BY <2>0, <1>4, <2>2, <3>1, <3>2, InOrderDebited
  <2>5. CASE AbortApprove(h)
    BY <1>3, <1>4, <2>5, InOrderKept DEF AbortApprove, dbVars, queueVars
  <2>6. CASE CommitReview(h)
    <3>1. payments'[p].status \in {"processing", "rejected", "cancelled"}
      BY <1>6, <2>6 DEF CommitReview, SetStatus, ReviewStatus, TypeOK, Row
    <3>2. UNCHANGED <<ledger, jobs>>
      BY <2>6 DEF CommitReview, queueVars
    <3>3. ledger'[p] \in BooksFor(payments'[p].status)
      BY <2>2, <3>1, <3>2 DEF BooksFor
    <3> QED
      BY <2>0, <1>4, <2>2, <3>1, <3>2, <3>3, InOrderSettled DEF InQueue
  <2> QED
    BY <2>1, <2>3, <2>4, <2>5, <2>6 DEF CommitRequest, CommitComplete, CommitFail
<1> QED
  BY <1>5, <1>6

\* What the worker runs is the one job of its payment.
LEMMA WorkerHasIt ==
    ASSUME TypeOK, OneOwner, worker.pc # "idle", NEW p \in Payment, InOrder(p),
           worker.job.payment = p
    PROVE  /\ worker.job \in jobs
           /\ payments[p].status = "processing" /\ ledger[p] = Paid
           /\ \A j \in jobs : j.payment = p => j = worker.job
           /\ \A f \in failures : f.payment # p
           /\ \A h \in Handler : requests[h] # None => requests[h].payment # p
<1>1. worker.job \in jobs
  BY DEF OneOwner
<1>2. payments[p].status = "processing" /\ ledger[p] = Paid
  BY <1>1 DEF InOrder, InQueue
<1> QED
  BY <1>1, <1>2 DEF InOrder, InReview

LEMMA BooksDispatchDone ==
    ASSUME TypeOK, OneOwner, DispatchManual \/ DispatchCommit,
           NEW p \in Payment, InOrder(p)
    PROVE  InOrder(p)'
<1>1. /\ worker.pc # "idle" /\ worker.job.payment \in Payment
      /\ jobs' = jobs \ {worker.job}
      /\ UNCHANGED <<ledger, requests, failures>>
  BY WorkerType DEF DispatchManual, DispatchCommit
<1>2. CASE worker.job.payment # p
  <2>1. payments'[p] = payments[p]
    BY <1>2 DEF DispatchManual, DispatchCommit, TypeOK
  <2> QED
    BY <1>1, <2>1, InOrderKept
<1>3. CASE worker.job.payment = p
  <2>1. payments'[p].status = "completed"
    BY <1>3 DEF DispatchManual, DispatchCommit, TypeOK, Row
  <2>2. ledger'[p] \in BooksFor(payments'[p].status)
    BY <1>1, <1>3, <2>1, WorkerHasIt DEF BooksFor
  <2>3. /\ \A j \in jobs' : j.payment # p
        /\ \A f \in failures' : f.payment # p
        /\ \A h \in Handler : requests'[h] # None => requests'[h].payment # p
    BY <1>1, <1>3, WorkerHasIt
  <2> QED
    BY <2>1, <2>2, <2>3, InOrderSettled
<1> QED
  BY <1>2, <1>3

\* A failed attempt leaves one job or, the last one, one failure handler.
LEMMA BooksThrows ==
    ASSUME TypeOK, OneOwner, worker.pc # "idle", JobThrows,
           UNCHANGED <<dbVars, requests>>, NEW p \in Payment, InOrder(p)
    PROVE  InOrder(p)'
<1> DEFINE j == worker.job
           next == [j EXCEPT !.tries = @ + 1]
           f == [payment |-> j.payment, entry |-> j.entry, pc |-> "read"]
<1>1. next.payment = j.payment /\ f.payment = j.payment
  BY WorkerType DEF Job
<1>2. \/ jobs' = jobs \ {j} /\ failures' = failures \cup {f}
      \/ jobs' = (jobs \ {j}) \cup {next} /\ failures' = failures
  BY DEF JobThrows, AttemptsExhausted
<1>3. UNCHANGED <<payments, ledger, requests>>
  BY DEF dbVars
<1> HIDE DEF j, next, f
<1>4. CASE j.payment # p
  <2>1. /\ \A i \in jobs' : i.payment = p => i \in jobs
        /\ \A g \in failures' : g.payment = p => g \in failures
    BY <1>1, <1>2, <1>4
  <2> QED
    BY <1>3, <2>1, InOrderKept
<1>5. CASE j.payment = p
  <2>1. /\ payments[p].status = "processing" /\ ledger[p] = Paid
        /\ \A i \in jobs : i.payment = p => i = j
        /\ \A g \in failures : g.payment # p
        /\ \A h \in Handler : requests[h] # None => requests[h].payment # p
    BY <1>5, WorkerHasIt DEF j
  <2>2. CASE jobs' = jobs \ {j} /\ failures' = failures \cup {f}
    <3>1. (\A i \in jobs' : i.payment # p) /\ (\A g \in failures' : g.payment = p => g = f)
      BY <2>1, <2>2
    <3> QED
      BY <1>3, <2>1, <3>1 DEF InOrder, BooksFor
  <2>3. CASE jobs' = (jobs \ {j}) \cup {next} /\ failures' = failures
    <3>1. (\A i \in jobs' : i.payment = p => i = next) /\ (\A g \in failures' : g.payment # p)
      BY <2>1, <2>3
    <3> QED
      BY <1>3, <2>1, <3>1 DEF InOrder, BooksFor
  <2> QED
    BY <1>2, <2>2, <2>3
<1> QED
  BY <1>4, <1>5

LEMMA BooksWorker ==
    ASSUME TypeOK, OneOwner, WorkerStep, NEW p \in Payment, InOrder(p)
    PROVE  InOrder(p)'
<1>1. CASE DispatchManual \/ DispatchCommit
  BY <1>1, BooksDispatchDone
<1>2. CASE ProviderError \/ ProviderAccepts
  BY <1>2, BooksThrows DEF ProviderError, ProviderAccepts
<1>3. ASSUME UNCHANGED <<payments, ledger, requests, failures>>, jobs' \subseteq jobs
      PROVE  InOrder(p)'
  BY <1>3, InOrderKept
<1> QED
  BY <1>1, <1>2, <1>3 DEF WorkerStep, DispatchSkip, DispatchRead, ProviderCompletes, dbVars

LEMMA BooksFailureStep ==
    ASSUME TypeOK, NEW f \in failures, FailureRead(f) \/ FailureCommit(f),
           NEW p \in Payment, InOrder(p)
    PROVE  InOrder(p)'
<1>0. f.payment \in Payment /\ UNCHANGED <<requests, jobs>>
  BY JobFields DEF FailureRead, FailureCommit
<1>1. CASE FailureRead(f)
  <2> DEFINE g == [f EXCEPT !.pc = "commit"]
  <2>1. g.payment = f.payment
    BY DEF TypeOK
  <2>2. failures' = failures \ {f} \/ failures' = (failures \ {f}) \cup {g}
    BY <1>1 DEF FailureRead
  <2>3. UNCHANGED <<payments, ledger>>
    BY <1>1 DEF FailureRead, dbVars
  <2> HIDE DEF g
  <2>4. CASE f.payment # p
    <3>1. \A k \in failures' : k.payment = p => k \in failures
      BY <2>1, <2>2, <2>4
    <3> QED
      BY <1>0, <2>3, <3>1, InOrderKept
  <2>5. CASE f.payment = p
    <3>1. InQueue(p)
      BY <2>5 DEF InQueue
    <3>2. /\ \A k \in failures' : k.payment = p => k = g
          /\ \A i \in jobs' : i.payment # p
      BY <1>0, <2>2, <2>5 DEF InOrder
    <3>3. payments'[p].status = "processing" /\ ledger'[p] = Paid
      BY <2>3, <3>1 DEF InOrder
    <3>4. \A h \in Handler : requests'[h] # None => requests'[h].payment # p
      BY <1>0, <2>3, <3>3 DEF InOrder, InReview
    <3> QED
      BY <3>2, <3>3, <3>4 DEF InOrder, BooksFor
  <2> QED
    BY <2>4, <2>5
<1>2. CASE FailureCommit(f)
  <2>1. Credit(f.payment) /\ failures' = failures \ {f} /\ SetStatus(f.payment, "failed")
    BY <1>2 DEF FailureCommit
  <2>2. CASE f.payment # p
    <3>1. payments'[p] = payments[p] /\ ledger'[p] = ledger[p]
      BY <2>1, <2>2 DEF SetStatus, Credit, TypeOK
    <3> QED
      BY <1>0, <2>1, <3>1, InOrderKept
  <2>3. CASE f.payment = p
    <3>1. InQueue(p)
      BY <2>3 DEF InQueue
    <3>2. payments[p].status = "processing" /\ ledger[p] = Paid
      BY <3>1 DEF InOrder
    <3>3. payments'[p].status = "failed"
      BY <2>1, <2>3 DEF SetStatus, TypeOK, Row
    <3>4. ledger'[p] = Reversed
      BY <2>1, <2>3, <3>2 DEF Credit, TypeOK, Paid, Reversed
    <3>5. /\ \A k \in failures' : k.payment # p
          /\ \A i \in jobs' : i.payment # p
      BY <1>0, <2>1, <2>3 DEF InOrder
    <3>6. \A h \in Handler : requests'[h] # None => requests'[h].payment # p
      BY <1>0, <3>2 DEF InOrder, InReview
    <3> QED
      BY <3>3, <3>4, <3>5, <3>6, InOrderSettled DEF BooksFor
  <2> QED
    BY <2>2, <2>3
<1> QED
  BY <1>1, <1>2

LEMMA BooksHook ==
    ASSUME TypeOK, HookStep, NEW p \in Payment, InOrder(p)
    PROVE  ByWebhook(p)' \/ InOrder(p)'
<1>0. UNCHANGED <<requests, jobs, failures>>
  BY DEF HookStep, HookSkip, HookTake, HookAccept, HookRefuse, HookCommit, queueVars
<1>1. CASE HookCommit
  <2> DEFINE e == hookWorker.hook.event
             r == [status |-> e.type, actor |-> System, note |-> "webhook"]
  <2>1. e.payment \in Payment
    BY <1>1, HookWorkerType DEF HookCommit
  <2>2. CASE e.payment = p
    <3>1. r \in history'[p] /\ r.note = "webhook"
      BY <1>1, <2>2 DEF HookCommit, Record, TypeOK
    <3> QED
      BY <3>1 DEF ByWebhook, Noted
  <2>3. CASE e.payment # p
    <3>1. payments'[p] = payments[p] /\ ledger'[p] = ledger[p]
      BY <1>1, <2>3 DEF HookCommit, SetStatus, Credit, TypeOK
    <3> QED
      BY <1>0, <3>1, InOrderKept
  <2> QED
    BY <2>2, <2>3
<1>2. CASE ~HookCommit
  <2>1. UNCHANGED <<payments, ledger>>
    BY <1>2 DEF HookStep, HookSkip, HookTake, HookAccept, HookRefuse, dbVars
  <2> QED
    BY <1>0, <2>1, InOrderKept
<1> QED
  BY <1>1, <1>2

LEMMA BooksStep ==
    ASSUME TypeOK, OneOwner, NEW p \in Payment, Alone(p), BooksInv(p), [Next]_vars
    PROVE  BooksInv(p)'
<1> SUFFICES ASSUME InOrder(p)
             PROVE  ByWebhook(p)' \/ InOrder(p)'
  BY ByWebhookStays DEF BooksInv
<1>1. ASSUME UNCHANGED <<payments, ledger, requests, jobs, failures>>
      PROVE  InOrder(p)'
  BY <1>1, InOrderKept
<1>2. CASE Crash
  <2>1. \A h \in Handler : requests'[h] = None
    BY <1>2 DEF Crash
  <2>2. UNCHANGED <<payments, ledger, jobs>> /\ failures' = {}
    BY <1>2 DEF Crash, dbVars
  <2> QED
    BY <2>1, <2>2, InOrderKept
<1>3. CASE \E e \in Event : PostWebhook(e)
  BY <1>1, <1>3 DEF PostWebhook, dbVars, queueVars
<1>4. CASE UNCHANGED vars
  BY <1>1, <1>4 DEF vars, dbVars, queueVars
<1>5. CASE \E h \in Handler : BeginRequest(h) \/ CommitRequest(h)
  BY <1>5, BooksBegin, BooksCommitRequest
<1>6. CASE FailureStep
  BY <1>6, BooksFailureStep DEF FailureStep
<1> QED
  BY <1>2, <1>3, <1>4, <1>5, <1>6, BooksSubmit, BooksWorker, BooksHook DEF Next

LEMMA BooksInit == ASSUME Init, NEW p \in Payment \ Seeded PROVE BooksInv(p)
<1>1. payments[p].status = "none"
  BY DEF Init, NoRow
<1>2. ledger[p] = Unpaid /\ jobs = {} /\ failures = {}
  BY DEF Init, Unpaid
<1>3. \A h \in Handler : requests[h] = None
  BY DEF Init
<1> QED
  BY <1>1, <1>2, <1>3 DEF InOrder, InQueue, BooksFor, BooksInv

\* As long as no two requests on it have been in flight at once, the books of a
\* payment that was submitted here and that no webhook touched agree with its
\* status once nothing is in flight.  Requests on other payments may overlap as
\* they like, and retries, lost enqueues, webhooks and crashes happen at will.
THEOREM BooksAgreeWithStatus ==
    ASSUME NEW p \in Payment \ Seeded
    PROVE  Spec /\ []Alone(p) => []SettledOn(p)
<1>1. Init => BooksInv(p)
  BY BooksInit
<1>2. TypeOK /\ ReversalInv /\ Alone(p) /\ BooksInv(p) /\ [Next]_vars => BooksInv(p)'
  BY BooksStep DEF ReversalInv
<1>3. TypeOK /\ BooksInv(p) => SettledOn(p)
  BY BooksAreEnough
<1>4. Spec => []ReversalInv
  <2>1. TypeOK /\ ReversalInv /\ [Next]_vars => ReversalInv'
    BY ReversalStep
  <2>2. Init => ReversalInv
    BY ReversalInit
  <2> QED
    BY <2>1, <2>2, TypeCorrect, PTL DEF Spec
<1> QED
  BY <1>1, <1>2, <1>3, <1>4, TypeCorrect, PTL DEF Spec

=============================================================================
