-------------------------- MODULE ScheduledPayments --------------------------
(***************************************************************************)
(* One row of scheduled_payments and the payments made for it.             *)
(*                                                                         *)
(* The per-minute cron of scheduledPayment.worker and any number of        *)
(* "execute now" requests run executeScheduledPayment on a row they have   *)
(* read: they submit a payment under the idempotency key                   *)
(* scheduled-<id>-exec-<execution_count + 1> and then write back, computed *)
(* from that row, the next execution_count, date and status.  Cancel,      *)
(* update and skip read the row, check it and write it in the same blind   *)
(* way.  Nothing takes a lock, so everything here may overlap.             *)
(*                                                                         *)
(* balance_insufficient and the balance alerts decide about notifications  *)
(* only and are left out.  Definitions that are not used are wrong         *)
(* variants of the ones that follow them (see Payments).                   *)
(***************************************************************************)
EXTENDS Integers, FiniteSets

CONSTANTS
    Worker,     \* the cron job of the scheduled-payments queue
    Request,    \* HTTP requests in flight: execute, cancel, update, skip
    Edit,       \* the edits in use, of "cancel", "update" and "skip"
    Week,       \* the days of a week
    Cycle,      \* the days after which the calendar repeats itself
    MonthDays,  \* of each day of the cycle, the length of the month it is in
    Date,       \* dates a user may choose
    MaxTime,    \* bound on the clock
    MaxDate,    \* bound on the dates from which a request leads on
    MaxCount,   \* bound on the execution_count a request starts from
    MaxCrashes, \* bound on restarts
    None        \* SQL NULL, and an idle process

ASSUME ScheduleAssumption ==
    /\ Worker \notin Request
    /\ Edit \subseteq {"cancel", "update", "skip"}
    /\ Week \in Nat \ {0} /\ Cycle \in Nat \ {0}
    /\ MonthDays \in [0 .. Cycle - 1 -> Nat \ {0}]
    /\ Date \subseteq Nat
    /\ MaxTime \in Nat /\ MaxDate \in Nat
    /\ MaxCount \in Nat /\ MaxCrashes \in Nat
    /\ None \notin Int

VARIABLES
    schedule,  \* the scheduled_payments row
    payments,  \* the payments submitted for it
    runs,      \* executeScheduledPayment calls in progress
    edits,     \* cancel, update and skip requests between read and write
    now,       \* the time
    crashes,   \* restarts so far
    moved      \* history: an update or a skip has been written

vars == <<schedule, payments, runs, edits, now, crashes, moved>>

Executor == {Worker} \cup Request
Status   == {"none", "active", "cancelled", "completed"}

Frequency == {"once", "weekly", "monthly"}

Row == [frequency: Frequency, status: Status, due: Int, end: Int \cup {None},
        count: Nat]

\* slot is the number in the idempotency key, due the occurrence it was for.
Payment == [slot: Nat, due: Int, at: Nat]

Run  == [pc: {"find", "create", "update"}, row: Row]
Idle == [pc |-> "idle"]

TypeOK ==
    /\ schedule \in Row
    /\ payments \subseteq Payment
    /\ runs \in [Executor -> Run \cup {Idle}]
    /\ edits \in [Request -> [pc: Edit, row: Row] \cup {Idle}]
    /\ now \in 0 .. MaxTime
    /\ crashes \in 0 .. MaxCrashes
    /\ moved \in BOOLEAN

Init ==
    /\ schedule = [frequency |-> "once", status |-> "none", due |-> 0,
                   end |-> None, count |-> 0]
    /\ payments = {}
    /\ runs  = [x \in Executor |-> Idle]
    /\ edits = [r \in Request |-> Idle]
    /\ now = 0
    /\ crashes = 0
    /\ moved = FALSE

----------------------------------------------------------------------------
\* nextExecutionDate.  setMonth(getMonth() + 1) keeps the day of the month, so it
\* adds the length of the month the date is in; if the next month has no such day
\* the date lands in the month after it, which nothing corrects.
DaysOn(date, frequency) ==
    CASE frequency = "weekly"  -> Week
      [] frequency = "monthly" -> MonthDays[date % Cycle]
      [] frequency = "once"    -> 0
NextDate(date, frequency) == date + DaysOn(date, frequency)

NextDue(row) == NextDate(row.due, row.frequency)

AlwaysNew(slot)   == FALSE
AlreadyPaid(slot) == \E p \in payments : p.slot = slot

\* createScheduledPayment; the validator wants scheduledFor in the future and
\* endDate after it, and forbids endDate for 'once'.
CreateSchedule ==
    /\ schedule.status = "none"
    /\ \E frequency \in Frequency, due \in Date, end \in Date \cup {None} :
         /\ due > now
         /\ end # None => end > due /\ frequency # "once"
         /\ schedule' = [frequency |-> frequency, status |-> "active",
                         due |-> due, end |-> end, count |-> 0]
    /\ UNCHANGED <<payments, runs, edits, now, crashes, moved>>

----------------------------------------------------------------------------
(* executeScheduledPayment.                                                *)

\* findDue of the worker, findById of executeScheduledPaymentNow.
Start(x) ==
    /\ runs[x] = Idle
    /\ x \in Request => edits[x] = Idle
    /\ schedule.status = "active"
    /\ x = Worker => schedule.due <= now
    /\ x # Worker => schedule.count < MaxCount /\ schedule.due <= MaxDate
    /\ runs' = [runs EXCEPT ![x] = [pc |-> "find", row |-> schedule]]
    /\ UNCHANGED <<schedule, payments, edits, now, crashes, moved>>

Slot(x) == runs[x].row.count + 1

\* submitPayment: findByIdempotencyKey.
Find(x) ==
    /\ runs[x].pc = "find"
    /\ runs' = [runs EXCEPT ![x].pc =
                    IF AlreadyPaid(Slot(x)) THEN "update" ELSE "create"]
    /\ UNCHANGED <<schedule, payments, edits, now, crashes, moved>>

\* submitPayment: the insert, refused by the unique index on the key when
\* another execution was faster; then the call throws.
Create(x) ==
    /\ runs[x].pc = "create"
    /\ \/ /\ AlreadyPaid(Slot(x))
          /\ runs' = [runs EXCEPT ![x] = Idle]
          /\ UNCHANGED payments
       \/ /\ ~AlreadyPaid(Slot(x))
          /\ payments' = payments \cup
                 {[slot |-> Slot(x), due |-> runs[x].row.due, at |-> now]}
          /\ runs' = [runs EXCEPT ![x].pc = "update"]
    /\ UNCHANGED <<schedule, edits, now, crashes, moved>>

\* The balance does not suffice, or the quote or submitPayment throws.
GiveUp(x) ==
    /\ runs[x].pc \in {"find", "create"}
    /\ runs' = [runs EXCEPT ![x] = Idle]
    /\ UNCHANGED <<schedule, payments, edits, now, crashes, moved>>

DoneByDateOnly(row) == row.end # None /\ now >= row.end
IsDone(row) == row.frequency = "once" \/ (row.end # None /\ now >= row.end)

\* The update at the end: every column from the row that was read.
IncrementsTheCurrent(x) ==
    /\ runs[x].pc = "update"
    /\ schedule' = [schedule EXCEPT !.count = @ + 1,
                                    !.due = NextDue(runs[x].row)]
    /\ runs' = [runs EXCEPT ![x] = Idle]
    /\ UNCHANGED <<payments, edits, now, crashes, moved>>
ForgetsTheCount(x) ==
    LET row == runs[x].row IN
    /\ runs[x].pc = "update"
    /\ schedule' = [schedule EXCEPT !.due = NextDue(row)]
    /\ runs' = [runs EXCEPT ![x] = Idle]
    /\ UNCHANGED <<payments, edits, now, crashes, moved>>
LosesTheWrite(x) ==
    /\ runs[x].pc = "update"
    /\ runs' = [runs EXCEPT ![x] = Idle]
    /\ UNCHANGED <<schedule, payments, edits, now, crashes, moved>>
Finish(x) ==
    LET row == runs[x].row IN
    /\ runs[x].pc = "update"
    /\ schedule' = [schedule EXCEPT
                      !.count  = row.count + 1,
                      !.due    = IF IsDone(row) THEN row.due ELSE NextDue(row),
                      !.status = IF IsDone(row) THEN "completed" ELSE "active"]
    /\ runs' = [runs EXCEPT ![x] = Idle]
    /\ UNCHANGED <<payments, edits, now, crashes, moved>>

Execute(x) == Start(x) \/ Find(x) \/ Create(x) \/ GiveUp(x) \/ Finish(x)

----------------------------------------------------------------------------
(* cancel, update and skip.                                                *)

EditsAnything == schedule.status # "none"
MayEdit == schedule.status = "active"

BeginEdit(r) ==
    /\ edits[r] = Idle /\ runs[r] = Idle
    /\ MayEdit
    /\ \E op \in Edit : /\ op = "skip" => schedule.frequency # "once" /\ schedule.due <= MaxDate
                        /\ edits' = [edits EXCEPT ![r] =
                                         [pc |-> op, row |-> schedule]]
    /\ UNCHANGED <<schedule, payments, runs, now, crashes, moved>>

Cancelled == [schedule EXCEPT !.status = "cancelled"]

\* The patch holds the columns of the body; the date has to be in the future.
Update ==
    \E due \in {schedule.due} \cup {d \in Date : d > now},
       end \in {schedule.end, None} \cup Date :
      schedule' = [schedule EXCEPT !.due = due, !.end = end]

Skipped(row) ==
    [schedule EXCEPT
       !.due    = NextDue(row),
       !.status = IF row.end # None /\ NextDue(row) >= row.end
                  THEN "completed" ELSE "active"]

CommitEdit(r) ==
    /\ edits[r] # Idle
    /\ \/ edits[r].pc = "cancel" /\ schedule' = Cancelled
       \/ edits[r].pc = "update" /\ Update
       \/ edits[r].pc = "skip"   /\ schedule' = Skipped(edits[r].row)
    /\ edits' = [edits EXCEPT ![r] = Idle]
    /\ moved' = (moved \/ edits[r].pc # "cancel")
    /\ UNCHANGED <<payments, runs, now, crashes>>

----------------------------------------------------------------------------
Tick ==
    /\ now < MaxTime
    /\ now' = now + 1
    /\ UNCHANGED <<schedule, payments, runs, edits, crashes, moved>>

\* The process dies; the cron is repeated and will find the row again.
Crash ==
    /\ crashes < MaxCrashes
    /\ crashes' = crashes + 1
    /\ runs'  = [x \in Executor |-> Idle]
    /\ edits' = [r \in Request |-> Idle]
    /\ UNCHANGED <<schedule, payments, now, moved>>

Next ==
    \/ CreateSchedule
    \/ \E x \in Executor : Execute(x)
    \/ \E r \in Request : BeginEdit(r) \/ CommitEdit(r)
    \/ Tick
    \/ Crash

Spec == Init /\ [][Next]_vars

\* The cron keeps coming back, and not every attempt of it finds the account
\* empty or the quote unavailable.
Fairness ==
    /\ WF_vars(Start(Worker)) /\ WF_vars(Finish(Worker))
    /\ SF_vars(Find(Worker)) /\ SF_vars(Create(Worker))
FairSpec == Spec /\ Fairness

----------------------------------------------------------------------------
(* Properties.                                                             *)

\* execution_count never runs ahead of the payments: every execution it counts
\* has been submitted, even when late writers set it back and others redo
\* what was done, and no slot is left out.
CountedArePaid ==
    /\ \A k \in 1 .. schedule.count : AlreadyPaid(k)
    /\ \A p \in payments : p.slot > 1 => AlreadyPaid(p.slot - 1)

\* Overlapping executions, retries after a crash and stale write-backs never
\* pay under the same key twice, nor the same occurrence twice.  Update and
\* skip move the date but not the count: once they were used, only the first.
OncePerOccurrence ==
    \A p, q \in payments :
        p.slot = q.slot \/ (~moved /\ p.due = q.due) => p = q

\* Nor do they drop one: each payment is for the date that nextExecutionDate
\* gives from the one before it, and an active schedule waits for the date after
\* the last payment it has counted.  (That rule itself passes over a month that
\* has no such day.)
OccurrencesInOrder ==
    ~moved =>
        /\ \A p, q \in payments :
              q.slot = p.slot + 1 => q.due = NextDate(p.due, schedule.frequency)
        /\ schedule.status = "active" => \A p \in payments :
              /\ p.slot = schedule.count =>
                    schedule.due = NextDate(p.due, schedule.frequency)
              /\ p.slot = schedule.count + 1 => schedule.due = p.due

\* A 'once' schedule is paid once, whatever edits and executions overlap.
PaidOnce == schedule.frequency = "once" => Cardinality(payments) <= 1

Quiet == /\ \A x \in Executor : runs[x] = Idle
         /\ \A r \in Request : edits[r] = Idle

\* A cancelled or completed schedule is brought back, or changed at all, only
\* by a call that had read it while it was active: once it is stopped and no
\* such call is left, no call gets as far as a write again.
StoppedStaysStopped ==
    [][schedule.status \in {"cancelled", "completed"} /\ Quiet =>
          Quiet' /\ UNCHANGED <<schedule, payments>>]_vars

\* An occurrence that is due is paid, skipped, moved or cancelled.
DueIsServed ==
    (schedule.status = "active" /\ schedule.due <= now)
        ~> ~(schedule.status = "active" /\ schedule.due <= now)
=============================================================================
