------------------------------- MODULE Alerts -------------------------------
(***************************************************************************)
(* The daily sweep that warns of a scheduled payment the account cannot    *)
(* pay, on one schedule, together with the requests and executions that    *)
(* write to its row meanwhile and with the notification queue.  Payments   *)
(* and occurrences as such are in ScheduledPayments.                       *)
(*                                                                         *)
(* Definitions that are not used are wrong variants of the ones that       *)
(* follow (see Payments).                                                  *)
(***************************************************************************)
EXTENDS Integers, Notices

CONSTANTS
    Window,                   \* days: 5 in the code
    Day,                      \* how many ticks of the clock a day has
    MaxTime, MaxDate, MaxCrashes, MaxEvents,
    Over

VARIABLES
    now, crashes,
    row,                      \* scheduled_payments
    reqs,
    \* history:
    alerts,                   \* alerts queued
    lost,                     \* countdowns noted whose alert was not queued
    noted,                    \* sweeps that noted theirs, nobody else having written since
    moved,                    \* last_day was written for another date
    silent                    \* countdowns that a sweep held for alerted

alertVars == <<now, crashes, row, reqs, alerts, lost, noted, moved, silent>>
vars == <<noticeVars, alertVars>>

Date == 1..MaxDate
Days == 1..Window

\* insufficient and last_day are balance_insufficient and balance_alert_last_day.
Row == [active: BOOLEAN, due: Date, insufficient: BOOLEAN, last_day: Days \cup {None}]
Pc == {"check", "mark", "queue", "clear", "rest", "balance", "pay", "skip", "update", "cancel"}

\* A run keeps the row it read; days is the count of a sweep once it has checked.
Run == [pc: Pc, row: Row, days: Days \cup {None}, moved: BOOLEAN]

\* What an alert says: the days left before a date.
Countdown == [due: Date, days: Days]
Alert == [due: Date, days: Days, by: Request]

ASSUME AlertsAssumption ==
    /\ {MaxDate, MaxCrashes, MaxEvents} \subseteq Nat
    /\ {Window, Day, MaxTime} \subseteq Nat \ {0} /\ MaxTime < MaxDate
    /\ None \notin Days /\ {None, Over} \cap Run = {} /\ None # Over

TypeOK ==
    /\ NoticesTypeOK
    /\ now \in 1..MaxTime /\ crashes \in 0..MaxCrashes
    /\ row \in Row /\ reqs \in [Request -> Run \cup {None, Over}]
    /\ alerts \subseteq Alert /\ lost \cup silent \subseteq Countdown
    /\ noted \subseteq Request /\ moved \in BOOLEAN

\* A schedule as it is created.
Init ==
    /\ NoticesInit
    /\ now = 1 /\ crashes = 0
    /\ row \in [active: {TRUE}, due: {d \in Date : d > now}, insufficient: {FALSE}, last_day: {None}]
    /\ reqs = [r \in Request |-> None]
    /\ alerts = {} /\ lost = {} /\ noted = {} /\ moved = FALSE /\ silent = {}

----------------------------------------------------------------------------
At(r, pc) == reqs[r] \notin {None, Over} /\ reqs[r].pc = pc

\* The run that begins next.
Fresh(r) == reqs[r] = None /\ \A q \in 1..(r - 1) : reqs[q] # None

Begin(r, pc) ==
    /\ Fresh(r) /\ row.active
    /\ reqs' = [reqs EXCEPT ![r] = [pc |-> pc, row |-> row, days |-> None, moved |-> moved]]
    /\ UNCHANGED <<noticeVars, now, crashes, row, alerts, lost, noted, moved, silent>>

GoTo(r, pc) == reqs' = [reqs EXCEPT ![r].pc = pc]

End(r) == reqs' = [reqs EXCEPT ![r] = Over]

\* A write to the row by a run that is not the sweep's.
Touch(new) ==
    /\ row' = new
    /\ noted' = {}
    /\ UNCHANGED <<noticeVars, now, crashes, alerts, lost, silent>>

----------------------------------------------------------------------------
(* The sweep: checkUpcomingBalanceAlerts.                                  *)

SweepRuns == \E r \in Request : \E pc \in {"check", "mark", "queue", "clear", "rest"} : At(r, pc)

\* findUpcoming.
Upcoming == now < row.due /\ row.due <= now + Window * Day

\* The job of a day: the worker may take it late, and again after a crash, but
\* one at a time.
BeginSweep(r) ==
    /\ ~SweepRuns /\ Upcoming
    /\ Begin(r, "check")

\* Started days count, from this very moment.
DaysUntil(date) == (date - now + Day - 1) \div Day

\* The balance may be any.
Check(r) ==
    /\ At(r, "check")
    /\ LET old == reqs[r].row
           days == DaysUntil(old.due) IN
       \/ /\ days \notin Days
          /\ GoTo(r, "rest")
          /\ UNCHANGED silent
       \/ /\ days \in Days /\ old.last_day = days
          /\ GoTo(r, "rest")
          /\ silent' = IF reqs[r].moved THEN silent
                       ELSE silent \cup {[due |-> old.due, days |-> days]}
       \/ /\ days \in Days /\ old.last_day # days
          /\ \E pc \in {"mark", IF old.insufficient THEN "clear" ELSE "rest"} :
               reqs' = [reqs EXCEPT ![r].pc = pc, ![r].days = days]
          /\ UNCHANGED silent
    /\ UNCHANGED <<noticeVars, now, crashes, row, alerts, lost, noted, moved>>

\* A statement fails, and the job goes on with other schedules.
GiveUp(r) ==
    /\ \E pc \in {"check", "mark", "clear"} : At(r, pc)
    /\ GoTo(r, "rest")
    /\ UNCHANGED <<noticeVars, now, crashes, row, alerts, lost, noted, moved, silent>>

MarkOnlyFlag(r) ==
    /\ At(r, "mark")
    /\ row' = [row EXCEPT !.insufficient = TRUE]
    /\ noted' = noted \cup {r}
    /\ GoTo(r, "queue")
    /\ UNCHANGED <<noticeVars, now, crashes, alerts, lost, moved, silent>>
Mark(r) ==
    /\ At(r, "mark")
    /\ row' = [row EXCEPT !.insufficient = TRUE, !.last_day = reqs[r].days]
    /\ noted' = noted \cup {r}
    /\ moved' = (row.due # reqs[r].row.due)
    /\ GoTo(r, "queue")
    /\ UNCHANGED <<noticeVars, now, crashes, alerts, lost, silent>>

Said(r) == [due |-> reqs[r].row.due, days |-> reqs[r].days]

\* notificationQueue.add, which may fail.
Queue(r) ==
    /\ At(r, "queue")
    /\ GoTo(r, "rest")
    /\ \/ /\ Post(r, "self")
          /\ alerts' = alerts \cup {[due |-> reqs[r].row.due, days |-> reqs[r].days, by |-> r]}
          /\ UNCHANGED lost
       \/ /\ lost' = lost \cup {Said(r)}
          /\ UNCHANGED <<noticeVars, alerts>>
    /\ UNCHANGED <<now, crashes, row, noted, moved, silent>>

Clear(r) ==
    /\ At(r, "clear")
    /\ row' = [row EXCEPT !.insufficient = FALSE, !.last_day = None]
    /\ moved' = FALSE
    /\ GoTo(r, "rest")
    /\ UNCHANGED <<noticeVars, now, crashes, alerts, lost, noted, silent>>

\* The job goes on with other schedules and ends.
EndSweep(r) ==
    /\ At(r, "rest")
    /\ End(r)
    /\ UNCHANGED <<noticeVars, now, crashes, row, alerts, lost, noted, moved, silent>>

----------------------------------------------------------------------------
(* Executions: executeScheduledPayment, for the cron or a request.         *)

BeginExecute(r) == Begin(r, "balance")

\* Too small a balance sets the flag; otherwise the flag of the row read is cleared.
Execute(r) ==
    /\ At(r, "balance")
    /\ \/ /\ End(r)
          /\ Touch([row EXCEPT !.insufficient = TRUE])
          /\ UNCHANGED moved
       \/ /\ GoTo(r, "pay")
          /\ IF reqs[r].row.insufficient
             THEN /\ Touch([row EXCEPT !.insufficient = FALSE, !.last_day = None])
                  /\ moved' = FALSE
             ELSE UNCHANGED <<noticeVars, now, crashes, row, alerts, lost, noted, moved, silent>>

\* The payment is refused, and the run throws.
PaymentFails(r) ==
    /\ At(r, "pay")
    /\ End(r)
    /\ UNCHANGED <<noticeVars, now, crashes, row, alerts, lost, noted, moved, silent>>

\* It was the last occurrence, or the date moves on (see ScheduledPayments).
Paid(r) ==
    /\ At(r, "pay")
    /\ LET old == reqs[r].row IN
         \E due \in Date :
           /\ due >= old.due
           /\ Touch([row EXCEPT !.due = due, !.active = (due # old.due),
                                !.insufficient = FALSE, !.last_day = None])
    /\ moved' = FALSE
    /\ End(r)

----------------------------------------------------------------------------
(* Requests of the owner: skip, update, cancel.                            *)

BeginEdit(r) == \E pc \in {"skip", "update", "cancel"} : Begin(r, pc)

SkipKeepsMark(r) ==
    /\ At(r, "skip")
    /\ \E due \in Date, ended \in BOOLEAN :
         /\ due > reqs[r].row.due
         /\ Touch([row EXCEPT !.due = due, !.active = ~ended])
    /\ UNCHANGED moved
    /\ End(r)
Skip(r) ==
    /\ At(r, "skip")
    /\ \E due \in Date, ended \in BOOLEAN :
         /\ due > reqs[r].row.due
         /\ Touch([row EXCEPT !.due = due, !.active = ~ended,
                              !.insufficient = FALSE, !.last_day = None])
    /\ moved' = FALSE
    /\ End(r)

Update(r) ==
    /\ At(r, "update")
    /\ \E d \in Date :
         /\ d > now
         /\ Touch([row EXCEPT !.due = d])
         /\ moved' = (moved \/ (row.last_day # None /\ d # row.due))
    /\ End(r)

Cancel(r) ==
    /\ At(r, "cancel")
    /\ Touch([row EXCEPT !.active = FALSE])
    /\ UNCHANGED moved
    /\ End(r)

----------------------------------------------------------------------------
\* Any other event that is for a role, such as kyc.submitted.
OtherEvent(r) ==
    /\ Fresh(r)
    /\ Cardinality({q \in Request : jobs[q] # None /\ jobs[q].to = "role"}) < MaxEvents
    /\ Post(r, "role")
    /\ End(r)
    /\ UNCHANGED <<now, crashes, row, alerts, lost, noted, moved, silent>>

ChangeUserStatus(r) ==
    /\ Fresh(r)
    /\ \E u \in User : UpdateUserStatus(u)
    /\ End(r)
    /\ UNCHANGED <<now, crashes, row, alerts, lost, noted, moved, silent>>

Tick ==
    /\ now < MaxTime
    /\ now' = now + 1
    /\ UNCHANGED <<noticeVars, crashes, row, reqs, alerts, lost, noted, moved, silent>>

Crash ==
    /\ crashes < MaxCrashes
    /\ crashes' = crashes + 1
    /\ reqs' = [r \in Request |-> IF reqs[r] = None THEN None ELSE Over]
    /\ lost' = lost \cup {Said(r) : r \in {q \in Request : At(q, "queue")}}
    /\ Stall
    /\ UNCHANGED <<now, row, alerts, noted, moved, silent>>

Next ==
    \/ \E r \in Request :
         \/ BeginSweep(r) \/ Check(r) \/ GiveUp(r) \/ Mark(r) \/ Queue(r) \/ Clear(r) \/ EndSweep(r)
         \/ BeginExecute(r) \/ Execute(r) \/ PaymentFails(r) \/ Paid(r)
         \/ BeginEdit(r) \/ Skip(r) \/ Update(r) \/ Cancel(r)
         \/ OtherEvent(r) \/ ChangeUserStatus(r)
    \/ Tick \/ Crash
    \/ NoticesNext /\ UNCHANGED alertVars

Spec == Init /\ [][Next]_vars

----------------------------------------------------------------------------
(* Properties.                                                             *)

\* A sweep that holds a countdown for alerted is right: an alert with that many
\* days for that date was queued, or lost between its note and the queue, by an
\* error or a crash.  Only an update of the date, or a note made for a date that
\* had moved, deceives it.
SilentAfterAlert ==
    \A s \in silent : s \in lost \/ \E a \in alerts : a.due = s.due /\ a.days = s.days

\* No countdown is alerted twice, however late, early or often the sweep runs,
\* unless somebody else wrote the row once it was noted.
OneAlertPerCountdown ==
    \A a, b \in alerts :
        a.due = b.due /\ a.days = b.days /\ {a.by, b.by} \subseteq noted => a = b
=============================================================================
