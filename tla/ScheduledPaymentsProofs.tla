----------------------- MODULE ScheduledPaymentsProofs -----------------------
(***************************************************************************)
(* Theorems about ScheduledPayments for any calendar, dates, requests and  *)
(* bounds.                                                                 *)
(*                                                                         *)
(* The argument.  Every row an execution works from has been paid up to    *)
(* its count, and whoever is about to write count + 1 has found or made    *)
(* that payment; so late write-backs can only set the count to a value     *)
(* that is paid (Backed).  A 'once' schedule that is active has counted    *)
(* nothing, so all who execute it use the first slot (OnceIsFirst).        *)
(* Without update and skip, count and date move together: the slots and    *)
(* dates of the payments, of the rows in use and of the active row form    *)
(* one chain, in which each date follows from the one before (InChain).    *)
(***************************************************************************)
EXTENDS ScheduledPayments, FiniteSetTheorems, TLAPS

PaidUpTo(n) == \A k \in 1 .. n : AlreadyPaid(k)

Backed ==
    /\ \A p, q \in payments : p.slot = q.slot => p = q
    /\ \A p \in payments : p.slot > 0 /\ PaidUpTo(p.slot)
    /\ PaidUpTo(schedule.count)
    /\ \A x \in Executor : runs[x].pc # "idle" =>
          /\ PaidUpTo(runs[x].row.count)
          /\ runs[x].pc = "update" => AlreadyPaid(runs[x].row.count + 1)

LEMMA RunTypes ==
    ASSUME TypeOK, NEW x \in Executor
    PROVE  /\ runs[x].pc \in {"idle", "find", "create", "update"}
           /\ runs[x].pc = "idle" <=> runs[x] = Idle
           /\ runs[x].pc # "idle" => /\ runs[x] \in Run
                                     /\ runs[x].row \in Row
                                     /\ runs[x].row.count \in Nat
                                     /\ runs[x].row.due \in Int
<1>1. runs[x] \in Run \cup {Idle}
  BY DEF TypeOK
<1> QED
  BY <1>1 DEF Run, Idle, Row

LEMMA EditTypes ==
    ASSUME TypeOK, NEW r \in Request, edits[r] # Idle
    PROVE  /\ edits[r].pc \in Edit /\ edits[r].row \in Row
           /\ edits[r].pc \in {"cancel", "update", "skip"}
           /\ edits[r].row.due \in Int
<1>1. edits[r] \in [pc: Edit, row: Row]
  BY DEF TypeOK
<1> QED
  BY <1>1, ScheduleAssumption DEF Row

LEMMA ScheduleTypes ==
    ASSUME TypeOK
    PROVE  /\ schedule.status \in Status /\ schedule.due \in Int
           /\ schedule.end \in Int \cup {None} /\ schedule.count \in Nat
           /\ schedule \in Row
BY DEF TypeOK, Row

LEMMA NextDateType ==
    ASSUME NEW date \in Int, NEW frequency \in Frequency
    PROVE  /\ NextDate(date, frequency) \in Int
           /\ frequency # "once" => NextDate(date, frequency) > date
<1>1. date % Cycle \in 0 .. Cycle - 1
  BY ScheduleAssumption
<1>2. MonthDays[date % Cycle] \in Nat \ {0} /\ Week \in Nat \ {0}
  BY <1>1, ScheduleAssumption
<1>3. /\ DaysOn(date, frequency) \in Nat
      /\ frequency # "once" => DaysOn(date, frequency) > 0
  BY <1>2 DEF DaysOn, Frequency
<1> QED
  BY <1>3 DEF NextDate

LEMMA NextDueType ==
    ASSUME NEW row \in Row PROVE NextDue(row) \in Int
BY NextDateType DEF NextDue, Row

----------------------------------------------------------------------------
(* Type correctness.                                                       *)

LEMMA StartType ==
    ASSUME TypeOK, NEW x \in Executor, Start(x) PROVE TypeOK'
<1>1. [pc |-> "find", row |-> schedule] \in Run
  BY DEF TypeOK, Run
<1> QED
  BY <1>1 DEF TypeOK, Start

LEMMA FindType ==
    ASSUME TypeOK, NEW x \in Executor, Find(x) PROVE TypeOK'
<1>1. runs[x] \in Run
  BY RunTypes DEF Find
<1>2. PICK pc \in {"update", "create"} : runs' = [runs EXCEPT ![x].pc = pc]
  BY DEF Find
<1>3. [runs[x] EXCEPT !.pc = pc] \in Run
  BY <1>1 DEF Run
<1>4. runs' \in [Executor -> Run \cup {Idle}]
  BY <1>2, <1>3 DEF TypeOK
<1> QED
  BY <1>4 DEF TypeOK, Find

LEMMA CreateType ==
    ASSUME TypeOK, NEW x \in Executor, Create(x) PROVE TypeOK'
<1>1. runs[x] \in Run /\ runs[x].row.count \in Nat /\ runs[x].row.due \in Int
  BY RunTypes DEF Create
<1>2. [runs[x] EXCEPT !.pc = "update"] \in Run
  BY <1>1 DEF Run
<1>3. runs' \in [Executor -> Run \cup {Idle}]
  BY <1>2 DEF TypeOK, Create
<1>4. [slot |-> Slot(x), due |-> runs[x].row.due, at |-> now] \in Payment
  BY <1>1, ScheduleAssumption DEF TypeOK, Payment, Slot
<1>5. payments' \subseteq Payment
  BY <1>4 DEF TypeOK, Create
<1> QED
  BY <1>3, <1>5 DEF TypeOK, Create

LEMMA FinishType ==
    ASSUME TypeOK, NEW x \in Executor, Finish(x) PROVE TypeOK'
<1>1. /\ runs[x] \in Run /\ runs[x].row \in Row
      /\ runs[x].row.count \in Nat /\ runs[x].row.due \in Int
  BY RunTypes DEF Finish
<1>2. PICK due \in Int, status \in Status :
         schedule' = [schedule EXCEPT !.count = runs[x].row.count + 1,
                                      !.due = due, !.status = status]
  BY <1>1, NextDueType DEF Finish, Status
<1>3. schedule \in Row
  BY DEF TypeOK
<1>4. [schedule EXCEPT !.count = runs[x].row.count + 1, !.due = due,
                       !.status = status] \in Row
  <2>1. runs[x].row.count + 1 \in Nat
    BY <1>1
  <2> QED
    BY <1>3, <2>1 DEF Row
<1> QED
  BY <1>2, <1>4 DEF TypeOK, Finish

LEMMA CommitEditType ==
    ASSUME TypeOK, NEW r \in Request, CommitEdit(r) PROVE TypeOK'
<1>1. schedule' \in Row
  <2>1. Cancelled \in Row
    BY DEF TypeOK, Row, Status, Cancelled
  <2>2. Update => schedule' \in Row
    <3> SUFFICES ASSUME NEW due \in {schedule.due} \cup {d \in Date : d > now},
                        NEW end \in {schedule.end, None} \cup Date,
                        schedule' = [schedule EXCEPT !.due = due, !.end = end]
                 PROVE  schedule' \in Row
      BY DEF Update
    <3>1. due \in Int /\ end \in Int \cup {None}
      BY ScheduleTypes, ScheduleAssumption
    <3> QED
      BY <3>1 DEF TypeOK, Row
  <2>3. edits[r].pc = "skip" => Skipped(edits[r].row) \in Row
    <3>1. NextDue(edits[r].row) \in Int
      BY EditTypes, NextDueType DEF CommitEdit
    <3> QED
      BY <3>1 DEF TypeOK, Row, Status, Skipped
  <2> QED
    BY <2>1, <2>2, <2>3 DEF CommitEdit
<1> QED
  BY <1>1 DEF TypeOK, CommitEdit

LEMMA StepType ==
    ASSUME TypeOK, [Next]_vars PROVE TypeOK'
<1>1. CASE UNCHANGED vars
  BY <1>1 DEF vars, TypeOK
<1>2. CASE CreateSchedule
  <2>1. schedule' \in Row
    BY <1>2, ScheduleAssumption DEF CreateSchedule, Row, Status
  <2> QED
    BY <1>2, <2>1 DEF CreateSchedule, TypeOK
<1>3. ASSUME NEW x \in Executor, Execute(x) PROVE TypeOK'
  <2>1. GiveUp(x) => TypeOK'
    BY DEF GiveUp, TypeOK
  <2> QED
    BY <1>3, <2>1, StartType, FindType, CreateType, FinishType DEF Execute
<1>4. ASSUME NEW r \in Request, BeginEdit(r) PROVE TypeOK'
  <2>1. PICK op \in Edit : edits' = [edits EXCEPT ![r] = [pc |-> op, row |-> schedule]]
    BY <1>4 DEF BeginEdit
  <2> QED
    BY <1>4, <2>1 DEF BeginEdit, TypeOK
<1>5. ASSUME NEW r \in Request, CommitEdit(r) PROVE TypeOK'
  BY <1>5, CommitEditType
<1>6. CASE Tick
  BY <1>6, ScheduleAssumption DEF Tick, TypeOK
<1>7. CASE Crash
  BY <1>7, ScheduleAssumption DEF Crash, TypeOK
<1> QED
  BY <1>1, <1>2, <1>3, <1>4, <1>5, <1>6, <1>7 DEF Next

LEMMA InitType == Init => TypeOK
<1>1. [frequency |-> "once", status |-> "none", due |-> 0, end |-> None,
       count |-> 0] \in Row
  BY DEF Row, Status, Frequency
<1>2. 0 \in 0 .. MaxTime /\ 0 \in 0 .. MaxCrashes
  BY ScheduleAssumption
<1> QED
  BY <1>1, <1>2, Zenon DEF Init, TypeOK

\* Every reachable state is well typed: the rows that executions and edits
\* hold are rows the table has had.
THEOREM TypeCorrect == Spec => []TypeOK
BY InitType, StepType, PTL DEF Spec

----------------------------------------------------------------------------
(* Counts and payments.                                                    *)

\* Payments are never withdrawn.
LEMMA PaidStaysPaid ==
    ASSUME [Next]_vars
    PROVE  /\ payments \subseteq payments'
           /\ \A k : AlreadyPaid(k) => AlreadyPaid(k)'
           /\ \A n : PaidUpTo(n) => PaidUpTo(n)'
<1>1. payments \subseteq payments'
  BY DEF Next, vars, CreateSchedule, Execute, Start, Find, Create, GiveUp,
         Finish, BeginEdit, CommitEdit, Tick, Crash
<1>2. ASSUME NEW k PROVE AlreadyPaid(k) => AlreadyPaid(k)'
  BY <1>1 DEF AlreadyPaid
<1>3. ASSUME NEW n PROVE PaidUpTo(n) => PaidUpTo(n)'
  BY <1>2 DEF PaidUpTo
<1> QED
  BY <1>1, <1>2, <1>3

\* What the steps that submit no payment have to show.
LEMMA NothingSubmitted ==
    ASSUME TypeOK, Backed, [Next]_vars, payments' = payments,
           PaidUpTo(schedule'.count),
           \A x \in Executor : runs'[x].pc # "idle" =>
              /\ PaidUpTo(runs'[x].row.count)
              /\ runs'[x].pc = "update" => AlreadyPaid(runs'[x].row.count + 1)
    PROVE  Backed'
BY DEF Backed, PaidUpTo, AlreadyPaid

LEMMA StartBacked ==
    ASSUME TypeOK, Backed, [Next]_vars, NEW x \in Executor, Start(x)
    PROVE  Backed'
<1>1. /\ runs' = [runs EXCEPT ![x] = [pc |-> "find", row |-> schedule]]
      /\ payments' = payments /\ schedule' = schedule
  BY DEF Start
<1>2. PaidUpTo(schedule.count)
  BY DEF Backed
<1>3. ASSUME NEW y \in Executor, runs'[y].pc # "idle"
      PROVE  /\ PaidUpTo(runs'[y].row.count)
             /\ runs'[y].pc = "update" => AlreadyPaid(runs'[y].row.count + 1)
  <2>1. CASE y = x
    BY <1>1, <1>2, <2>1 DEF TypeOK
  <2>2. CASE y # x
    <3>1. runs'[y] = runs[y]
      BY <1>1, <2>2 DEF TypeOK
    <3> QED
      BY <1>3, <3>1 DEF Backed
  <2> QED
    BY <2>1, <2>2
<1> QED
  BY <1>1, <1>2, <1>3, NothingSubmitted

LEMMA FindBacked ==
    ASSUME TypeOK, Backed, [Next]_vars, NEW x \in Executor, Find(x)
    PROVE  Backed'
<1>1. /\ runs' = [runs EXCEPT ![x].pc =
                      IF AlreadyPaid(Slot(x)) THEN "update" ELSE "create"]
      /\ payments' = payments /\ schedule' = schedule
      /\ runs[x].pc = "find"
  BY DEF Find
<1>2. PaidUpTo(schedule.count)
  BY DEF Backed
<1>3. ASSUME NEW y \in Executor, runs'[y].pc # "idle"
      PROVE  /\ PaidUpTo(runs'[y].row.count)
             /\ runs'[y].pc = "update" => AlreadyPaid(runs'[y].row.count + 1)
  <2>1. CASE y = x
    <3>1. runs[x] \in Run
      BY <1>1, RunTypes
    <3>2. /\ runs'[x].row = runs[x].row
          /\ runs'[x].pc = "update" => AlreadyPaid(Slot(x))
      BY <1>1, <3>1 DEF TypeOK, Run
    <3>3. PaidUpTo(runs[x].row.count)
      BY <1>1 DEF Backed
    <3> QED
      BY <2>1, <3>2, <3>3 DEF Slot
  <2>2. CASE y # x
    <3>1. runs'[y] = runs[y]
      BY <1>1, <2>2 DEF TypeOK
    <3> QED
      BY <1>3, <3>1 DEF Backed
  <2> QED
    BY <2>1, <2>2
<1> QED
  BY <1>1, <1>2, <1>3, NothingSubmitted

LEMMA CreateBacked ==
    ASSUME TypeOK, Backed, [Next]_vars, NEW x \in Executor, Create(x)
    PROVE  Backed'
<1>1. /\ runs[x].pc = "create" /\ schedule' = schedule
      /\ runs[x] \in Run /\ runs[x].row.count \in Nat
      /\ PaidUpTo(runs[x].row.count)
  BY RunTypes DEF Create, Backed
<1>2. CASE AlreadyPaid(Slot(x))
  <2>1. payments' = payments /\ runs' = [runs EXCEPT ![x] = Idle]
    BY <1>2 DEF Create
  <2>2. ASSUME NEW y \in Executor, runs'[y].pc # "idle"
        PROVE  runs'[y] = runs[y]
    BY <2>1, <2>2 DEF TypeOK, Idle
  <2>3. ASSUME NEW y \in Executor, runs'[y].pc # "idle"
        PROVE  /\ PaidUpTo(runs'[y].row.count)
               /\ runs'[y].pc = "update" => AlreadyPaid(runs'[y].row.count + 1)
    BY <2>2, <2>3 DEF Backed
  <2>4. PaidUpTo(schedule'.count)
    BY <1>1 DEF Backed
  <2> QED
    BY <2>1, <2>3, <2>4, NothingSubmitted
<1>3. CASE ~AlreadyPaid(Slot(x))
  <2> DEFINE new == [slot |-> Slot(x), due |-> runs[x].row.due, at |-> now]
  <2>1. payments' = payments \cup {new} /\ runs' = [runs EXCEPT ![x].pc = "update"]
    BY <1>3 DEF Create
  <2>2. Slot(x) \in Nat /\ Slot(x) = runs[x].row.count + 1 /\ new.slot = Slot(x)
    BY <1>1 DEF Slot
  <2>3. AlreadyPaid(Slot(x))'
    <3>1. \E p \in payments' : p.slot = Slot(x)
      BY <2>1, <2>2
    <3>2. Slot(x)' = Slot(x)
      BY <2>1, <1>1 DEF Slot, TypeOK, Run
    <3> QED
      BY <3>1, <3>2 DEF AlreadyPaid
  <2>4. \E p \in payments' : p.slot = runs[x].row.count + 1
    BY <2>1, <2>2
  <2>5. \A k \in 1 .. runs[x].row.count + 1 : \E p \in payments' : p.slot = k
    <3>1. \A k \in 1 .. runs[x].row.count : \E p \in payments : p.slot = k
      BY <1>1 DEF PaidUpTo, AlreadyPaid
    <3> QED
      BY <1>1, <2>1, <2>4, <3>1
  <2>6. \A p, q \in payments' : p.slot = q.slot => p = q
    <3>1. \A p \in payments : p.slot # new.slot
      BY <1>3, <2>2 DEF AlreadyPaid
    <3> HIDE DEF new
    <3> QED
      BY <2>1, <3>1 DEF Backed
  <2>7. ASSUME NEW p \in payments'
        PROVE  p.slot > 0 /\ \A k \in 1 .. p.slot : \E q \in payments' : q.slot = k
    <3>1. CASE p = new
      BY <1>1, <2>2, <2>5, <3>1
    <3>2. CASE p \in payments
      <4>1. p.slot > 0 /\ \A k \in 1 .. p.slot : \E q \in payments : q.slot = k
        BY <3>2 DEF Backed, PaidUpTo, AlreadyPaid
      <4> QED
        BY <2>1, <4>1
    <3> HIDE DEF new
    <3> QED
      BY <2>1, <3>1, <3>2
  <2>8. \A k \in 1 .. schedule'.count : \E q \in payments' : q.slot = k
    BY <1>1, <2>1 DEF Backed, PaidUpTo, AlreadyPaid
  <2>9. ASSUME NEW y \in Executor, runs'[y].pc # "idle"
        PROVE  /\ \A k \in 1 .. runs'[y].row.count : \E q \in payments' : q.slot = k
               /\ runs'[y].pc = "update" =>
                     \E q \in payments' : q.slot = runs'[y].row.count + 1
    <3>1. CASE y = x
      <4>1. runs'[x].row = runs[x].row
        BY <1>1, <2>1 DEF TypeOK, Run
      <4> HIDE DEF new
      <4> QED
        BY <1>1, <2>4, <2>5, <3>1, <4>1
    <3>2. CASE y # x
      <4>1. runs'[y] = runs[y]
        BY <2>1, <3>2 DEF TypeOK
      <4> HIDE DEF new
      <4> QED
        BY <2>1, <2>9, <4>1 DEF Backed, PaidUpTo, AlreadyPaid
    <3> QED
      BY <3>1, <3>2
  <2> HIDE DEF new
  <2> QED
    BY <2>6, <2>7, <2>8, <2>9 DEF Backed, PaidUpTo, AlreadyPaid
<1> QED
  BY <1>2, <1>3

LEMMA FinishBacked ==
    ASSUME TypeOK, Backed, [Next]_vars, NEW x \in Executor, Finish(x)
    PROVE  Backed'
<1>1. /\ runs[x].pc = "update" /\ payments' = payments
      /\ runs' = [runs EXCEPT ![x] = Idle]
      /\ runs[x].row.count \in Nat
  BY RunTypes DEF Finish
<1>2. schedule'.count = runs[x].row.count + 1
  BY DEF Finish, TypeOK, Row
<1>3. PaidUpTo(schedule'.count)
  <2>1. PaidUpTo(runs[x].row.count) /\ AlreadyPaid(runs[x].row.count + 1)
    BY <1>1 DEF Backed
  <2> QED
    BY <1>1, <1>2, <2>1 DEF PaidUpTo
<1>4. ASSUME NEW y \in Executor, runs'[y].pc # "idle"
      PROVE  /\ PaidUpTo(runs'[y].row.count)
             /\ runs'[y].pc = "update" => AlreadyPaid(runs'[y].row.count + 1)
  <2>1. runs'[y] = runs[y]
    BY <1>1, <1>4 DEF TypeOK, Idle
  <2> QED
    BY <1>4, <2>1 DEF Backed
<1> QED
  BY <1>1, <1>3, <1>4, NothingSubmitted

\* The other steps start no execution and leave the count alone.
LEMMA OtherBacked ==
    ASSUME TypeOK, Backed, [Next]_vars,
           payments' = payments, schedule'.count = schedule.count,
           \A x \in Executor : runs'[x] = runs[x] \/ runs'[x] = Idle
    PROVE  Backed'
<1>1. PaidUpTo(schedule'.count)
  BY DEF Backed
<1>2. ASSUME NEW y \in Executor, runs'[y].pc # "idle"
      PROVE  /\ PaidUpTo(runs'[y].row.count)
             /\ runs'[y].pc = "update" => AlreadyPaid(runs'[y].row.count + 1)
  <2>1. runs'[y] = runs[y]
    BY <1>2 DEF Idle
  <2> QED
    BY <1>2, <2>1 DEF Backed
<1> QED
  BY <1>1, <1>2, NothingSubmitted

LEMMA CommitEditKeeps ==
    ASSUME TypeOK, NEW r \in Request, CommitEdit(r)
    PROVE  /\ schedule'.count = schedule.count
           /\ payments' = payments /\ runs' = runs
<1>1. Cancelled.count = schedule.count
  BY DEF Cancelled, TypeOK, Row
<1>2. Update => schedule'.count = schedule.count
  BY DEF Update, TypeOK, Row
<1>3. Skipped(edits[r].row).count = schedule.count
  BY DEF Skipped, TypeOK, Row
<1> QED
  BY <1>1, <1>2, <1>3 DEF CommitEdit

LEMMA StepBacked ==
    ASSUME TypeOK, Backed, [Next]_vars PROVE Backed'
<1>1. CASE UNCHANGED vars
  BY <1>1, OtherBacked DEF vars
<1>2. CASE CreateSchedule
  <2>1. schedule'.count = 0 /\ payments' = payments /\ runs' = runs
    BY <1>2 DEF CreateSchedule
  <2>2. PaidUpTo(schedule'.count)
    BY <2>1 DEF PaidUpTo
  <2> QED
    BY <2>1, <2>2, NothingSubmitted DEF Backed
<1>3. ASSUME NEW x \in Executor, Execute(x) PROVE Backed'
  <2>1. CASE GiveUp(x)
    BY <2>1, OtherBacked DEF GiveUp, TypeOK
  <2> QED
    BY <1>3, <2>1, StartBacked, FindBacked, CreateBacked, FinishBacked DEF Execute
<1>4. ASSUME NEW r \in Request, BeginEdit(r) PROVE Backed'
  BY <1>4, OtherBacked DEF BeginEdit
<1>5. ASSUME NEW r \in Request, CommitEdit(r) PROVE Backed'
  BY <1>5, CommitEditKeeps, OtherBacked
<1>6. CASE Tick
  BY <1>6, OtherBacked DEF Tick
<1>7. CASE Crash
  BY <1>7, OtherBacked DEF Crash
<1> QED
  BY <1>1, <1>2, <1>3, <1>4, <1>5, <1>6, <1>7 DEF Next

LEMMA InitBacked == Init => Backed
BY DEF Init, Backed, PaidUpTo, AlreadyPaid, Idle

LEMMA BackedInvariant == Spec => []Backed
BY InitBacked, StepBacked, TypeCorrect, PTL DEF Spec

\* execution_count never runs ahead of the payments, and no slot is left out,
\* however many executions, edits and restarts overlap.
THEOREM CountsWhatIsPaid == Spec => []CountedArePaid
<1>1. TypeOK /\ Backed => CountedArePaid
  <2> SUFFICES ASSUME TypeOK, Backed PROVE CountedArePaid
    OBVIOUS
  <2>1. \A k \in 1 .. schedule.count : AlreadyPaid(k)
    BY DEF Backed, PaidUpTo
  <2>2. ASSUME NEW p \in payments, p.slot > 1
        PROVE  AlreadyPaid(p.slot - 1)
    <3>1. PaidUpTo(p.slot) /\ p.slot \in Nat
      BY DEF Backed, TypeOK, Payment
    <3>2. p.slot - 1 \in 1 .. p.slot
      BY <2>2, <3>1
    <3> QED
      BY <3>1, <3>2 DEF PaidUpTo
  <2> QED
    BY <2>1, <2>2 DEF CountedArePaid
<1> QED
  BY <1>1, BackedInvariant, TypeCorrect, PTL

----------------------------------------------------------------------------
(* Schedules that are paid once.                                           *)

\* Before it is created nobody uses the row.
Unused ==
    schedule.status = "none" =>
        /\ payments = {}
        /\ \A x \in Executor : runs[x] = Idle
        /\ \A r \in Request : edits[r] = Idle

OnceIsFirst ==
    schedule.frequency = "once" =>
        /\ schedule.status = "active" => schedule.count = 0
        /\ \A p \in payments : p.slot = 1
        /\ \A x \in Executor : runs[x] # Idle =>
              runs[x].row.frequency = "once" /\ runs[x].row.count = 0
        /\ \A r \in Request : edits[r] # Idle => edits[r].pc # "skip"

LEMMA CommitEditRow ==
    ASSUME TypeOK, NEW r \in Request, CommitEdit(r), schedule.status # "none"
    PROVE  /\ schedule'.frequency = schedule.frequency
           /\ schedule'.count = schedule.count
           /\ schedule'.status # "none"
           /\ schedule'.status = "active" =>
                 schedule.status = "active" \/ edits[r].pc = "skip"
           /\ ~moved' => schedule' = Cancelled
           /\ payments' = payments /\ runs' = runs
           /\ \A q \in Request : edits'[q] = edits[q] \/ edits'[q] = Idle
           /\ ~moved' => ~moved
<1>1. /\ payments' = payments /\ runs' = runs /\ (~moved' => ~moved)
      /\ \A q \in Request : edits'[q] = edits[q] \/ edits'[q] = Idle
  BY DEF CommitEdit, TypeOK
<1>2. /\ Cancelled.frequency = schedule.frequency /\ Cancelled.count = schedule.count
      /\ Cancelled.status = "cancelled"
  BY DEF Cancelled, TypeOK, Row
<1>3. Update => /\ schedule'.frequency = schedule.frequency
                /\ schedule'.count = schedule.count
                /\ schedule'.status = schedule.status
  BY DEF Update, TypeOK, Row
<1>4. /\ Skipped(edits[r].row).frequency = schedule.frequency
      /\ Skipped(edits[r].row).count = schedule.count
      /\ Skipped(edits[r].row).status # "none"
  BY DEF Skipped, TypeOK, Row
<1>5. ~moved' => schedule' = Cancelled
  BY DEF CommitEdit
<1>6. CASE edits[r].pc = "cancel" /\ schedule' = Cancelled
  BY <1>1, <1>2, <1>5, <1>6
<1>7. CASE edits[r].pc = "update" /\ Update
  BY <1>1, <1>3, <1>5, <1>7
<1>8. CASE edits[r].pc = "skip" /\ schedule' = Skipped(edits[r].row)
  BY <1>1, <1>4, <1>5, <1>8
<1> QED
  BY <1>6, <1>7, <1>8 DEF CommitEdit

\* What a write-back does to the row.
LEMMA FinishRow ==
    ASSUME TypeOK, NEW x \in Executor, Finish(x)
    PROVE  LET row == runs[x].row IN
           /\ runs[x] # Idle /\ row \in Row
           /\ schedule'.frequency = schedule.frequency
           /\ schedule'.count = row.count + 1
           /\ schedule'.status \in {"active", "completed"}
           /\ schedule'.status = "active" =>
                 row.frequency # "once" /\ schedule'.due = NextDue(row)
           /\ payments' = payments /\ edits' = edits /\ moved' = moved
           /\ \A y \in Executor : runs'[y] # Idle => runs'[y] = runs[y]
<1> DEFINE row == runs[x].row
<1>1. runs[x] # Idle /\ row \in Row
  BY RunTypes DEF Finish, Idle
<1>2. schedule' = [schedule EXCEPT
                     !.count  = row.count + 1,
                     !.due    = IF IsDone(row) THEN row.due ELSE NextDue(row),
                     !.status = IF IsDone(row) THEN "completed" ELSE "active"]
  BY DEF Finish
<1>3. /\ schedule'.frequency = schedule.frequency
      /\ schedule'.count = row.count + 1
      /\ schedule'.status = IF IsDone(row) THEN "completed" ELSE "active"
      /\ schedule'.due = IF IsDone(row) THEN row.due ELSE NextDue(row)
  <2> HIDE DEF row
  <2> QED
    BY <1>2 DEF TypeOK, Row
<1>4. ~IsDone(row) => row.frequency # "once"
  BY DEF IsDone
<1>5. \A y \in Executor : runs'[y] # Idle => runs'[y] = runs[y]
  BY DEF Finish, TypeOK
<1>6. payments' = payments /\ edits' = edits /\ moved' = moved
  BY DEF Finish
<1> QED
  BY <1>1, <1>3, <1>4, <1>5, <1>6

LEMMA UnusedStep ==
    ASSUME TypeOK, Unused, [Next]_vars PROVE Unused'
<1>1. CASE UNCHANGED vars
  BY <1>1 DEF vars, Unused
<1>2. CASE CreateSchedule
  <2>1. schedule'.status = "active"
    BY <1>2 DEF CreateSchedule
  <2> QED
    BY <2>1 DEF Unused
<1>3. ASSUME NEW x \in Executor, Execute(x) PROVE Unused'
  <2>1. CASE Finish(x)
    BY <2>1, FinishRow DEF Unused
  <2>2. CASE ~Finish(x)
    <3>1. schedule.status # "none" /\ schedule' = schedule
      BY <1>3, <2>2 DEF Execute, Start, Find, Create, GiveUp, Unused, Idle
    <3> QED
      BY <3>1 DEF Unused
  <2> QED
    BY <2>1, <2>2
<1>4. ASSUME NEW r \in Request, BeginEdit(r) PROVE Unused'
  BY <1>4 DEF BeginEdit, MayEdit, Unused
<1>5. ASSUME NEW r \in Request, CommitEdit(r) PROVE Unused'
  <2>1. schedule.status # "none"
    BY <1>5 DEF CommitEdit, Unused
  <2> QED
    BY <1>5, <2>1, CommitEditRow DEF Unused
<1>6. CASE Tick
  BY <1>6 DEF Tick, Unused
<1>7. CASE Crash
  BY <1>7 DEF Crash, Unused
<1> QED
  BY <1>1, <1>2, <1>3, <1>4, <1>5, <1>6, <1>7 DEF Next

\* What the four steps of an execution do before it writes back.
LEMMA ExecuteRow ==
    ASSUME TypeOK, NEW x \in Executor,
           Start(x) \/ Find(x) \/ Create(x) \/ GiveUp(x)
    PROVE  /\ schedule' = schedule /\ edits' = edits /\ moved' = moved
           /\ \A y \in Executor : runs'[y] # Idle =>
                 \/ runs[y] # Idle /\ runs'[y].row = runs[y].row
                 \/ schedule.status = "active" /\ runs'[y].row = schedule
           /\ \/ payments' = payments
              \/ /\ runs[x] # Idle
                 /\ payments' = payments \cup
                      {[slot |-> runs[x].row.count + 1,
                        due |-> runs[x].row.due, at |-> now]}
<1>1. runs[x].pc # "idle" => runs[x] # Idle /\ runs[x] \in Run
  BY RunTypes
<1>2. CASE Start(x)
  BY <1>2 DEF Start, TypeOK
<1>3. CASE Find(x)
  <2>1. PICK pc \in {"update", "create"} : runs' = [runs EXCEPT ![x].pc = pc]
    BY <1>3 DEF Find
  <2>2. runs'[x].row = runs[x].row /\ runs[x] # Idle
    BY <1>1, <1>3, <2>1 DEF Find, TypeOK, Run
  <2> QED
    BY <1>3, <2>1, <2>2 DEF Find, TypeOK
<1>4. CASE Create(x)
  <2>1. runs'[x].row = runs[x].row \/ runs'[x] = Idle
    BY <1>1, <1>4 DEF Create, TypeOK, Run
  <2> QED
    BY <1>1, <1>4, <2>1 DEF Create, TypeOK, Slot
<1>5. CASE GiveUp(x)
  BY <1>5 DEF GiveUp, TypeOK
<1> QED
  BY <1>2, <1>3, <1>4, <1>5

LEMMA OnceStep ==
    ASSUME TypeOK, Unused, OnceIsFirst, [Next]_vars PROVE OnceIsFirst'
<1>1. CASE UNCHANGED vars
  BY <1>1 DEF vars, OnceIsFirst
<1>2. CASE CreateSchedule
  BY <1>2 DEF CreateSchedule, Unused, OnceIsFirst
<1>3. ASSUME NEW x \in Executor, Execute(x) PROVE OnceIsFirst'
  <2>1. CASE Finish(x)
    BY <2>1, FinishRow DEF OnceIsFirst
  <2>2. CASE Start(x) \/ Find(x) \/ Create(x) \/ GiveUp(x)
    BY <2>2, ExecuteRow DEF OnceIsFirst
  <2> QED
    BY <1>3, <2>1, <2>2 DEF Execute
<1>4. ASSUME NEW r \in Request, BeginEdit(r) PROVE OnceIsFirst'
  BY <1>4 DEF BeginEdit, OnceIsFirst, TypeOK
<1>5. ASSUME NEW r \in Request, CommitEdit(r) PROVE OnceIsFirst'
  <2>1. schedule.status # "none" /\ edits[r] # Idle
    BY <1>5 DEF CommitEdit, Unused
  <2> QED
    BY <1>5, <2>1, CommitEditRow DEF OnceIsFirst
<1>6. CASE Tick
  BY <1>6 DEF Tick, OnceIsFirst
<1>7. CASE Crash
  BY <1>7 DEF Crash, OnceIsFirst
<1> QED
  BY <1>1, <1>2, <1>3, <1>4, <1>5, <1>6, <1>7 DEF Next

LEMMA OnceInvariant == Spec => [](Unused /\ OnceIsFirst)
<1>1. Init => Unused /\ OnceIsFirst
  BY DEF Init, Unused, OnceIsFirst
<1> QED
  BY <1>1, UnusedStep, OnceStep, TypeCorrect, PTL DEF Spec

\* A 'once' schedule is paid once, whatever cron runs, manual executions,
\* updates, cancellations and restarts overlap.
THEOREM OnceIsPaidOnce == Spec => []PaidOnce
<1>1. Backed /\ OnceIsFirst => PaidOnce
  <2> SUFFICES ASSUME Backed, OnceIsFirst, schedule.frequency = "once"
               PROVE  Cardinality(payments) <= 1
    BY DEF PaidOnce
  <2>1. \A p, q \in payments : p = q
    BY DEF Backed, OnceIsFirst
  <2>2. CASE payments = {}
    BY <2>2, FS_EmptySet
  <2>3. CASE payments # {}
    <3>1. PICK p \in payments : payments = {p}
      BY <2>1, <2>3
    <3>2. Cardinality({p}) = 1
      BY FS_Singleton
    <3>3. Cardinality(payments) = 1
      BY <3>1, <3>2
    <3> QED
      BY <3>3
  <2> QED
    BY <2>2, <2>3
<1> QED
  BY <1>1, OnceInvariant, BackedInvariant, PTL

----------------------------------------------------------------------------
(* Occurrences, without update and skip.                                   *)

\* Slots with the dates they are for: paid, being paid, and next.
Paid   == {[slot |-> p.slot, due |-> p.due] : p \in payments}
Tried  == {[slot |-> runs[x].row.count + 1, due |-> runs[x].row.due] :
             x \in {y \in Executor : runs[y] # Idle}}
Coming == IF schedule.status = "active"
          THEN {[slot |-> schedule.count + 1, due |-> schedule.due]} ELSE {}

Points == Paid \cup Tried \cup Coming

Chain(S, frequency) ==
    \A a, b \in S :
        /\ a.slot = b.slot => a.due = b.due
        /\ a.slot + 1 = b.slot => b.due = NextDate(a.due, frequency)
        /\ a.slot < b.slot => a.due < b.due

InChain == ~moved => Chain(Points, schedule.frequency)

\* Executions work from rows with the frequency of the schedule.
SameFrequency ==
    \A x \in Executor : runs[x] # Idle => runs[x].row.frequency = schedule.frequency

LEMMA PointTypes ==
    ASSUME TypeOK
    PROVE  \A a \in Points : a.slot \in Nat /\ a.due \in Int
<1>1. \A p \in payments : p.slot \in Nat /\ p.due \in Int
  BY DEF TypeOK, Payment
<1>2. \A x \in Executor : runs[x] # Idle =>
         runs[x].row.count \in Nat /\ runs[x].row.due \in Int
  BY RunTypes
<1>3. schedule.count \in Nat /\ schedule.due \in Int
  BY ScheduleTypes
<1> QED
  BY <1>1, <1>2, <1>3 DEF Points, Paid, Tried, Coming

\* Every slot below one of the chain is paid.
LEMMA PointsBacked ==
    ASSUME TypeOK, Backed, NEW b \in Points, NEW n \in Nat, 0 < n, n < b.slot
    PROVE  \E a \in Paid : a.slot = n
<1>1. ASSUME NEW k, AlreadyPaid(k) PROVE \E a \in Paid : a.slot = k
  <2>1. PICK p \in payments : p.slot = k
    BY <1>1 DEF AlreadyPaid
  <2>2. [slot |-> p.slot, due |-> p.due] \in Paid
    BY DEF Paid
  <2> QED
    BY <2>1, <2>2
<1>2. CASE b \in Paid
  <2>1. PICK p \in payments : b = [slot |-> p.slot, due |-> p.due]
    BY <1>2 DEF Paid
  <2>2. PaidUpTo(p.slot) /\ p.slot \in Nat
    BY <2>1 DEF Backed, TypeOK, Payment
  <2> QED
    BY <1>1, <2>1, <2>2 DEF PaidUpTo
<1>3. CASE b \in Tried
  <2>1. PICK x \in Executor : /\ runs[x] # Idle
                              /\ b.slot = runs[x].row.count + 1
    BY <1>3 DEF Tried
  <2>2. PaidUpTo(runs[x].row.count) /\ runs[x].row.count \in Nat
    BY <2>1, RunTypes DEF Backed
  <2> QED
    BY <1>1, <2>1, <2>2 DEF PaidUpTo
<1>4. CASE b \in Coming
  <2>1. b.slot = schedule.count + 1
    BY <1>4 DEF Coming
  <2>2. PaidUpTo(schedule.count) /\ schedule.count \in Nat
    BY ScheduleTypes DEF Backed
  <2> QED
    BY <1>1, <2>1, <2>2 DEF PaidUpTo
<1> QED
  BY <1>2, <1>3, <1>4 DEF Points

\* The chain goes on from a slot that has been paid.
LEMMA ChainGrows ==
    ASSUME TypeOK, Backed, NEW f \in Frequency, f # "once", Chain(Points, f),
           NEW c \in Paid,
           NEW new, new.slot = c.slot + 1, new.due = NextDate(c.due, f)
    PROVE  Chain(Points \cup {new}, f)
<1>1. c \in Points /\ c.slot \in Nat /\ c.due \in Int
  BY PointTypes DEF Points
<1>2. new.slot \in Nat /\ new.due \in Int /\ c.due < new.due /\ 0 < new.slot
  BY <1>1, NextDateType
<1>3. \A a \in Points : a.slot \in Nat /\ a.due \in Int
  BY PointTypes
<1>4. ASSUME NEW b \in Points, b.slot = new.slot
      PROVE  b.due = new.due
  BY <1>1, <1>4 DEF Chain
<1>5. ASSUME NEW b \in Points, b.slot < new.slot
      PROVE  /\ b.due < new.due
             /\ b.slot + 1 = new.slot => new.due = NextDate(b.due, f)
  <2>1. b.slot = c.slot \/ b.slot < c.slot
    BY <1>1, <1>3, <1>5
  <2>2. b.slot = c.slot => b.due = c.due
    BY <1>1 DEF Chain
  <2>3. b.slot < c.slot => b.due < c.due
    BY <1>1 DEF Chain
  <2>4. b.slot + 1 = new.slot => b.slot = c.slot
    BY <1>1, <1>3
  <2> QED
    BY <1>1, <1>2, <1>3, <2>1, <2>2, <2>3, <2>4
<1>6. ASSUME NEW b \in Points, new.slot < b.slot
      PROVE  /\ new.due < b.due
             /\ new.slot + 1 = b.slot => b.due = NextDate(new.due, f)
  <2>1. PICK a \in Paid : a.slot = new.slot
    BY <1>2, <1>6, PointsBacked
  <2>2. a \in Points /\ a.due = new.due
    BY <1>4, <2>1 DEF Points
  <2> QED
    BY <1>6, <2>1, <2>2 DEF Chain
<1>7. ~(new.slot < new.slot) /\ ~(new.slot + 1 = new.slot)
  BY <1>2
<1>8. ASSUME NEW a \in Points \cup {new}, NEW b \in Points \cup {new}
      PROVE  /\ a.slot = b.slot => a.due = b.due
             /\ a.slot + 1 = b.slot => b.due = NextDate(a.due, f)
             /\ a.slot < b.slot => a.due < b.due
  <2>1. CASE a \in Points /\ b \in Points
    BY <2>1 DEF Chain
  <2>2. CASE a = new /\ b = new
    BY <1>7, <2>2
  <2>3. CASE a \in Points /\ b = new
    <3>1. a.slot + 1 = new.slot => a.slot < new.slot
      BY <1>2, <1>3, <2>3
    <3>2. a.slot = new.slot => a.due = new.due
      BY <1>4, <2>3
    <3>3. a.slot < new.slot => /\ a.due < new.due
                               /\ a.slot + 1 = new.slot => new.due = NextDate(a.due, f)
      BY <1>5, <2>3
    <3> QED
      BY <2>3, <3>1, <3>2, <3>3
  <2>4. CASE a = new /\ b \in Points
    <3>1. new.slot + 1 = b.slot => new.slot < b.slot
      BY <1>2, <1>3, <2>4
    <3>2. new.slot = b.slot => new.due = b.due
      BY <1>4, <2>4
    <3>3. new.slot < b.slot => /\ new.due < b.due
                               /\ new.slot + 1 = b.slot => b.due = NextDate(new.due, f)
      BY <1>6, <2>4
    <3> QED
      BY <2>4, <3>1, <3>2, <3>3
  <2> QED
    BY <2>1, <2>2, <2>3, <2>4
<1> QED
  BY <1>8 DEF Chain

\* A part of a chain is one.
LEMMA ChainShrinks ==
    ASSUME NEW S, NEW T, NEW f, T \subseteq S, Chain(S, f)
    PROVE  Chain(T, f)
BY DEF Chain

LEMMA FrequencyStep ==
    ASSUME TypeOK, Unused, SameFrequency, [Next]_vars PROVE SameFrequency'
<1>1. CASE UNCHANGED vars
  BY <1>1 DEF vars, SameFrequency
<1>2. CASE CreateSchedule
  BY <1>2 DEF CreateSchedule, Unused, SameFrequency
<1>3. ASSUME NEW x \in Executor, Execute(x) PROVE SameFrequency'
  <2>1. CASE Finish(x)
    BY <2>1, FinishRow DEF SameFrequency
  <2>2. CASE Start(x) \/ Find(x) \/ Create(x) \/ GiveUp(x)
    BY <2>2, ExecuteRow DEF SameFrequency
  <2> QED
    BY <1>3, <2>1, <2>2 DEF Execute
<1>4. ASSUME NEW r \in Request, BeginEdit(r) PROVE SameFrequency'
  BY <1>4 DEF BeginEdit, SameFrequency
<1>5. ASSUME NEW r \in Request, CommitEdit(r) PROVE SameFrequency'
  <2>1. schedule.status # "none"
    BY <1>5 DEF CommitEdit, Unused
  <2> QED
    BY <1>5, <2>1, CommitEditRow DEF SameFrequency
<1>6. CASE Tick
  BY <1>6 DEF Tick, SameFrequency
<1>7. CASE Crash
  BY <1>7 DEF Crash, SameFrequency
<1> QED
  BY <1>1, <1>2, <1>3, <1>4, <1>5, <1>6, <1>7 DEF Next

LEMMA FinishChain ==
    ASSUME TypeOK, Backed, SameFrequency, InChain, ~moved, NEW x \in Executor, Finish(x)
    PROVE  Chain(Points, schedule.frequency)'
<1> DEFINE row == runs[x].row
<1> DEFINE new == [slot |-> row.count + 2, due |-> NextDue(row)]
<1>1. /\ runs[x] # Idle /\ row \in Row /\ row.frequency = schedule.frequency
      /\ row.count \in Nat /\ row.due \in Int
      /\ AlreadyPaid(row.count + 1)
  BY RunTypes DEF SameFrequency, Finish, Backed, Idle
<1>2. /\ schedule'.frequency = schedule.frequency
      /\ schedule'.count = row.count + 1
      /\ schedule'.status = "active" =>
            row.frequency # "once" /\ schedule'.due = NextDue(row)
      /\ payments' = payments
      /\ \A y \in Executor : runs'[y] # Idle => runs'[y] = runs[y]
  BY FinishRow
<1>3. Chain(Points, schedule.frequency)
  BY DEF InChain
<1>4. Paid' \subseteq Points /\ Tried' \subseteq Points
  BY <1>2 DEF Paid, Tried, Points
<1>5. CASE schedule'.status # "active"
  <2>1. Points' \subseteq Points
    BY <1>4, <1>5 DEF Points, Coming
  <2> QED
    BY <1>2, <1>3, <2>1, ChainShrinks
<1>6. CASE schedule'.status = "active"
  <2>1. PICK p \in payments : p.slot = row.count + 1
    BY <1>1 DEF AlreadyPaid
  <2>2. PICK c \in Paid : c.slot = row.count + 1
    <3>1. [slot |-> p.slot, due |-> p.due] \in Paid
      BY DEF Paid
    <3> QED
      BY <2>1, <3>1
  <2>3. [slot |-> row.count + 1, due |-> row.due] \in Points
    BY <1>1 DEF Tried, Points
  <2>4. c.due = row.due
    <3>1. \A a, b \in Points : a.slot = b.slot => a.due = b.due
      BY <1>3 DEF Chain
    <3>2. c \in Points
      BY <2>2 DEF Points
    <3> HIDE DEF row
    <3> QED
      BY <2>2, <2>3, <3>1, <3>2
  <2>5. /\ schedule.frequency \in Frequency /\ schedule.frequency # "once"
        /\ new.slot = c.slot + 1
        /\ new.due = NextDate(c.due, schedule.frequency)
    BY <1>1, <1>2, <1>6, <2>2, <2>4 DEF NextDue, Row
  <2>6. Chain(Points \cup {new}, schedule.frequency)
    <3> HIDE DEF new
    <3> QED
      BY <1>3, <2>2, <2>5, ChainGrows
  <2>7. schedule'.count + 1 = row.count + 2
    BY <1>1, <1>2
  <2>8. Coming' = {new}
    BY <1>2, <1>6, <2>7 DEF Coming
  <2>9. Points' \subseteq Points \cup {new}
    BY <1>4, <2>8 DEF Points
  <2> HIDE DEF new
  <2> QED
    BY <1>2, <2>6, <2>9, ChainShrinks
<1> QED
  BY <1>5, <1>6

LEMMA ChainStep ==
    ASSUME TypeOK, Unused, Backed, SameFrequency, InChain, [Next]_vars PROVE InChain'
<1> SUFFICES ASSUME ~moved' PROVE Chain(Points, schedule.frequency)'
  BY DEF InChain
<1>0. ~moved
  <2>1. moved' = moved \/ \E r \in Request : CommitEdit(r)
    BY DEF Next, vars, CreateSchedule, Execute, Start, Find, Create, GiveUp,
           Finish, BeginEdit, Tick, Crash
  <2> QED
    BY <2>1 DEF CommitEdit
<1>1. Chain(Points, schedule.frequency)
  BY <1>0 DEF InChain
<1>2. CASE UNCHANGED <<schedule, payments, runs>>
  <2>1. Points' = Points /\ schedule' = schedule
    BY <1>2 DEF Points, Paid, Tried, Coming
  <2>2. Points' \subseteq Points
    BY <2>1
  <2> QED
    BY <1>1, <2>1, <2>2, ChainShrinks
<1>3. CASE CreateSchedule
  <2>1. /\ payments' = {} /\ \A x \in Executor : runs'[x] = Idle
        /\ schedule'.count = 0
    BY <1>3 DEF CreateSchedule, Unused
  <2>2. Paid' = {} /\ Tried' = {}
    BY <2>1 DEF Paid, Tried
  <2>3. \A a, b \in Points' : a = b /\ a.slot = 1
    BY <2>1, <2>2 DEF Points, Coming
  <2> QED
    BY <2>3 DEF Chain
<1>4. ASSUME NEW x \in Executor, Execute(x)
      PROVE  Chain(Points, schedule.frequency)'
  <2>1. CASE Finish(x)
    BY <1>0, <2>1, FinishChain
  <2>2. CASE Start(x) \/ Find(x) \/ Create(x) \/ GiveUp(x)
    <3>1. schedule' = schedule
      BY <2>2, ExecuteRow
    <3>2. Tried' \subseteq Points
      <4> SUFFICES ASSUME NEW y \in Executor, runs'[y] # Idle
                   PROVE  [slot |-> runs'[y].row.count + 1, due |-> runs'[y].row.due]
                            \in Points
        BY DEF Tried
      <4>1. \/ runs[y] # Idle /\ runs'[y].row = runs[y].row
            \/ schedule.status = "active" /\ runs'[y].row = schedule
        BY <2>2, ExecuteRow
      <4>2. CASE runs[y] # Idle /\ runs'[y].row = runs[y].row
        BY <4>2 DEF Points, Tried
      <4>3. CASE schedule.status = "active" /\ runs'[y].row = schedule
        BY <4>3 DEF Points, Coming
      <4> QED
        BY <4>1, <4>2, <4>3
    <3>3. Paid' \subseteq Points
      <4>1. CASE payments' = payments
        BY <4>1 DEF Paid, Points
      <4>2. CASE payments' # payments
        <5>1. /\ runs[x] # Idle
              /\ payments' = payments \cup
                   {[slot |-> runs[x].row.count + 1,
                     due |-> runs[x].row.due, at |-> now]}
          BY <2>2, <4>2, ExecuteRow
        <5>2. [slot |-> runs[x].row.count + 1, due |-> runs[x].row.due] \in Tried
          BY <5>1 DEF Tried
        <5>3. \A q \in payments' :
                 \/ q \in payments
                 \/ q.slot = runs[x].row.count + 1 /\ q.due = runs[x].row.due
          BY <5>1
        <5> QED
          BY <5>2, <5>3 DEF Paid, Points
      <4> QED
        BY <4>1, <4>2
    <3>4. Coming' = Coming
      BY <3>1 DEF Coming
    <3>5. Points' \subseteq Points
      BY <3>2, <3>3, <3>4 DEF Points
    <3> QED
      BY <1>1, <3>1, <3>5, ChainShrinks
  <2> QED
    BY <1>4, <2>1, <2>2 DEF Execute
<1>5. ASSUME NEW r \in Request, CommitEdit(r)
      PROVE  Chain(Points, schedule.frequency)'
  <2>1. schedule.status # "none"
    BY <1>5 DEF CommitEdit, Unused
  <2>2. schedule' = Cancelled /\ payments' = payments /\ runs' = runs
        /\ schedule'.frequency = schedule.frequency
    BY <1>5, <2>1, CommitEditRow
  <2>3. schedule'.status # "active"
    BY <2>2 DEF Cancelled, TypeOK, Row
  <2>4. Points' \subseteq Points
    BY <2>2, <2>3 DEF Points, Paid, Tried, Coming
  <2> QED
    BY <1>1, <2>2, <2>4, ChainShrinks
<1>6. CASE Crash
  <2>1. /\ schedule' = schedule /\ payments' = payments
        /\ \A x \in Executor : runs'[x] = Idle
    BY <1>6 DEF Crash
  <2>2. Points' \subseteq Points
    BY <2>1 DEF Points, Paid, Tried, Coming
  <2> QED
    BY <1>1, <2>1, <2>2, ChainShrinks
<1> QED
  BY <1>2, <1>3, <1>4, <1>5, <1>6 DEF Next, vars, BeginEdit, Tick

LEMMA ChainInvariant == Spec => [](SameFrequency /\ InChain)
<1>1. Init => SameFrequency /\ InChain
  <2>1. Init => Points = {}
    BY DEF Init, Points, Paid, Tried, Coming
  <2> QED
    BY <2>1 DEF Init, SameFrequency, InChain, Chain
<1> QED
  BY <1>1, FrequencyStep, ChainStep, OnceInvariant, BackedInvariant, TypeCorrect,
     PTL DEF Spec

\* No idempotency key is ever used for two payments, and, as long as no update
\* or skip has moved the date, no occurrence is paid twice, whatever
\* executions, cancellations and restarts overlap.
THEOREM NoOccurrenceTwice == Spec => []OncePerOccurrence
<1>1. TypeOK /\ Backed /\ InChain => OncePerOccurrence
  <2> SUFFICES ASSUME TypeOK, Backed, InChain, NEW p \in payments,
                      NEW q \in payments, ~moved, p.due = q.due
               PROVE  p.slot = q.slot
    BY DEF OncePerOccurrence, Backed
  <2>1. /\ [slot |-> p.slot, due |-> p.due] \in Points
        /\ [slot |-> q.slot, due |-> q.due] \in Points
    BY DEF Points, Paid
  <2>2. p.slot \in Nat /\ q.slot \in Nat /\ p.due \in Int /\ q.due \in Int
    BY DEF TypeOK, Payment
  <2>3. /\ p.slot < q.slot => p.due < q.due
        /\ q.slot < p.slot => q.due < p.due
    BY <2>1 DEF InChain, Chain
  <2> QED
    BY <2>2, <2>3
<1> QED
  BY <1>1, ChainInvariant, BackedInvariant, TypeCorrect, PTL

\* As long as no update or skip has moved the date, no date that
\* nextExecutionDate gives is left out: each payment is for the date after the
\* payment before it, and so is the date an active schedule waits for.
THEOREM DatesFollowOn == Spec => []OccurrencesInOrder
<1>1. TypeOK /\ InChain => OccurrencesInOrder
  <2> SUFFICES ASSUME TypeOK, InChain, ~moved PROVE OccurrencesInOrder
    BY DEF OccurrencesInOrder
  <2>1. Chain(Points, schedule.frequency)
    BY DEF InChain
  <2>2. \A p \in payments : [slot |-> p.slot, due |-> p.due] \in Points
    BY DEF Points, Paid
  <2>3. ASSUME NEW p \in payments, NEW q \in payments, q.slot = p.slot + 1
        PROVE  q.due = NextDate(p.due, schedule.frequency)
    BY <2>1, <2>2, <2>3 DEF Chain
  <2>4. ASSUME schedule.status = "active", NEW p \in payments
        PROVE  /\ p.slot = schedule.count =>
                    schedule.due = NextDate(p.due, schedule.frequency)
               /\ p.slot = schedule.count + 1 => schedule.due = p.due
    <3>1. [slot |-> schedule.count + 1, due |-> schedule.due] \in Points
      BY <2>4 DEF Points, Coming
    <3> QED
      BY <2>1, <2>2, <3>1 DEF Chain
  <2> QED
    BY <2>3, <2>4 DEF OccurrencesInOrder
<1> QED
  BY <1>1, ChainInvariant, TypeCorrect, PTL

----------------------------------------------------------------------------
(* Stopped schedules.                                                      *)

\* Once a schedule is cancelled or completed and no call that read it before is
\* left, nothing writes to it again and nothing more is paid.
THEOREM StoppedForGood == Spec => StoppedStaysStopped
<1>1. ASSUME TypeOK, [Next]_vars,
             schedule.status \in {"cancelled", "completed"}, Quiet
      PROVE  Quiet' /\ UNCHANGED <<schedule, payments>>
  <2>1. CASE UNCHANGED vars
    BY <1>1, <2>1 DEF vars, Quiet
  <2>2. ~CreateSchedule
    BY <1>1 DEF CreateSchedule
  <2>3. ASSUME NEW x \in Executor PROVE ~Execute(x)
    <3>1. runs[x] = Idle /\ runs[x].pc = "idle"
      BY <1>1 DEF Quiet, Idle
    <3> QED
      BY <1>1, <3>1 DEF Execute, Start, Find, Create, GiveUp, Finish
  <2>4. ASSUME NEW r \in Request PROVE ~BeginEdit(r) /\ ~CommitEdit(r)
    BY <1>1 DEF Quiet, BeginEdit, MayEdit, CommitEdit
  <2>5. CASE Tick
    BY <1>1, <2>5 DEF Tick, Quiet
  <2>6. CASE Crash
    BY <1>1, <2>6 DEF Crash, Quiet
  <2> QED
    BY <1>1, <2>1, <2>2, <2>3, <2>4, <2>5, <2>6 DEF Next
<1> QED
  BY <1>1, TypeCorrect, PTL DEF Spec, StoppedStaysStopped
=============================================================================
