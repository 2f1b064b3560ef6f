---------------------------- MODULE AlertsProofs ----------------------------
(***************************************************************************)
(* Theorems about Alerts and Notices for any users, dates and bounds.      *)
(*                                                                         *)
(* The argument.  The queue: nobody is told of a job that was not taken,   *)
(* and the run under way has told its targets but those left (JobInv).     *)
(* The sweep: only one is under way (OneSweep).  A last_day that nothing   *)
(* has moved names a countdown whose alert is queued, lost, or about to be *)
(* queued (NotesHold).  Days left only shrink (Shrinking), so the row, or  *)
(* a sweep that read it, holds the last alert's countdown, or that         *)
(* countdown is over (Latest), unless others wrote the row since.          *)
(***************************************************************************)
EXTENDS Alerts, TLAPS

USE NoticesAssumption DEF NoticesAssumption

(***************************************************************************)
(* The queue.                                                              *)
(***************************************************************************)
Untold(r) == \A u \in User : notices[r][u] = 0
Held(r) == worker # None /\ worker.job = r

JobInv(r) ==
    /\ jobs[r] = None => ~Held(r) /\ Untold(r)
    /\ jobs[r] # None /\ jobs[r].status = "waiting" =>
         /\ jobs[r].tries < Attempts
         /\ ~jobs[r].cut /\ ~Held(r) => Untold(r)
    /\ Held(r) =>
         /\ jobs[r].status = "waiting"
         /\ worker.left \subseteq jobs[r].targets
         /\ \A u \in jobs[r].targets \ worker.left : notices[r][u] > 0
         /\ ~jobs[r].cut => /\ \A u \in worker.left : notices[r][u] = 0
                            /\ \A u \in User : notices[r][u] < 2
         /\ jobs[r].to = "self" => jobs[r].targets \subseteq {Owner}
    /\ jobs[r] # None =>
         /\ jobs[r].status = "completed" => \A u \in jobs[r].targets : notices[r][u] > 0
         /\ \A u \in User : notices[r][u] > 1 => jobs[r].cut
         /\ jobs[r].to = "self" => \A u \in User \ {Owner} : notices[r][u] = 0

\* The invariant of the queue.
QueueInv == NoticesTypeOK /\ \A r \in Request : JobInv(r)

\* What the worker does not touch keeps its invariant.
LEMMA JobFrame ==
    ASSUME NEW r \in Request, JobInv(r),
           jobs'[r] = jobs[r], notices'[r] = notices[r],
           \/ worker' = worker
           \/ ~Held(r) /\ ~Held(r)'
    PROVE  JobInv(r)'
<1>1. CASE worker' = worker
  BY <1>1 DEF JobInv, Held, Untold
<1>2. CASE ~Held(r) /\ ~Held(r)'
  BY <1>2 DEF JobInv, Untold
<1> QED
  BY <1>1, <1>2

LEMMA QueueTypes ==
    ASSUME QueueInv
    PROVE  /\ jobs \in [Request -> Job \cup {None}]
           /\ notices \in [Request -> [User -> 0..2]]
           /\ worker # None => /\ worker \in Work /\ worker.job \in Request
                               /\ worker.left \subseteq User
                               /\ jobs[worker.job] \in Job /\ jobs[worker.job] # None
                               /\ jobs[worker.job].targets \subseteq User
<1>1. ASSUME worker # None
      PROVE  /\ worker \in Work /\ worker.job \in Request /\ worker.left \subseteq User
  BY <1>1 DEF QueueInv, NoticesTypeOK, Work
<1>2. ASSUME worker # None
      PROVE  /\ jobs[worker.job] \in Job /\ jobs[worker.job] # None
             /\ jobs[worker.job].targets \subseteq User
  <2>1. jobs[worker.job] # None
    BY <1>1, <1>2 DEF QueueInv, JobInv, Held
  <2>2. jobs[worker.job] \in Job
    BY <1>1, <1>2, <2>1 DEF QueueInv, NoticesTypeOK
  <2> QED
    BY <2>1, <2>2 DEF Job
<1> QED
  BY <1>1, <1>2 DEF QueueInv, NoticesTypeOK

LEMMA PostTells ==
    ASSUME QueueInv, NEW r \in Request, NEW to \in {"self", "role"}, jobs[r] = None, Post(r, to)
    PROVE  QueueInv'
<1> DEFINE j == [to |-> to, status |-> "waiting", tries |-> 0, targets |-> {}, cut |-> FALSE]
<1>1. j \in Job /\ j # None
  <2>1. 0 \in 0..Attempts /\ {} \in SUBSET User
    OBVIOUS
  <2>2. j \in Job
    BY <2>1 DEF Job
  <2> QED
    BY <2>2
<1>2. /\ jobs' = [jobs EXCEPT ![r] = j]
      /\ UNCHANGED <<active, worker, notices>>
  BY DEF Post
<1>3. NoticesTypeOK'
  BY <1>1, <1>2 DEF QueueInv, NoticesTypeOK
<1>4. ~Held(r) /\ Untold(r)
  BY DEF QueueInv, JobInv
<1>5. jobs'[r] = j
  BY <1>2, QueueTypes
<1>6. JobInv(r)'
  <2>1. ~Held(r)' /\ Untold(r)'
    BY <1>2, <1>4 DEF Held, Untold
  <2>2. jobs'[r].status = "waiting" /\ jobs'[r].tries = 0
    BY <1>5
  <2> QED
    BY <1>1, <1>5, <2>1, <2>2 DEF JobInv, Untold
<1>7. ASSUME NEW q \in Request, q # r
      PROVE  JobInv(q)'
  BY <1>2, <1>7, QueueTypes, JobFrame DEF QueueInv
<1> QED
  BY <1>3, <1>6, <1>7 DEF QueueInv

LEMMA TakeTells ==
    ASSUME QueueInv, NEW r \in Request, Take(r)
    PROVE  QueueInv'
<1> DEFINE S == TargetUsers(jobs[r].to)
<1> DEFINE k == [job |-> r, left |-> S]
<1>1. jobs[r] \in Job /\ jobs[r] # None /\ jobs[r].status = "waiting" /\ worker = None
  BY QueueTypes DEF Take
<1>2. S \in SUBSET User /\ (jobs[r].to = "self" => S \subseteq {Owner})
  BY DEF TargetUsers, QueueInv, NoticesTypeOK
<1>3. k \in Work /\ k # None
  BY <1>2 DEF Work
<1>4. [jobs[r] EXCEPT !.targets = S] \in Job
  BY <1>1, <1>2 DEF Job
<1>5. /\ worker' = k
      /\ jobs' = [jobs EXCEPT ![r].targets = S]
      /\ UNCHANGED <<active, notices>>
  BY DEF Take
<1>6. jobs'[r] = [jobs[r] EXCEPT !.targets = S]
  BY <1>5, QueueTypes
<1>7. NoticesTypeOK'
  <2>1. jobs' \in [Request -> Job \cup {None}]
    BY <1>4, <1>5, QueueTypes
  <2> QED
    BY <1>3, <1>5, <2>1 DEF QueueInv, NoticesTypeOK
<1>8. JobInv(r)'
  <2>1. /\ jobs'[r].status = "waiting" /\ jobs'[r].tries = jobs[r].tries
        /\ jobs'[r].cut = jobs[r].cut /\ jobs'[r].to = jobs[r].to /\ jobs'[r].targets = S
    BY <1>1, <1>6 DEF Job
  <2>2. jobs'[r] # None
    BY <1>4, <1>6
  <2>3. worker'.left = S /\ notices' = notices
    BY <1>5
  <2>4. ~jobs[r].cut => Untold(r)
    BY <1>1 DEF QueueInv, JobInv, Held
  <2>5. /\ jobs[r].tries < Attempts
        /\ \A u \in User : notices[r][u] > 1 => jobs[r].cut
        /\ jobs[r].to = "self" => \A u \in User \ {Owner} : notices[r][u] = 0
    BY <1>1 DEF QueueInv, JobInv
  <2>6. Held(r)'
    BY <1>3, <1>5 DEF Held
  <2>7. ~jobs[r].cut => \A u \in User : notices[r][u] < 2
    BY <2>4 DEF Untold
  <2> QED
    BY <1>2, <2>1, <2>2, <2>3, <2>4, <2>5, <2>6, <2>7 DEF JobInv, Untold
<1>9. ASSUME NEW q \in Request, q # r
      PROVE  JobInv(q)'
  <2>1. ~Held(q) /\ ~Held(q)'
    BY <1>1, <1>5, <1>9 DEF Held
  <2> QED
    BY <1>5, <1>9, <2>1, QueueTypes, JobFrame DEF QueueInv
<1> QED
  BY <1>7, <1>8, <1>9 DEF QueueInv

LEMMA NotifyTells ==
    ASSUME QueueInv, NEW u \in User, Notify(u)
    PROVE  QueueInv'
<1>0. worker # None
  BY DEF Notify
<1> PICK j \in Request : j = worker.job
  BY <1>0, QueueTypes
<1>1. /\ worker # None /\ worker \in Work /\ j \in Request /\ worker.left \subseteq User
      /\ jobs[j] \in Job /\ jobs[j] # None /\ jobs[j].targets \subseteq User /\ u \in worker.left
  BY QueueTypes DEF Notify
<1>2. /\ worker' = [worker EXCEPT !.left = @ \ {u}]
      /\ notices' = [notices EXCEPT ![j][u] = IF @ = 0 THEN 1 ELSE 2]
      /\ UNCHANGED <<active, jobs>>
  BY DEF Notify
<1>3. worker' \in Work /\ worker' # None /\ worker'.job = j /\ worker'.left = worker.left \ {u}
  BY <1>1, <1>2 DEF Work
<1>4. notices' \in [Request -> [User -> 0..2]]
  BY <1>1, <1>2, QueueTypes
<1>5. /\ notices'[j][u] = IF notices[j][u] = 0 THEN 1 ELSE 2
      /\ \A v \in User \ {u} : notices'[j][v] = notices[j][v]
      /\ \A q \in Request \ {j} : notices'[q] = notices[q]
  BY <1>1, <1>2, QueueTypes
<1>6. NoticesTypeOK'
  BY <1>2, <1>3, <1>4 DEF QueueInv, NoticesTypeOK
<1>7. JobInv(j)'
  <2>1. Held(j)
    BY <1>1 DEF Held
  <2>2. /\ jobs[j].status = "waiting" /\ jobs[j].tries < Attempts
        /\ worker.left \subseteq jobs[j].targets
        /\ \A v \in jobs[j].targets \ worker.left : notices[j][v] > 0
        /\ ~jobs[j].cut => /\ \A v \in worker.left : notices[j][v] = 0
                           /\ \A v \in User : notices[j][v] < 2
        /\ jobs[j].to = "self" => jobs[j].targets \subseteq {Owner}
        /\ \A v \in User : notices[j][v] > 1 => jobs[j].cut
        /\ jobs[j].to = "self" => \A v \in User \ {Owner} : notices[j][v] = 0
    BY <1>1, <2>1 DEF QueueInv, JobInv
  <2>3. ~jobs[j].cut => notices'[j][u] = 1
    BY <1>1, <1>5, <2>2
  <2>4. notices'[j][u] > 0
    BY <1>5
  <2>5. \A v \in jobs[j].targets \ worker'.left : notices'[j][v] > 0
    BY <1>1, <1>3, <1>5, <2>2, <2>4
  <2>6. ~jobs[j].cut => /\ \A v \in worker'.left : notices'[j][v] = 0
                        /\ \A v \in User : notices'[j][v] < 2
    BY <1>1, <1>3, <1>5, <2>2, <2>3
  <2>7. \A v \in User : notices'[j][v] > 1 => jobs[j].cut
    BY <1>5, <2>2, <2>3
  <2>8. jobs[j].to = "self" => \A v \in User \ {Owner} : notices'[j][v] = 0
    BY <1>1, <1>5, <2>2
  <2>9. jobs' = jobs /\ Held(j)'
    BY <1>2, <1>3 DEF Held
  <2> QED
    BY <1>1, <1>3, <2>2, <2>5, <2>6, <2>7, <2>8, <2>9 DEF JobInv
<1>8. ASSUME NEW q \in Request, q # j
      PROVE  JobInv(q)'
  <2>1. ~Held(q) /\ ~Held(q)'
    BY <1>3, <1>8 DEF Held
  <2> QED
    BY <1>2, <1>5, <1>8, <2>1, JobFrame DEF QueueInv
<1> QED
  BY <1>6, <1>7, <1>8 DEF QueueInv

\* A run ends: the job it held is completed, thrown or handed out again.
LEMMA RunEndTells ==
    ASSUME QueueInv, worker # None, NEW new \in Job, LET j == worker.job IN
           /\ jobs' = [jobs EXCEPT ![j] = new]
           /\ new.to = jobs[j].to /\ new.targets = jobs[j].targets
           /\ new.status = "waiting" => new.tries < Attempts
           /\ new.status = "completed" => worker.left = {}
           /\ new.cut \/ (new.status # "waiting" /\ new.cut = jobs[j].cut),
           worker' = None, UNCHANGED <<active, notices>>
    PROVE  QueueInv'
<1> PICK j \in Request : j = worker.job
  BY QueueTypes
<1>1. j \in Request /\ jobs[j] # None /\ jobs'[j] = new /\ new # None
  BY QueueTypes
<1>2. jobs' \in [Request -> Job \cup {None}]
  BY <1>1, QueueTypes
<1>3. NoticesTypeOK'
  BY <1>2 DEF QueueInv, NoticesTypeOK
<1>4. /\ worker.left \subseteq jobs[j].targets
      /\ \A u \in jobs[j].targets \ worker.left : notices[j][u] > 0
      /\ \A u \in User : notices[j][u] > 1 => jobs[j].cut
      /\ jobs[j].to = "self" => \A u \in User \ {Owner} : notices[j][u] = 0
  BY <1>1 DEF QueueInv, JobInv, Held
<1>5. JobInv(j)'
  <2>1. ~Held(j)'
    BY DEF Held
  <2>2. new.status = "completed" => \A u \in new.targets : notices'[j][u] > 0
    BY <1>4
  <2>3. \A u \in User : notices'[j][u] > 1 => new.cut
    BY <1>4
  <2>4. new.to = "self" => \A u \in User \ {Owner} : notices'[j][u] = 0
    BY <1>4
  <2> QED
    BY <1>1, <2>1, <2>2, <2>3, <2>4 DEF JobInv
<1>6. ASSUME NEW q \in Request, q # j
      PROVE  JobInv(q)'
  <2>1. ~Held(q) /\ ~Held(q)'
    BY <1>6 DEF Held
  <2> QED
    BY <1>6, <2>1, QueueTypes, JobFrame DEF QueueInv
<1> QED
  BY <1>3, <1>5, <1>6 DEF QueueInv

LEMMA CompleteTells ==
    ASSUME QueueInv, Complete
    PROVE  QueueInv'
<1> DEFINE j == worker.job
<1> DEFINE new == [jobs[j] EXCEPT !.status = "completed"]
<1>1. worker # None /\ jobs[j] \in Job
  BY QueueTypes DEF Complete
<1>2. /\ new \in Job /\ new.to = jobs[j].to /\ new.targets = jobs[j].targets
      /\ new.status = "completed" /\ new.cut = jobs[j].cut
  BY <1>1 DEF Job
<1>3. /\ jobs' = [jobs EXCEPT ![j] = new] /\ worker.left = {} /\ worker' = None
      /\ UNCHANGED <<active, notices>>
  BY DEF Complete
<1> HIDE DEF new
<1> QED
  BY <1>1, <1>2, <1>3, RunEndTells

LEMMA ThrowTells ==
    ASSUME QueueInv, Throw
    PROVE  QueueInv'
<1> DEFINE j == worker.job
<1> DEFINE new == [jobs[j] EXCEPT !.tries = @ + 1, !.cut = TRUE,
                     !.status = IF jobs[j].tries + 1 < Attempts THEN "waiting" ELSE "failed"]
<1>1. worker # None /\ jobs[j] \in Job /\ jobs[j].status = "waiting" /\ jobs[j].tries < Attempts
  <2>1. worker # None /\ j \in Request /\ jobs[j] \in Job /\ jobs[j] # None
    BY QueueTypes DEF Throw
  <2> QED
    BY <2>1 DEF QueueInv, JobInv, Held
<1>2. jobs[j].tries + 1 \in 0..Attempts
  BY <1>1 DEF Job
<1>3. /\ new \in Job /\ new.to = jobs[j].to /\ new.targets = jobs[j].targets
      /\ new.status # "completed" /\ new.cut /\ new.tries = jobs[j].tries + 1
      /\ new.status = "waiting" => jobs[j].tries + 1 < Attempts
  BY <1>1, <1>2 DEF Job
<1>4. /\ jobs' = [jobs EXCEPT ![j] = new] /\ worker' = None
      /\ UNCHANGED <<active, notices>>
  BY DEF Throw
<1> HIDE DEF new
<1> QED
  BY <1>1, <1>3, <1>4, RunEndTells

LEMMA StallTells ==
    ASSUME QueueInv, Stall
    PROVE  QueueInv'
<1>1. CASE worker = None
  <2>1. UNCHANGED noticeVars
    BY <1>1 DEF Stall, noticeVars
  <2> QED
    BY <2>1 DEF noticeVars, QueueInv, NoticesTypeOK, JobInv, Held, Untold
<1>2. CASE worker # None
  <2> DEFINE j == worker.job
  <2> DEFINE new == [jobs[j] EXCEPT !.cut = TRUE]
  <2>1. jobs[j] \in Job /\ jobs[j].status = "waiting" /\ jobs[j].tries < Attempts
    <3>1. j \in Request /\ jobs[j] \in Job /\ jobs[j] # None
      BY <1>2, QueueTypes
    <3> QED
      BY <1>2, <3>1 DEF QueueInv, JobInv, Held
  <2>2. /\ new \in Job /\ new.to = jobs[j].to /\ new.targets = jobs[j].targets
        /\ new.status = "waiting" /\ new.cut /\ new.tries = jobs[j].tries
    BY <2>1 DEF Job
  <2>3. /\ jobs' = [jobs EXCEPT ![j] = new] /\ worker' = None
        /\ UNCHANGED <<active, notices>>
    BY <1>2 DEF Stall
  <2> HIDE DEF new
  <2> QED
    BY <1>2, <2>1, <2>2, <2>3, RunEndTells
<1> QED
  BY <1>1, <1>2

LEMMA StatusTells ==
    ASSUME QueueInv, NEW u \in User, UpdateUserStatus(u)
    PROVE  QueueInv'
<1>1. active' \subseteq User /\ UNCHANGED <<jobs, worker, notices>>
  BY DEF UpdateUserStatus, QueueInv, NoticesTypeOK
<1> QED
  BY <1>1 DEF QueueInv, NoticesTypeOK, JobInv, Held, Untold

LEMMA QueueStepTells ==
    ASSUME QueueInv, NoticesNext \/ UNCHANGED noticeVars
    PROVE  QueueInv'
<1>1. CASE UNCHANGED noticeVars
  BY <1>1 DEF noticeVars, QueueInv, NoticesTypeOK, JobInv, Held, Untold
<1> QED
  BY <1>1, TakeTells, NotifyTells, CompleteTells, ThrowTells DEF NoticesNext

(***************************************************************************)
(* Steps of the runs.                                                      *)
(***************************************************************************)
Sweep == {"check", "mark", "queue", "clear", "rest"}
Outside == {"balance", "pay", "skip", "update", "cancel"}
Sweeping(r) == reqs[r] \notin {None, Over} /\ reqs[r].pc \in Sweep

LEMMA Constants ==
    /\ MaxTime \in Nat \ {0} /\ MaxTime < MaxDate /\ MaxDate \in Nat /\ MaxCrashes \in Nat /\ MaxEvents \in Nat
    /\ Window \in Nat \ {0} /\ Day \in Nat \ {0}
    /\ None \notin Days /\ None \notin Run /\ Over \notin Run /\ None # Over
BY AlertsAssumption DEF AlertsAssumption

LEMMA Types ==
    ASSUME TypeOK
    PROVE  /\ reqs \in [Request -> Run \cup {None, Over}]
           /\ row \in Row /\ row.due \in Nat /\ row.due \in Date /\ row.last_day \in Days \cup {None}
           /\ now \in Nat /\ now \in 1..MaxTime /\ moved \in BOOLEAN
BY Constants DEF TypeOK, Row, Date

LEMMA RunOf ==
    ASSUME TypeOK, NEW r \in Request, reqs[r] \notin {None, Over}
    PROVE  /\ reqs[r] \in Run /\ reqs[r].row \in Row /\ reqs[r].pc \in Pc /\ reqs[r].moved \in BOOLEAN
           /\ reqs[r].row.due \in Nat /\ reqs[r].row.due \in Date
           /\ reqs[r].row.last_day \in Days \cup {None} /\ reqs[r].days \in Days \cup {None}
BY Types DEF Run, Row, Date

\* A run goes to another place.
Moves(r, pc) ==
    /\ reqs' \in [Request -> Run \cup {None, Over}]
    /\ reqs'[r] \in Run /\ reqs'[r] \notin {None, Over}
    /\ reqs'[r].pc = pc /\ reqs'[r].row = reqs[r].row /\ reqs'[r].moved = reqs[r].moved
    /\ \A q \in Request \ {r} : reqs'[q] = reqs[q]

LEMMA Goes ==
    ASSUME TypeOK, NEW r \in Request, reqs[r] \notin {None, Over}, NEW pc \in Pc, GoTo(r, pc)
    PROVE  Moves(r, pc) /\ reqs'[r].days = reqs[r].days
<1>1. reqs[r] \in Run
  BY RunOf
<1>2. [reqs[r] EXCEPT !.pc = pc] \in Run
  BY <1>1 DEF Run
<1> QED
  BY <1>1, <1>2, Types, Constants DEF GoTo, Run, Moves

\* A check settles what the sweep does next and, if anything, the days it counts.
LEMMA Checks ==
    ASSUME TypeOK, NEW r \in Request, Check(r)
    PROVE  \E pc \in {"rest", "mark", "clear"} :
             /\ Moves(r, pc)
             /\ pc # "rest" => /\ reqs'[r].days \in Days
                               /\ reqs'[r].days = DaysUntil(reqs[r].row.due)
                               /\ reqs'[r].days # reqs[r].row.last_day
<1> DEFINE days == DaysUntil(reqs[r].row.due)
<1> HIDE DEF days
<1>1. reqs[r] \in Run /\ reqs[r] \notin {None, Over} /\ "rest" \in Pc
  BY RunOf DEF Check, At, Pc
<1>2. CASE GoTo(r, "rest")
  BY <1>1, <1>2, Goes
<1>3. CASE days \in Days /\ reqs[r].row.last_day # days
           /\ \E pc \in {"mark", IF reqs[r].row.insufficient THEN "clear" ELSE "rest"} :
                reqs' = [reqs EXCEPT ![r].pc = pc, ![r].days = days]
  <2>1. PICK pc \in {"rest", "mark", "clear"} : reqs' = [reqs EXCEPT ![r].pc = pc, ![r].days = days]
    BY <1>3
  <2>2. pc \in Pc
    BY DEF Pc
  <2>3. [reqs[r] EXCEPT !.pc = pc, !.days = days] \in Run
    BY <1>1, <1>3, <2>2 DEF Run
  <2>4. /\ reqs'[r] = [reqs[r] EXCEPT !.pc = pc, !.days = days]
        /\ \A q \in Request \ {r} : reqs'[q] = reqs[q]
        /\ reqs' \in [Request -> Run \cup {None, Over}]
    BY <2>1, <2>3, Types
  <2>5. Moves(r, pc) /\ reqs'[r].days = days
    BY <1>1, <2>3, <2>4, Constants DEF Moves, Run
  <2> QED
    BY <1>3, <2>5 DEF days
<1> QED
  BY <1>2, <1>3 DEF Check, days

LEMMA Ends ==
    ASSUME TypeOK, NEW r \in Request, End(r)
    PROVE  /\ reqs' \in [Request -> Run \cup {None, Over}]
           /\ reqs'[r] = Over
           /\ \A q \in Request \ {r} : reqs'[q] = reqs[q]
BY Types DEF End

LEMMA Begins ==
    ASSUME TypeOK, NEW r \in Request, NEW pc \in Pc, Begin(r, pc)
    PROVE  /\ reqs[r] = None /\ row.active
           /\ reqs' \in [Request -> Run \cup {None, Over}]
           /\ reqs'[r] \in Run /\ reqs'[r] \notin {None, Over}
           /\ reqs'[r].pc = pc /\ reqs'[r].row = row /\ reqs'[r].moved = moved
           /\ \A q \in Request \ {r} : reqs'[q] = reqs[q]
           /\ UNCHANGED <<noticeVars, now, crashes, row, alerts, lost, noted, moved, silent>>
<1>1. [pc |-> pc, row |-> row, days |-> None, moved |-> moved] \in Run
  BY Types DEF Run
<1> QED
  BY <1>1, Types, Constants DEF Begin, Fresh

\* What a step of any run but the sweep's does to the schedule.
OtherStep(r) ==
    /\ ~Sweeping(r) /\ reqs[r] # Over
    /\ reqs' \in [Request -> Run \cup {None, Over}]
    /\ reqs'[r] = Over \/ (reqs'[r] \in Run /\ reqs'[r].pc \in Outside)
    /\ \A q \in Request \ {r} : reqs'[q] = reqs[q]
    /\ row' \in Row /\ moved' \in BOOLEAN
    /\ UNCHANGED <<now, crashes, alerts, lost, silent>>
    /\ \/ UNCHANGED <<row, noted, moved>>
       \/ noted' = {}
    /\ ~moved' /\ row'.last_day # None =>
         ~moved /\ row'.due = row.due /\ row'.last_day = row.last_day

LEMMA ExecuteIsOther ==
    ASSUME TypeOK, NEW r \in Request, Execute(r)
    PROVE  OtherStep(r) /\ UNCHANGED noticeVars
<1>1. reqs[r] \notin {None, Over} /\ reqs[r].pc = "balance" /\ ~Sweeping(r)
  BY DEF Execute, At, Sweeping, Sweep
<1>2. CASE End(r) /\ Touch([row EXCEPT !.insufficient = TRUE]) /\ UNCHANGED moved
  BY <1>1, <1>2, Ends, Types DEF Touch, OtherStep, Row
<1>3. CASE /\ GoTo(r, "pay")
           /\ Touch([row EXCEPT !.insufficient = FALSE, !.last_day = None]) /\ moved' = FALSE
  BY <1>1, <1>3, Goes, Types DEF Touch, OtherStep, Row, Outside, Pc, Moves
<1>4. CASE /\ GoTo(r, "pay")
           /\ UNCHANGED <<noticeVars, now, crashes, row, alerts, lost, noted, moved, silent>>
  BY <1>1, <1>4, Goes, Types DEF OtherStep, Outside, Pc, Moves
<1> QED
  BY <1>2, <1>3, <1>4 DEF Execute

LEMMA PaidIsOther ==
    ASSUME TypeOK, NEW r \in Request, Paid(r)
    PROVE  OtherStep(r) /\ UNCHANGED noticeVars
<1>1. reqs[r] \notin {None, Over} /\ reqs[r].pc = "pay" /\ ~Sweeping(r) /\ End(r) /\ moved' = FALSE
  BY DEF Paid, At, Sweeping, Sweep
<1>2. PICK due \in Date : Touch([row EXCEPT !.due = due, !.active = (due # reqs[r].row.due),
                                            !.insufficient = FALSE, !.last_day = None])
  BY DEF Paid
<1>3. row' \in Row /\ row'.last_day = None
  BY <1>2, Types DEF Touch, Row
<1> QED
  BY <1>1, <1>2, <1>3, Ends DEF Touch, OtherStep

LEMMA SkipIsOther ==
    ASSUME TypeOK, NEW r \in Request, Skip(r)
    PROVE  OtherStep(r) /\ UNCHANGED noticeVars
<1>1. reqs[r] \notin {None, Over} /\ reqs[r].pc = "skip" /\ ~Sweeping(r) /\ End(r) /\ moved' = FALSE
  BY DEF Skip, At, Sweeping, Sweep
<1>2. PICK due \in Date, ended \in BOOLEAN :
        Touch([row EXCEPT !.due = due, !.active = ~ended,
                          !.insufficient = FALSE, !.last_day = None])
  BY DEF Skip
<1>3. row' \in Row /\ row'.last_day = None
  BY <1>2, Types DEF Touch, Row
<1> QED
  BY <1>1, <1>2, <1>3, Ends DEF Touch, OtherStep

LEMMA UpdateIsOther ==
    ASSUME TypeOK, NEW r \in Request, Update(r)
    PROVE  OtherStep(r) /\ UNCHANGED noticeVars
<1>1. reqs[r] \notin {None, Over} /\ reqs[r].pc = "update" /\ ~Sweeping(r) /\ End(r)
  BY DEF Update, At, Sweeping, Sweep
<1>2. PICK d \in Date : /\ Touch([row EXCEPT !.due = d])
                        /\ moved' = (moved \/ (row.last_day # None /\ d # row.due))
  BY DEF Update
<1>3. row' \in Row /\ row'.due = d /\ row'.last_day = row.last_day /\ moved' \in BOOLEAN
  BY <1>2, Types DEF Touch, Row
<1> QED
  BY <1>1, <1>2, <1>3, Ends DEF Touch, OtherStep

LEMMA CancelIsOther ==
    ASSUME TypeOK, NEW r \in Request, Cancel(r) \/ PaymentFails(r)
    PROVE  OtherStep(r) /\ UNCHANGED noticeVars
<1>1. CASE Cancel(r)
  <2>1. ~Sweeping(r) /\ reqs[r] # Over
    BY <1>1 DEF Cancel, At, Sweeping, Sweep
  <2> QED
    BY <1>1, <2>1, Ends, Types DEF Cancel, Touch, OtherStep, Row
<1>2. CASE PaymentFails(r)
  <2>1. ~Sweeping(r) /\ reqs[r] # Over
    BY <1>2 DEF PaymentFails, At, Sweeping, Sweep
  <2> QED
    BY <1>2, <2>1, Ends, Types DEF PaymentFails, OtherStep
<1> QED
  BY <1>1, <1>2

LEMMA BeginIsOther ==
    ASSUME TypeOK, NEW r \in Request, BeginExecute(r) \/ BeginEdit(r)
    PROVE  OtherStep(r) /\ UNCHANGED noticeVars
<1>1. PICK pc \in Outside : Begin(r, pc)
  BY DEF BeginExecute, BeginEdit, Outside
<1>2. pc \in Pc
  BY DEF Outside, Pc
<1> QED
  BY <1>1, <1>2, Begins, Types, Constants DEF OtherStep, Sweeping

LEMMA EventIsOther ==
    ASSUME TypeOK, NEW r \in Request, OtherEvent(r) \/ ChangeUserStatus(r)
    PROVE  OtherStep(r) /\ reqs[r] = None
<1>1. /\ reqs[r] = None /\ End(r)
      /\ UNCHANGED <<now, crashes, row, alerts, lost, noted, moved, silent>>
  BY DEF OtherEvent, ChangeUserStatus, Fresh
<1> QED
  BY <1>1, Ends, Types, Constants DEF OtherStep, Sweeping

\* The steps of Next as the invariants tell them apart.
LEMMA StepCases ==
    ASSUME TypeOK, [Next]_vars
    PROVE  \/ \E r \in Request : \/ BeginSweep(r) \/ Check(r) \/ GiveUp(r) \/ Mark(r) \/ Queue(r)
                                 \/ Clear(r) \/ EndSweep(r) \/ OtherStep(r)
           \/ Tick \/ Crash \/ UNCHANGED alertVars
<1>1. ASSUME NEW r \in Request,
             \/ BeginExecute(r) \/ Execute(r) \/ PaymentFails(r) \/ Paid(r)
             \/ BeginEdit(r) \/ Skip(r) \/ Update(r) \/ Cancel(r)
             \/ OtherEvent(r) \/ ChangeUserStatus(r)
      PROVE  OtherStep(r)
  BY <1>1, ExecuteIsOther, PaidIsOther, SkipIsOther, UpdateIsOther, CancelIsOther,
     BeginIsOther, EventIsOther
<1> QED
  BY <1>1 DEF Next, vars

(***************************************************************************)
(* Types.                                                                  *)
(***************************************************************************)
LEMMA InitType == Init => TypeOK
<1> SUFFICES ASSUME Init
             PROVE  TypeOK
  OBVIOUS
<1>1. NoticesTypeOK
  BY DEF Init, NoticesInit, NoticesTypeOK
<1>2. row \in Row
  <2>1. row \in [active: {TRUE}, due: {d \in Date : d > now}, insufficient: {FALSE}, last_day: {None}]
    BY DEF Init
  <2> QED
    BY <2>1 DEF Row
<1>3. now \in 1..MaxTime /\ crashes \in 0..MaxCrashes
  BY Constants DEF Init
<1>4. reqs \in [Request -> Run \cup {None, Over}]
  BY DEF Init
<1>5. alerts \subseteq Alert /\ lost \cup silent \subseteq Countdown /\ noted \subseteq Request /\ moved \in BOOLEAN
  BY DEF Init
<1> QED
  BY <1>1, <1>2, <1>3, <1>4, <1>5 DEF TypeOK

\* Past its check, a sweep that writes has counted days within the window.
Counting ==
    \A r \in Request : \A pc \in {"mark", "queue", "clear"} : At(r, pc) => reqs[r].days \in Days

LEMMA NextType ==
    ASSUME TypeOK, Counting, [Next]_vars, NoticesTypeOK'
    PROVE  TypeOK'
<1>1. ASSUME NEW r \in Request, BeginSweep(r)
      PROVE  TypeOK'
  <2>1. Begin(r, "check") /\ "check" \in Pc
    BY <1>1 DEF BeginSweep, Pc
  <2> QED
    BY <2>1, Begins DEF TypeOK
<1>2. ASSUME NEW r \in Request, Check(r)
      PROVE  TypeOK'
  <2>1. reqs' \in [Request -> Run \cup {None, Over}]
    BY <1>2, Checks DEF Moves
  <2>2. DaysUntil(reqs[r].row.due) \in Days =>
          [due |-> reqs[r].row.due, days |-> DaysUntil(reqs[r].row.due)] \in Countdown
    BY <1>2, RunOf DEF Check, At, Countdown
  <2>3. silent' \subseteq Countdown
    BY <1>2, <2>2 DEF Check, TypeOK
  <2> QED
    BY <1>2, <2>1, <2>3 DEF Check, TypeOK
<1>3. ASSUME NEW r \in Request, Mark(r)
      PROVE  TypeOK'
  <2>1. reqs' \in [Request -> Run \cup {None, Over}]
    BY <1>3, Goes DEF Mark, At, Pc, Moves
  <2>2. reqs[r].days \in Days
    BY <1>3 DEF Mark, Counting
  <2>3. row' \in Row
    BY <1>3, <2>2, Types DEF Mark, Row
  <2> QED
    BY <1>3, <2>1, <2>3 DEF Mark, TypeOK
<1>4. ASSUME NEW r \in Request, Queue(r)
      PROVE  TypeOK'
  <2>1. reqs' \in [Request -> Run \cup {None, Over}]
    BY <1>4, Goes DEF Queue, At, Pc, Moves
  <2>2. reqs[r].days \in Days /\ reqs[r].row.due \in Date
    BY <1>4, RunOf DEF Queue, Counting, At
  <2>3. /\ [due |-> reqs[r].row.due, days |-> reqs[r].days, by |-> r] \in Alert
        /\ Said(r) \in Countdown
    BY <2>2 DEF Alert, Said, Countdown
  <2>4. alerts' \subseteq Alert /\ lost' \subseteq Countdown
    BY <1>4, <2>3 DEF Queue, TypeOK
  <2> QED
    BY <1>4, <2>1, <2>4 DEF Queue, TypeOK
<1>5. ASSUME NEW r \in Request, Clear(r)
      PROVE  TypeOK'
  <2>1. reqs' \in [Request -> Run \cup {None, Over}]
    BY <1>5, Goes DEF Clear, At, Pc, Moves
  <2>2. row' \in Row
    BY <1>5, Types DEF Clear, Row
  <2> QED
    BY <1>5, <2>1, <2>2 DEF Clear, TypeOK
<1>6. ASSUME NEW r \in Request, EndSweep(r)
      PROVE  TypeOK'
  BY <1>6, Ends, Types, Constants DEF EndSweep, TypeOK
<1>7. ASSUME NEW r \in Request, OtherStep(r)
      PROVE  TypeOK'
  BY <1>7, Types DEF OtherStep, TypeOK
<1>8. CASE Tick
  BY <1>8, Constants, Types DEF Tick, TypeOK
<1>9. CASE Crash
  <2>1. reqs' \in [Request -> Run \cup {None, Over}]
    BY <1>9 DEF Crash
  <2>2. \A r \in Request : At(r, "queue") => Said(r) \in Countdown
    BY RunOf DEF Counting, At, Said, Countdown
  <2>3. lost' \subseteq Countdown
    BY <1>9, <2>2 DEF Crash, TypeOK
  <2>4. crashes' \in 0..MaxCrashes
    BY <1>9, Constants DEF Crash, TypeOK
  <2> QED
    BY <1>9, <2>1, <2>3, <2>4 DEF Crash, TypeOK
<1>10. CASE UNCHANGED alertVars
  BY <1>10 DEF alertVars, TypeOK
<1>11. ASSUME NEW r \in Request, GiveUp(r)
      PROVE  TypeOK'
  <2>1. reqs' \in [Request -> Run \cup {None, Over}]
    BY <1>11, Goes DEF GiveUp, At, Pc, Moves
  <2> QED
    BY <1>11, <2>1 DEF GiveUp, TypeOK
<1> QED
  BY <1>1, <1>2, <1>3, <1>4, <1>5, <1>6, <1>7, <1>8, <1>9, <1>10, <1>11, StepCases

(***************************************************************************)
(* One sweep at a time.                                                    *)
(***************************************************************************)
OneSweep == \A q, r \in Request : Sweeping(q) /\ Sweeping(r) => q = r

\* What was queued was queued by a run that is over its alert.
Unposted == \A r \in Request : reqs[r] = Over \/ At(r, "rest") \/ jobs[r] = None

LEMMA SweepsAreRuns ==
    ASSUME NEW r \in Request
    PROVE  /\ Sweeping(r) <=> \E pc \in Sweep : At(r, pc)
           /\ \A pc, p2 : At(r, pc) /\ At(r, p2) => pc = p2
BY DEF Sweeping, At

LEMMA NoSweepRuns ==
    ASSUME ~SweepRuns, NEW r \in Request
    PROVE  ~Sweeping(r) /\ \A pc \in Sweep : ~At(r, pc)
BY DEF SweepRuns, Sweep, Sweeping, At

\* A step of the sweep keeps it where a sweep is.
LEMMA SweepMoves ==
    ASSUME TypeOK, OneSweep, NEW r \in Request, NEW pc \in Sweep, Sweeping(r), Moves(r, pc)
    PROVE  /\ OneSweep' /\ Sweeping(r)' /\ At(r, pc)'
           /\ reqs'[r].row = reqs[r].row /\ reqs'[r].moved = reqs[r].moved
           /\ \A q \in Request \ {r} : ~Sweeping(q) /\ ~Sweeping(q)' /\ reqs'[q] = reqs[q]
<1>1. /\ reqs'[r] \notin {None, Over} /\ reqs'[r].pc = pc
      /\ reqs'[r].row = reqs[r].row /\ reqs'[r].moved = reqs[r].moved
      /\ \A q \in Request \ {r} : reqs'[q] = reqs[q]
  BY DEF Moves
<1>2. Sweeping(r)' /\ At(r, pc)'
  BY <1>1 DEF Sweeping, At
<1>3. \A q \in Request \ {r} : ~Sweeping(q)
  BY DEF OneSweep
<1>4. \A q \in Request \ {r} : ~Sweeping(q)'
  BY <1>1, <1>3 DEF Sweeping
<1> QED
  BY <1>1, <1>2, <1>3, <1>4 DEF OneSweep

\* The steps of a sweep between its begin and its end.
LEMMA SweepSteps ==
    ASSUME TypeOK, NEW r \in Request,
           Check(r) \/ GiveUp(r) \/ Mark(r) \/ Queue(r) \/ Clear(r)
    PROVE  /\ Sweeping(r) /\ reqs[r] \notin {None, Over} /\ ~At(r, "rest")
           /\ \E pc \in Sweep \ {"check"} : Moves(r, pc)
<1>1. CASE Check(r)
  <2>1. At(r, "check")
    BY <1>1 DEF Check
  <2> QED
    BY <1>1, <2>1, Checks DEF At, Sweeping, Sweep
<1>2. CASE GiveUp(r) \/ Mark(r) \/ Queue(r) \/ Clear(r)
  <2>1. PICK pc \in Sweep \ {"check"} : GoTo(r, pc)
    BY <1>2 DEF GiveUp, Mark, Queue, Clear, Sweep
  <2>2. reqs[r] \notin {None, Over} /\ Sweeping(r) /\ ~At(r, "rest") /\ pc \in Pc
    BY <1>2 DEF GiveUp, Mark, Queue, Clear, At, Sweeping, Sweep, Pc
  <2> QED
    BY <2>1, <2>2, Goes
<1> QED
  BY <1>1, <1>2

LEMMA OneSweepNext ==
    ASSUME TypeOK, OneSweep, [Next]_vars
    PROVE  OneSweep'
<1>1. ASSUME NEW r \in Request, BeginSweep(r)
      PROVE  OneSweep'
  <2>1. ~SweepRuns /\ Begin(r, "check") /\ "check" \in Pc
    BY <1>1 DEF BeginSweep, Pc
  <2>2. \A q \in Request \ {r} : ~Sweeping(q)'
    BY <2>1, Begins, NoSweepRuns DEF Sweeping
  <2> QED
    BY <2>2 DEF OneSweep
<1>2. ASSUME NEW r \in Request, Check(r) \/ GiveUp(r) \/ Mark(r) \/ Queue(r) \/ Clear(r)
      PROVE  OneSweep'
  BY <1>2, SweepSteps, SweepMoves
<1>3. ASSUME NEW r \in Request, EndSweep(r)
      PROVE  OneSweep'
  <2>1. reqs'[r] = Over /\ \A q \in Request \ {r} : reqs'[q] = reqs[q]
    BY <1>3, Ends DEF EndSweep
  <2> QED
    BY <2>1 DEF OneSweep, Sweeping
<1>4. ASSUME NEW r \in Request, OtherStep(r)
      PROVE  OneSweep'
  <2>1. ~Sweeping(r)' /\ \A q \in Request \ {r} : Sweeping(q)' <=> Sweeping(q)
    BY <1>4 DEF OtherStep, Sweeping, Outside, Sweep
  <2> QED
    BY <2>1 DEF OneSweep
<1>5. CASE Tick \/ UNCHANGED alertVars
  BY <1>5 DEF Tick, alertVars, OneSweep, Sweeping
<1>6. CASE Crash
  BY <1>6 DEF Crash, OneSweep, Sweeping
<1> QED
  BY <1>1, <1>2, <1>3, <1>4, <1>5, <1>6, StepCases

\* A step of the one sweep that goes to pc.
LEMMA OnlySweep ==
    ASSUME TypeOK, OneSweep, NEW r \in Request, NEW pc \in Sweep, Sweeping(r), Moves(r, pc)
    PROVE  /\ reqs'[r].row = reqs[r].row
           /\ \A q \in Request, p2 \in Sweep : At(q, p2)' => q = r /\ p2 = pc
<1>1. At(r, pc)' /\ \A q \in Request \ {r} : ~Sweeping(q)'
  BY SweepMoves
<1>2. \A q \in Request, p2 \in Sweep : At(q, p2)' => Sweeping(q)'
  BY DEF At, Sweeping
<1> QED
  BY <1>1, <1>2, SweepMoves DEF At

\* Steps after which no sweep writes, or the one that does has counted.
LEMMA CountingNext ==
    ASSUME TypeOK, OneSweep, Counting, [Next]_vars
    PROVE  Counting'
<1>1. ASSUME NEW r \in Request, BeginSweep(r)
      PROVE  Counting'
  <2>1. ~SweepRuns /\ Begin(r, "check") /\ "check" \in Pc
    BY <1>1 DEF BeginSweep, Pc
  <2>2. \A q \in Request : \A pc \in {"mark", "queue", "clear"} : ~At(q, pc)'
    BY <2>1, Begins, NoSweepRuns DEF At, Sweep
  <2> QED
    BY <2>2 DEF Counting
<1>2. ASSUME NEW r \in Request, Check(r)
      PROVE  Counting'
  <2>1. PICK pc \in {"rest", "mark", "clear"} :
          Moves(r, pc) /\ (pc # "rest" => reqs'[r].days \in Days)
    BY <1>2, Checks
  <2>2. Sweeping(r) /\ pc \in Sweep
    BY <1>2, SweepSteps DEF Sweep
  <2>3. \A q \in Request, p2 \in Sweep : At(q, p2)' => q = r /\ p2 = pc
    BY <2>1, <2>2, OnlySweep
  <2> QED
    BY <2>1, <2>3 DEF Counting, Sweep
<1>3. ASSUME NEW r \in Request, Mark(r)
      PROVE  Counting'
  <2>1. /\ At(r, "mark") /\ Sweeping(r) /\ GoTo(r, "queue") /\ "queue" \in Sweep \cap Pc
        /\ reqs[r] \notin {None, Over}
    BY <1>3, SweepSteps DEF Mark, Sweep, Pc
  <2>2. Moves(r, "queue") /\ reqs'[r].days = reqs[r].days
    BY <2>1, Goes
  <2>3. \A q \in Request, p2 \in Sweep : At(q, p2)' => q = r
    BY <2>1, <2>2, OnlySweep
  <2> QED
    BY <2>1, <2>2, <2>3 DEF Counting, Sweep
<1>4. ASSUME NEW r \in Request, GiveUp(r) \/ Queue(r) \/ Clear(r)
      PROVE  Counting'
  <2>1. Sweeping(r) /\ GoTo(r, "rest") /\ "rest" \in Sweep \cap Pc /\ reqs[r] \notin {None, Over}
    BY <1>4, SweepSteps DEF GiveUp, Queue, Clear, Sweep, Pc
  <2>2. \A q \in Request, p2 \in Sweep : At(q, p2)' => p2 = "rest"
    BY <2>1, Goes, OnlySweep
  <2> QED
    BY <2>2 DEF Counting, Sweep
<1>5. ASSUME NEW r \in Request, EndSweep(r) \/ OtherStep(r)
      PROVE  Counting'
  <2>1. \A pc \in {"mark", "queue", "clear"} : ~At(r, pc)'
    BY <1>5, Ends DEF EndSweep, OtherStep, At, Outside
  <2>2. \A q \in Request \ {r} : reqs'[q] = reqs[q]
    BY <1>5, Ends DEF EndSweep, OtherStep
  <2> QED
    BY <2>1, <2>2 DEF Counting, At
<1>6. CASE Tick \/ UNCHANGED alertVars
  BY <1>6 DEF Tick, alertVars, Counting, At
<1>7. CASE Crash
  BY <1>7 DEF Crash, Counting, At
<1> QED
  BY <1>1, <1>2, <1>3, <1>4, <1>5, <1>6, <1>7, StepCases

(***************************************************************************)
(* The queue beside the schedule.                                          *)
(***************************************************************************)
LEMMA QueueNext ==
    ASSUME TypeOK, QueueInv, Unposted, [Next]_vars
    PROVE  QueueInv' /\ Unposted'
<1>1. ASSUME NEW r \in Request, reqs[r] = None \/ At(r, "queue"), NEW to \in {"self", "role"},
             Post(r, to), \A q \in Request \ {r} : reqs'[q] = reqs[q],
             reqs'[r] = Over \/ At(r, "rest")'
      PROVE  QueueInv' /\ Unposted'
  <2>1. jobs[r] = None
    BY <1>1, Constants DEF Unposted, At
  <2>2. \A q \in Request \ {r} : jobs'[q] = jobs[q]
    BY <1>1, QueueTypes DEF Post
  <2>3. Unposted'
    BY <1>1, <2>2 DEF Unposted, At
  <2> QED
    BY <1>1, <2>1, <2>3, PostTells
<1>2. ASSUME \A r \in Request : jobs[r] = None => jobs'[r] = None,
             \A r \in Request : /\ reqs[r] = Over => reqs'[r] = Over
                                /\ At(r, "rest") => reqs'[r] = Over \/ At(r, "rest")'
      PROVE  Unposted'
  BY <1>2 DEF Unposted
<1>3. ASSUME NEW r \in Request, Queue(r)
      PROVE  QueueInv' /\ Unposted'
  <2>1. /\ At(r, "queue") /\ GoTo(r, "rest") /\ "rest" \in Pc /\ reqs[r] \notin {None, Over}
    BY <1>3 DEF Queue, At, Pc
  <2>2. At(r, "rest")' /\ \A q \in Request \ {r} : reqs'[q] = reqs[q]
    BY <2>1, Goes DEF At, Moves
  <2>3. CASE Post(r, "self")
    BY <1>1, <2>1, <2>2, <2>3
  <2>4. CASE UNCHANGED noticeVars
    <3>1. QueueInv' /\ jobs' = jobs
      BY <2>4, QueueStepTells DEF noticeVars
    <3>2. Unposted'
      BY <1>2, <2>1, <2>2, <3>1 DEF At
    <3> QED
      BY <3>1, <3>2
  <2> QED
    BY <1>3, <2>3, <2>4 DEF Queue
<1>4. ASSUME NEW r \in Request, OtherEvent(r)
      PROVE  QueueInv' /\ Unposted'
  <2>1. reqs[r] = None /\ Post(r, "role") /\ End(r)
    BY <1>4 DEF OtherEvent, Fresh
  <2> QED
    BY <1>1, <2>1, Ends
<1>5. ASSUME NEW r \in Request, ChangeUserStatus(r)
      PROVE  QueueInv' /\ Unposted'
  <2>1. reqs[r] = None /\ End(r) /\ \E u \in User : UpdateUserStatus(u)
    BY <1>5 DEF ChangeUserStatus, Fresh
  <2>2. QueueInv' /\ jobs' = jobs
    BY <2>1, StatusTells DEF UpdateUserStatus
  <2>3. Unposted'
    BY <1>2, <2>1, <2>2, Ends DEF At
  <2> QED
    BY <2>2, <2>3
<1>6. ASSUME NEW r \in Request,
             \/ BeginSweep(r) \/ Check(r) \/ GiveUp(r) \/ Mark(r) \/ Clear(r) \/ EndSweep(r)
             \/ BeginExecute(r) \/ Execute(r) \/ PaymentFails(r) \/ Paid(r)
             \/ BeginEdit(r) \/ Skip(r) \/ Update(r) \/ Cancel(r)
      PROVE  QueueInv' /\ Unposted'
  <2>1. UNCHANGED noticeVars
    <3>1. CASE BeginSweep(r)
      BY <3>1 DEF BeginSweep, Begin
    <3>2. CASE Check(r) \/ GiveUp(r) \/ Mark(r) \/ Clear(r) \/ EndSweep(r)
      BY <3>2 DEF Check, GiveUp, Mark, Clear, EndSweep
    <3> QED
      BY <1>6, <3>1, <3>2, ExecuteIsOther, PaidIsOther, SkipIsOther, UpdateIsOther,
         CancelIsOther, BeginIsOther
  <2>2. QueueInv' /\ jobs' = jobs
    BY <2>1, QueueStepTells DEF noticeVars
  <2>3. /\ reqs[r] # Over
        /\ At(r, "rest") => reqs'[r] = Over
        /\ \A q \in Request \ {r} : reqs'[q] = reqs[q]
    <3>1. CASE BeginSweep(r)
      BY <3>1, Begins, Constants DEF BeginSweep, Pc, At
    <3>2. CASE Check(r) \/ GiveUp(r) \/ Mark(r) \/ Clear(r)
      BY <3>2, SweepSteps DEF Moves
    <3>3. CASE EndSweep(r)
      BY <3>3, Ends DEF EndSweep, At
    <3>4. CASE OtherStep(r)
      BY <3>4 DEF OtherStep, Sweeping, At, Sweep
    <3> QED
      BY <1>6, <3>1, <3>2, <3>3, <3>4, ExecuteIsOther, PaidIsOther, SkipIsOther, UpdateIsOther,
         CancelIsOther, BeginIsOther
  <2>4. Unposted'
    BY <1>2, <2>2, <2>3 DEF At
  <2> QED
    BY <2>2, <2>4
<1>7. CASE Crash
  <2>1. QueueInv'
    BY <1>7, StallTells DEF Crash
  <2>2. \A r \in Request : jobs[r] = None => jobs'[r] = None
    BY <1>7, QueueTypes DEF Crash, Stall
  <2>3. \A r \in Request : reqs[r] = Over \/ At(r, "rest") => reqs'[r] = Over
    BY <1>7, Constants DEF Crash, At
  <2> QED
    BY <1>2, <2>1, <2>2, <2>3
<1>8. CASE NoticesNext /\ UNCHANGED alertVars
  <2>1. QueueInv'
    BY <1>8, QueueStepTells
  <2>2. \A r \in Request : jobs[r] = None => jobs'[r] = None
    BY <1>8, QueueTypes DEF NoticesNext, Take, Notify, Complete, Throw
  <2> QED
    BY <1>2, <1>8, <2>1, <2>2 DEF alertVars, At
<1>9. CASE Tick \/ UNCHANGED vars
  <2>1. UNCHANGED noticeVars /\ reqs' = reqs
    BY <1>9 DEF Tick, vars, alertVars
  <2> QED
    BY <1>2, <2>1, QueueStepTells DEF noticeVars, At
<1> QED
  BY <1>3, <1>4, <1>5, <1>6, <1>7, <1>8, <1>9 DEF Next

(***************************************************************************)
(* What a note in the row is worth.                                        *)
(***************************************************************************)
\* The alert of a countdown was queued or lost, or is about to be queued.
Told(due, days) ==
    \/ [due |-> due, days |-> days] \in lost
    \/ \E a \in alerts : a.due = due /\ a.days = days
Pending(due, days) ==
    \E r \in Request : At(r, "queue") /\ reqs[r].row.due = due /\ reqs[r].days = days

Noted ==
    ~moved /\ row.last_day # None =>
      Told(row.due, row.last_day) \/ Pending(row.due, row.last_day)

Seen ==
    \A r \in Request : At(r, "check") /\ ~reqs[r].moved /\ reqs[r].row.last_day # None =>
      Told(reqs[r].row.due, reqs[r].row.last_day)

SilentTold == \A s \in silent : Told(s.due, s.days)

NotesHold == Noted /\ Seen /\ SilentTold

\* Steps that leave silent, the runs at "check" and what the row says alone.
LEMMA NotesFrame ==
    ASSUME NotesHold, lost \subseteq lost', alerts \subseteq alerts', silent' = silent,
           \A q \in Request : At(q, "check")' => At(q, "check") /\ reqs'[q] = reqs[q],
           \/ row'.last_day = None \/ moved'
           \/ /\ ~moved /\ row'.last_day = row.last_day /\ row'.due = row.due
              /\ \A due, days : Pending(due, days) => Pending(due, days)' \/ Told(due, days)'
    PROVE  NotesHold'
<1>0. ASSUME NEW due, NEW days, Told(due, days)
      PROVE  \/ [due |-> due, days |-> days] \in lost'
             \/ \E a \in alerts' : a.due = due /\ a.days = days
  BY <1>0 DEF Told
<1>1. Seen'
  <2> SUFFICES ASSUME NEW r \in Request, At(r, "check")', ~reqs'[r].moved, reqs'[r].row.last_day # None
               PROVE  Told(reqs[r].row.due, reqs[r].row.last_day)'
    BY DEF Seen
  <2>1. Told(reqs[r].row.due, reqs[r].row.last_day) /\ reqs'[r] = reqs[r]
    BY DEF NotesHold, Seen
  <2> QED
    BY <1>0, <2>1 DEF Told
<1>2. SilentTold'
  BY DEF NotesHold, SilentTold, Told
<1>3. Noted'
  <2> SUFFICES ASSUME ~moved', row'.last_day # None
               PROVE  Told(row.due, row.last_day)' \/ Pending(row.due, row.last_day)'
    BY DEF Noted
  <2>1. CASE Told(row.due, row.last_day)
    BY <1>0, <2>1 DEF Told
  <2>2. CASE Pending(row.due, row.last_day)
    <3>1. PICK due, days : due = row.due /\ days = row.last_day
      OBVIOUS
    <3>2. Pending(due, days)' \/ Told(due, days)'
      BY <2>2, <3>1
    <3>3. due = row'.due /\ days = row'.last_day
      BY <3>1
    <3> QED
      BY <3>2, <3>3 DEF Told, Pending
  <2> QED
    BY <2>1, <2>2 DEF NotesHold, Noted
<1> QED
  BY <1>1, <1>2, <1>3 DEF NotesHold

LEMMA NotesNext ==
    ASSUME TypeOK, OneSweep, Counting, NotesHold, [Next]_vars
    PROVE  NotesHold'
<1>1. ASSUME NEW r \in Request, BeginSweep(r)
      PROVE  NotesHold'
  <2>1. ~SweepRuns /\ Begin(r, "check") /\ "check" \in Pc
    BY <1>1 DEF BeginSweep, Pc
  <2>2. \A due, days : ~Pending(due, days)
    BY <2>1, NoSweepRuns DEF Pending, Sweep
  <2>3. /\ reqs'[r].row = row /\ reqs'[r].moved = moved
        /\ UNCHANGED <<row, moved, alerts, lost, silent>>
        /\ \A q \in Request \ {r} : ~At(q, "check")'
    BY <2>1, Begins, NoSweepRuns DEF At, Sweep
  <2>4. Noted' /\ Seen'
    BY <2>2, <2>3 DEF NotesHold, Noted, Seen, Told
  <2> QED
    BY <2>3, <2>4 DEF NotesHold, SilentTold, Told
<1>2. ASSUME NEW r \in Request, Check(r)
      PROVE  NotesHold'
  <2>1. PICK pc \in {"rest", "mark", "clear"} : Moves(r, pc)
    BY <1>2, Checks
  <2>2. /\ At(r, "check") /\ Sweeping(r) /\ pc \in Sweep /\ reqs[r] \notin {None, Over}
        /\ UNCHANGED <<row, moved, alerts, lost>>
    BY <1>2, SweepSteps DEF Check, Sweep
  <2>3. \A q \in Request : ~At(q, "check")'
    BY <2>1, <2>2, OnlySweep DEF Sweep
  <2>4. \A due, days : ~Pending(due, days)
    BY <2>2 DEF Pending, OneSweep, Sweeping, Sweep, At
  <2>5. Noted' /\ Seen'
    BY <2>2, <2>3, <2>4 DEF NotesHold, Noted, Seen, Told
  <2>6. SilentTold'
    <3> DEFINE old == reqs[r].row
               days == DaysUntil(old.due)
    <3>1. CASE silent' = silent
      BY <2>2, <3>1 DEF NotesHold, SilentTold, Told
    <3>2. CASE /\ days \in Days /\ old.last_day = days /\ ~reqs[r].moved
               /\ silent' = silent \cup {[due |-> old.due, days |-> days]}
      <4>1. old.last_day # None
        BY <3>2, Constants
      <4>2. Told(old.due, days)
        BY <2>2, <3>2, <4>1 DEF NotesHold, Seen
      <4>3. \A s \in silent' : Told(s.due, s.days)
        BY <3>2, <4>2 DEF NotesHold, SilentTold
      <4> QED
        BY <2>2, <4>3 DEF SilentTold, Told
    <3> QED
      BY <1>2, <3>1, <3>2 DEF Check
  <2> QED
    BY <2>5, <2>6 DEF NotesHold
<1>3. ASSUME NEW r \in Request, Mark(r)
      PROVE  NotesHold'
  <2>1. /\ At(r, "mark") /\ Sweeping(r) /\ GoTo(r, "queue") /\ "queue" \in Sweep \cap Pc
        /\ UNCHANGED <<alerts, lost, silent>>
        /\ reqs[r] \notin {None, Over}
        /\ row' = [row EXCEPT !.insufficient = TRUE, !.last_day = reqs[r].days]
        /\ moved' = (row.due # reqs[r].row.due)
    BY <1>3, SweepSteps DEF Mark, Sweep, Pc
  <2>2. Moves(r, "queue") /\ reqs'[r].days = reqs[r].days
    BY <2>1, Goes
  <2>3. At(r, "queue")' /\ reqs'[r].row = reqs[r].row /\ \A q \in Request : ~At(q, "check")'
    BY <2>1, <2>2, SweepMoves, OnlySweep DEF Sweep
  <2>4. row'.due = row.due /\ row'.last_day = reqs[r].days
    BY <2>1, Types DEF Row
  <2>5. Noted'
    BY <2>1, <2>2, <2>3, <2>4 DEF Noted, Pending
  <2>6. Seen'
    BY <2>3 DEF Seen
  <2> QED
    BY <2>1, <2>5, <2>6 DEF NotesHold, SilentTold, Told
<1>4. ASSUME NEW r \in Request, Queue(r)
      PROVE  NotesHold'
  <2>1. /\ At(r, "queue") /\ Sweeping(r) /\ GoTo(r, "rest") /\ "rest" \in Sweep \cap Pc
        /\ UNCHANGED <<row, moved, silent>> /\ reqs[r] \notin {None, Over}
        /\ lost \subseteq lost' /\ alerts \subseteq alerts'
    BY <1>4, SweepSteps DEF Queue, Sweep, Pc
  <2>2. Told(reqs[r].row.due, reqs[r].days)'
    <3> DEFINE a == [due |-> reqs[r].row.due, days |-> reqs[r].days, by |-> r]
    <3>1. CASE a \in alerts'
      <4>1. Moves(r, "rest") /\ reqs'[r].days = reqs[r].days
        BY <2>1, Goes
      <4> QED
        BY <3>1, <4>1 DEF Told, Moves
    <3>2. CASE Said(r) \in lost'
      <4>1. Moves(r, "rest") /\ reqs'[r].days = reqs[r].days
        BY <2>1, Goes
      <4> QED
        BY <3>2, <4>1 DEF Told, Moves, Said
    <3> QED
      BY <1>4, <3>1, <3>2 DEF Queue
  <2>3. /\ \A q \in Request : ~At(q, "check")'
        /\ reqs'[r].row = reqs[r].row /\ reqs'[r].days = reqs[r].days
    BY <2>1, Goes, OnlySweep DEF Sweep
  <2>4. ASSUME NEW due, NEW days, Pending(due, days)
        PROVE  Told(due, days)'
    <3>1. due = reqs[r].row.due /\ days = reqs[r].days
      BY <2>1, <2>4 DEF Pending, OneSweep, Sweeping, Sweep, At
    <3> QED
      BY <2>2, <2>3, <3>1 DEF Told
  <2>5. moved' \/ ~moved
    BY <2>1, Types
  <2> QED
    BY <2>1, <2>3, <2>4, <2>5, NotesFrame
<1>5. ASSUME NEW r \in Request, Clear(r)
      PROVE  NotesHold'
  <2>1. /\ Sweeping(r) /\ GoTo(r, "rest") /\ "rest" \in Sweep \cap Pc /\ reqs[r] \notin {None, Over}
        /\ UNCHANGED <<lost, alerts, silent>>
        /\ row'.last_day = None
    BY <1>5, SweepSteps, Types DEF Clear, Sweep, Row, Pc
  <2>2. \A q \in Request : ~At(q, "check")'
    BY <2>1, Goes, OnlySweep DEF Sweep
  <2> QED
    BY <2>1, <2>2, NotesFrame
<1>6. ASSUME NEW r \in Request, EndSweep(r)
      PROVE  NotesHold'
  <2>1. /\ At(r, "rest") /\ Sweeping(r) /\ UNCHANGED <<lost, alerts, silent, row, moved>>
    BY <1>6 DEF EndSweep, At, Sweeping, Sweep
  <2>2. reqs'[r] = Over /\ \A q \in Request \ {r} : reqs'[q] = reqs[q]
    BY <1>6, Ends DEF EndSweep
  <2>3. \A due, days : ~Pending(due, days)
    BY <2>1 DEF Pending, OneSweep, Sweeping, Sweep, At
  <2>4. \A q \in Request : At(q, "check")' => At(q, "check") /\ reqs'[q] = reqs[q]
    BY <2>2 DEF At
  <2> QED
    BY <2>1, <2>3, <2>4, Types, NotesFrame
<1>7. ASSUME NEW r \in Request, OtherStep(r)
      PROVE  NotesHold'
  <2>1. /\ UNCHANGED <<lost, alerts, silent>> /\ moved' \in BOOLEAN
        /\ ~moved' /\ row'.last_day # None =>
             ~moved /\ row'.due = row.due /\ row'.last_day = row.last_day
    BY <1>7 DEF OtherStep
  <2>2. /\ \A q \in Request \ {r} : reqs'[q] = reqs[q]
        /\ ~At(r, "check")' /\ ~At(r, "queue")
    BY <1>7 DEF OtherStep, At, Outside, Sweeping, Sweep
  <2>3. \A q \in Request : At(q, "check")' => At(q, "check") /\ reqs'[q] = reqs[q]
    BY <2>2 DEF At
  <2>4. \A due, days : Pending(due, days) => Pending(due, days)'
    BY <2>2 DEF Pending, At
  <2> QED
    BY <2>1, <2>3, <2>4, NotesFrame
<1>8. CASE Tick \/ UNCHANGED alertVars
  <2>1. UNCHANGED <<lost, alerts, silent, row, moved, reqs>>
    BY <1>8 DEF Tick, alertVars
  <2>2. \A due, days : Pending(due, days) => Pending(due, days)'
    BY <2>1 DEF Pending, At
  <2> QED
    BY <2>1, <2>2, Types, NotesFrame DEF At
<1>9. CASE Crash
  <2>1. /\ UNCHANGED <<alerts, silent, row, moved>> /\ \A q \in Request : ~At(q, "check")'
        /\ lost \subseteq lost'
    BY <1>9 DEF Crash, At
  <2>2. \A due, days : Pending(due, days) => [due |-> due, days |-> days] \in lost'
    BY <1>9 DEF Crash, Pending, Said
  <2>3. \A due, days : Pending(due, days) => Told(due, days)'
    BY <2>2 DEF Told
  <2> QED
    BY <2>1, <2>3, Types, NotesFrame
<1>10. ASSUME NEW r \in Request, GiveUp(r)
       PROVE  NotesHold'
  <2>1. /\ ~At(r, "queue") /\ Sweeping(r) /\ GoTo(r, "rest") /\ "rest" \in Sweep \cap Pc
        /\ UNCHANGED <<lost, alerts, silent, row, moved>> /\ reqs[r] \notin {None, Over}
    BY <1>10, SweepSteps DEF GiveUp, At, Sweep, Pc
  <2>2. /\ \A q \in Request : ~At(q, "check")'
        /\ \A q \in Request \ {r} : reqs'[q] = reqs[q]
    BY <2>1, Goes, OnlySweep DEF Sweep, Moves
  <2>3. \A due, days : Pending(due, days) => Pending(due, days)'
    BY <2>1, <2>2 DEF Pending, At
  <2> QED
    BY <2>1, <2>2, <2>3, Types, NotesFrame
<1> QED
  BY <1>1, <1>2, <1>3, <1>4, <1>5, <1>6, <1>7, <1>8, <1>9, <1>10, StepCases

(***************************************************************************)
(* The days left.                                                          *)
(***************************************************************************)
LEMMA Halves ==
    ASSUME NEW x \in Int, NEW y \in Int, NEW n \in Nat \ {0}, x <= y
    PROVE  x \div n <= y \div n
OBVIOUS

LEMMA DaysAreInts ==
    ASSUME TypeOK, NEW date \in Date
    PROVE  DaysUntil(date) \in Int
BY Types, Constants DEF DaysUntil, Date

LEMMA TickShrinks ==
    ASSUME TypeOK, Tick, NEW date \in Date
    PROVE  DaysUntil(date)' <= DaysUntil(date) /\ DaysUntil(date)' \in Int
<1> DEFINE x == date - now + Day - 1
           y == date - now' + Day - 1
<1>1. now \in Nat /\ now' = now + 1 /\ Day \in Nat \ {0} /\ date \in Nat
  BY Types, Constants DEF Tick, Date
<1>2. x \in Int /\ y \in Int /\ y <= x
  BY <1>1
<1>3. y \div Day <= x \div Day /\ y \div Day \in Int
  BY <1>1, <1>2, Halves
<1> QED
  BY <1>3 DEF DaysUntil

\* An alert, and a sweep about to write, have counted at least what is left.
Writes(r) == At(r, "mark") \/ At(r, "queue") \/ At(r, "clear")

Shrinking ==
    /\ \A a \in alerts : DaysUntil(a.due) <= a.days
    /\ \A r \in Request : Writes(r) => DaysUntil(reqs[r].row.due) <= reqs[r].days

\* The alerts of sweeps whose note nobody has written over.
Standing == {a \in alerts : a.by \in noted}

\* A row that holds the countdown of each such alert, or comes after it.
After(due, last_day) ==
    \A a \in Standing : a.due = due => a.days = last_day \/ DaysUntil(due) < a.days

Latest ==
    /\ \A a \in alerts : reqs[a.by] = Over \/ At(a.by, "rest")
    /\ After(row.due, row.last_day)
    /\ \A r \in Request :
         /\ At(r, "check") => After(reqs[r].row.due, reqs[r].row.last_day)
         /\ Writes(r) => \A a \in Standing : a.due = reqs[r].row.due => reqs[r].days < a.days
         /\ At(r, "check") \/ At(r, "mark") \/ At(r, "clear") => reqs[r].row = row \/ noted = {}
         /\ At(r, "queue") /\ r \in noted => row.last_day = reqs[r].days
    /\ OneAlertPerCountdown

LEMMA AlertTypes ==
    ASSUME TypeOK, NEW a \in alerts
    PROVE  a.by \in Request /\ a.due \in Date /\ a.days \in Days /\ a.days \in Nat
BY DEF TypeOK, Alert, Days

\* A step that queues nothing and leaves the notes, the clock and the sweeps'
\* rows as they were, or that wiped the notes.
LEMMA LatestFrame ==
    ASSUME TypeOK, Latest, alerts' = alerts, now' = now,
           \A q \in Request : reqs[q] = Over => reqs'[q] = Over,
           \A q \in Request : At(q, "rest") => reqs'[q] = Over \/ At(q, "rest")',
           \A q \in Request, pc \in {"check", "mark", "queue", "clear"} :
             At(q, pc)' => At(q, pc) /\ reqs'[q] = reqs[q],
           UNCHANGED <<row, noted>> \/ noted' = {}
    PROVE  Latest'
<1>1. \A a \in alerts' : reqs'[a.by] = Over \/ At(a.by, "rest")'
  BY AlertTypes DEF Latest
<1>2. CASE noted' = {}
  <2>1. Standing' = {}
    BY <1>2 DEF Standing
  <2>2. OneAlertPerCountdown'
    BY <1>2 DEF OneAlertPerCountdown
  <2> QED
    BY <1>1, <1>2, <2>1, <2>2 DEF Latest, After
<1>3. CASE UNCHANGED <<row, noted>>
  <2>1. Standing' = Standing
    BY <1>3 DEF Standing
  <2>2. \A date : DaysUntil(date)' = DaysUntil(date)
    BY DEF DaysUntil
  <2>3. \A due, last_day : After(due, last_day) => After(due, last_day)'
    BY <2>1, <2>2 DEF After
  <2>4. After(row.due, row.last_day)'
    BY <1>3, <2>1, <2>2 DEF Latest, After
  <2>5. ASSUME NEW r \in Request
        PROVE  /\ At(r, "check")' => After(reqs[r].row.due, reqs[r].row.last_day)'
               /\ Writes(r)' => \A a \in Standing' : a.due = reqs'[r].row.due => reqs'[r].days < a.days
               /\ At(r, "check")' \/ At(r, "mark")' \/ At(r, "clear")' => reqs'[r].row = row' \/ noted' = {}
               /\ At(r, "queue")' /\ r \in noted' => row'.last_day = reqs'[r].days
    <3>1. At(r, "check")' => After(reqs[r].row.due, reqs[r].row.last_day)'
      BY <2>1, <2>2 DEF Latest, After
    <3>2. Writes(r)' => Writes(r) /\ reqs'[r] = reqs[r]
      BY DEF Writes
    <3> QED
      BY <1>3, <2>1, <3>1, <3>2 DEF Latest
  <2>6. OneAlertPerCountdown'
    BY <1>3 DEF Latest, OneAlertPerCountdown
  <2> QED
    BY <1>1, <2>4, <2>5, <2>6 DEF Latest
<1> QED
  BY <1>2, <1>3

\* A step of the one sweep r to pc that queues nothing, given what it leaves in
\* the row and, if it is to write, what it has counted.
LEMMA LatestSweep ==
    ASSUME TypeOK, OneSweep, Latest, NEW r \in Request, NEW pc \in Sweep \ {"check"},
           Sweeping(r), ~At(r, "rest"), Moves(r, pc), alerts' = alerts, now' = now,
           noted' = noted \/ noted' = noted \cup {r},
           After(row.due, row.last_day)',
           pc # "rest" => \A a \in Standing : a.due = reqs[r].row.due => reqs'[r].days < a.days,
           pc \in {"mark", "clear"} => reqs[r].row = row' \/ noted' = {},
           pc = "queue" /\ r \in noted' => row'.last_day = reqs'[r].days
    PROVE  Latest'
<1>1. \A a \in alerts : a.by # r
  BY AlertTypes DEF Latest, Sweeping
<1>2. Standing' = Standing
  BY <1>1 DEF Standing
<1>3. /\ reqs'[r].row = reqs[r].row
      /\ \A q \in Request, p2 \in Sweep : At(q, p2)' => q = r /\ p2 = pc
      /\ \A q \in Request \ {r} : reqs'[q] = reqs[q]
  BY OnlySweep DEF Moves
<1>4. \A a \in alerts' : reqs'[a.by] = Over \/ At(a.by, "rest")'
  BY <1>1, <1>3, AlertTypes DEF Latest, At
<1>5. ASSUME NEW q \in Request
      PROVE  /\ At(q, "check")' => After(reqs[q].row.due, reqs[q].row.last_day)'
             /\ Writes(q)' => \A a \in Standing' : a.due = reqs'[q].row.due => reqs'[q].days < a.days
             /\ At(q, "check")' \/ At(q, "mark")' \/ At(q, "clear")' => reqs'[q].row = row' \/ noted' = {}
             /\ At(q, "queue")' /\ q \in noted' => row'.last_day = reqs'[q].days
  <2>1. ~At(q, "check")'
    BY <1>3 DEF Sweep
  <2>2. Writes(q)' => q = r /\ pc # "rest"
    BY <1>3 DEF Writes, Sweep
  <2>3. At(q, "mark")' \/ At(q, "clear")' => q = r /\ pc \in {"mark", "clear"}
    BY <1>3 DEF Sweep
  <2>4. At(q, "queue")' => q = r /\ pc = "queue"
    BY <1>3 DEF Sweep
  <2> QED
    BY <1>2, <1>3, <2>1, <2>2, <2>3, <2>4
<1>6. OneAlertPerCountdown'
  <2>1. \A a \in alerts : a.by \in noted' => a.by \in noted
    BY <1>1
  <2> QED
    BY <2>1 DEF Latest, OneAlertPerCountdown
<1> QED
  BY <1>4, <1>5, <1>6 DEF Latest

LEMMA ShrinkingNext ==
    ASSUME TypeOK, OneSweep, Counting, Shrinking, [Next]_vars
    PROVE  Shrinking'
<1>0. ASSUME now' = now
      PROVE  \A date : DaysUntil(date)' = DaysUntil(date)
  BY <1>0 DEF DaysUntil
<1>1. ASSUME now' = now, alerts' = alerts,
             \A r \in Request : Writes(r)' => Writes(r) /\ reqs'[r].row = reqs[r].row
                                                        /\ reqs'[r].days = reqs[r].days
      PROVE  Shrinking'
  BY <1>0, <1>1 DEF Shrinking
<1>2. ASSUME NEW r \in Request, BeginSweep(r)
      PROVE  Shrinking'
  <2>1. ~SweepRuns /\ Begin(r, "check") /\ "check" \in Pc
    BY <1>2 DEF BeginSweep, Pc
  <2>2. \A q \in Request : ~Writes(q)'
    BY <2>1, Begins, NoSweepRuns DEF At, Sweep, Writes
  <2> QED
    BY <1>1, <2>1, <2>2, Begins
<1>3. ASSUME NEW r \in Request, Check(r)
      PROVE  Shrinking'
  <2>1. PICK pc \in {"rest", "mark", "clear"} :
          /\ Moves(r, pc)
          /\ pc # "rest" => reqs'[r].days \in Days /\ reqs'[r].days = DaysUntil(reqs[r].row.due)
    BY <1>3, Checks
  <2>2. Sweeping(r) /\ pc \in Sweep /\ alerts' = alerts /\ now' = now
    BY <1>3, SweepSteps DEF Check, Sweep
  <2>3. \A q \in Request : Writes(q)' => q = r /\ pc # "rest"
    BY <2>1, <2>2, OnlySweep DEF Writes, Sweep
  <2>4. \A q \in Request : Writes(q)' => DaysUntil(reqs'[q].row.due) <= reqs'[q].days
    BY <2>1, <2>3 DEF Moves, Days
  <2> QED
    BY <1>0, <2>2, <2>4 DEF Shrinking
<1>4. ASSUME NEW r \in Request, Mark(r)
      PROVE  Shrinking'
  <2>1. /\ At(r, "mark") /\ Sweeping(r) /\ GoTo(r, "queue") /\ "queue" \in Sweep \cap Pc
        /\ reqs[r] \notin {None, Over} /\ alerts' = alerts /\ now' = now
    BY <1>4, SweepSteps DEF Mark, Sweep, Pc
  <2>2. Moves(r, "queue") /\ reqs'[r].days = reqs[r].days
    BY <2>1, Goes
  <2>3. \A q \in Request : Writes(q)' => q = r
    BY <2>1, <2>2, OnlySweep DEF Writes, Sweep
  <2> QED
    BY <1>1, <2>1, <2>2, <2>3 DEF Moves, Writes
<1>5. ASSUME NEW r \in Request, GiveUp(r) \/ Clear(r) \/ Queue(r)
      PROVE  Shrinking'
  <2>1. /\ Sweeping(r) /\ GoTo(r, "rest") /\ "rest" \in Sweep \cap Pc /\ reqs[r] \notin {None, Over}
        /\ now' = now
    BY <1>5, SweepSteps DEF GiveUp, Clear, Queue, Sweep, Pc
  <2>2. \A q \in Request : ~Writes(q)'
    BY <2>1, Goes, OnlySweep DEF Writes, Sweep
  <2>3. CASE alerts' = alerts
    BY <1>1, <2>1, <2>2, <2>3
  <2>4. CASE Queue(r) /\ alerts' = alerts \cup {[due |-> reqs[r].row.due, days |-> reqs[r].days, by |-> r]}
    <3>1. DaysUntil(reqs[r].row.due) <= reqs[r].days
      BY <2>4 DEF Queue, Shrinking, Writes
    <3>2. \A a \in alerts' : DaysUntil(a.due) <= a.days
      BY <2>4, <3>1 DEF Shrinking
    <3> QED
      BY <1>0, <2>1, <2>2, <3>2 DEF Shrinking
  <2> QED
    BY <1>5, <2>3, <2>4 DEF GiveUp, Clear, Queue
<1>6. ASSUME NEW r \in Request, EndSweep(r) \/ OtherStep(r)
      PROVE  Shrinking'
  <2>1. /\ ~Writes(r)' /\ \A q \in Request \ {r} : reqs'[q] = reqs[q]
        /\ alerts' = alerts /\ now' = now
    BY <1>6, Ends DEF EndSweep, OtherStep, At, Outside, Writes
  <2> QED
    BY <1>1, <2>1 DEF Writes, At
<1>7. CASE Crash
  <2>1. alerts' = alerts /\ now' = now /\ \A q \in Request : ~Writes(q)'
    BY <1>7 DEF Crash, Writes, At
  <2> QED
    BY <1>1, <2>1
<1>8. CASE UNCHANGED alertVars
  BY <1>1, <1>8 DEF alertVars, Writes, At
<1>9. CASE Tick
  <2>1. alerts' = alerts /\ reqs' = reqs
    BY <1>9 DEF Tick
  <2>2. \A a \in alerts : DaysUntil(a.due)' <= a.days
    <3> SUFFICES ASSUME NEW a \in alerts
                 PROVE  DaysUntil(a.due)' <= a.days
      OBVIOUS
    <3>1. a.due \in Date /\ a.days \in Nat /\ DaysUntil(a.due) <= a.days
      BY AlertTypes DEF Shrinking
    <3> QED
      BY <1>9, <3>1, TickShrinks, DaysAreInts
  <2>3. ASSUME NEW r \in Request, Writes(r)
        PROVE  DaysUntil(reqs[r].row.due)' <= reqs[r].days
    <3>1. reqs[r].row.due \in Date /\ reqs[r].days \in Nat
      BY <2>3, RunOf DEF Counting, Writes, At, Days
    <3>2. DaysUntil(reqs[r].row.due) <= reqs[r].days
      BY <2>3 DEF Shrinking
    <3>3. PICK date \in Date : date = reqs[r].row.due
      BY <3>1
    <3>4. DaysUntil(date)' <= reqs[r].days
      BY <1>9, <3>1, <3>2, <3>3, TickShrinks, DaysAreInts
    <3> QED
      BY <2>1, <3>3, <3>4 DEF DaysUntil
  <2> QED
    BY <2>1, <2>2, <2>3 DEF Shrinking, Writes, At, DaysUntil
<1> QED
  BY <1>2, <1>3, <1>4, <1>5, <1>6, <1>7, <1>8, <1>9, StepCases

LEMMA LatestNext ==
    ASSUME TypeOK, OneSweep, Counting, Shrinking, Latest, [Next]_vars
    PROVE  Latest'
<1>0. ASSUME now' = now
      PROVE  \A date : DaysUntil(date)' = DaysUntil(date)
  BY <1>0 DEF DaysUntil
<1>1. ASSUME NEW r \in Request, BeginSweep(r)
      PROVE  Latest'
  <2>1. ~SweepRuns /\ Begin(r, "check") /\ "check" \in Pc
    BY <1>1 DEF BeginSweep, Pc
  <2>2. /\ reqs'[r].row = row /\ reqs[r] = None
        /\ UNCHANGED <<now, row, alerts, noted>>
        /\ \A q \in Request \ {r} : reqs'[q] = reqs[q]
        /\ \A q \in Request, pc \in Sweep : At(q, pc)' => q = r /\ pc = "check"
    BY <2>1, Begins, NoSweepRuns DEF At, Sweep
  <2>3. \A a \in alerts' : reqs'[a.by] = Over \/ At(a.by, "rest")'
    BY <2>2, AlertTypes, Constants DEF Latest, At
  <2>4. Standing' = Standing
    BY <2>2 DEF Standing
  <2>5. After(row.due, row.last_day)'
    BY <1>0, <2>2, <2>4 DEF Latest, After
  <2>6. \A q \in Request : ~Writes(q)' /\ ~At(q, "queue")' /\ ~At(q, "mark")' /\ ~At(q, "clear")'
    BY <2>2 DEF Writes, Sweep
  <2>7. \A q \in Request : At(q, "check")' => q = r
    BY <2>2 DEF Sweep
  <2>8. After(reqs[r].row.due, reqs[r].row.last_day)'
    BY <2>2, <2>5 DEF After
  <2>9. OneAlertPerCountdown'
    BY <2>2 DEF Latest, OneAlertPerCountdown
  <2> QED
    BY <2>2, <2>3, <2>5, <2>6, <2>7, <2>8, <2>9 DEF Latest
<1>2. ASSUME NEW r \in Request, Check(r)
      PROVE  Latest'
  <2>1. PICK pc \in {"rest", "mark", "clear"} :
          /\ Moves(r, pc)
          /\ pc # "rest" => /\ reqs'[r].days \in Days
                            /\ reqs'[r].days = DaysUntil(reqs[r].row.due)
                            /\ reqs'[r].days # reqs[r].row.last_day
    BY <1>2, Checks
  <2>2. /\ At(r, "check") /\ Sweeping(r) /\ ~At(r, "rest") /\ pc \in Sweep \ {"check"}
        /\ UNCHANGED <<now, row, alerts, noted>>
    BY <1>2, SweepSteps DEF Check, Sweep
  <2>3. After(row.due, row.last_day)'
    BY <1>0, <2>2 DEF Latest, After, Standing
  <2>4. ASSUME pc # "rest", NEW a \in Standing, a.due = reqs[r].row.due
        PROVE  reqs'[r].days < a.days
    <3>1. a.days = reqs[r].row.last_day \/ DaysUntil(a.due) < a.days
      BY <2>2, <2>4 DEF Latest, After
    <3>2. DaysUntil(a.due) <= a.days /\ a.days \in Nat
      BY AlertTypes DEF Shrinking, Standing
    <3>3. reqs'[r].days \in Nat /\ reqs'[r].days = DaysUntil(a.due) /\ reqs'[r].days # reqs[r].row.last_day
      BY <2>1, <2>4 DEF Days
    <3> QED
      BY <3>1, <3>2, <3>3
  <2>5. reqs[r].row = row' \/ noted' = {}
    BY <2>2 DEF Latest
  <2>6. pc # "queue"
    OBVIOUS
  <2> QED
    BY <2>1, <2>2, <2>3, <2>4, <2>5, <2>6, LatestSweep
<1>3. ASSUME NEW r \in Request, Mark(r)
      PROVE  Latest'
  <2>1. /\ At(r, "mark") /\ Writes(r) /\ Sweeping(r) /\ ~At(r, "rest") /\ GoTo(r, "queue")
        /\ "queue" \in (Sweep \ {"check"}) \cap Pc /\ reqs[r] \notin {None, Over}
        /\ alerts' = alerts /\ now' = now /\ noted' = noted \cup {r}
        /\ row' = [row EXCEPT !.insufficient = TRUE, !.last_day = reqs[r].days]
    BY <1>3, SweepSteps DEF Mark, Sweep, Pc, Writes
  <2>2. Moves(r, "queue") /\ reqs'[r].days = reqs[r].days
    BY <2>1, Goes
  <2>3. row'.due = row.due /\ row'.last_day = reqs[r].days
    BY <2>1, Types DEF Row
  <2>4. \A a \in Standing : a.due = reqs[r].row.due => reqs[r].days < a.days
    BY <2>1 DEF Latest
  <2>5. After(row.due, row.last_day)'
    <3> SUFFICES ASSUME NEW a \in Standing', a.due = row'.due
                 PROVE  DaysUntil(a.due)' < a.days
      BY DEF After
    <3>1. a \in alerts /\ a.by # r /\ a \in Standing
      BY <2>1, AlertTypes DEF Standing, Latest, Sweeping
    <3>2. reqs[r].row = row
      BY <2>1, <3>1 DEF Latest, Standing
    <3>3. reqs[r].days < a.days /\ DaysUntil(reqs[r].row.due) <= reqs[r].days
      BY <2>1, <2>3, <2>4, <3>1, <3>2 DEF Shrinking
    <3>4. a.days \in Nat /\ reqs[r].days \in Nat /\ DaysUntil(a.due) \in Int
      BY <2>1, <3>1, AlertTypes, DaysAreInts DEF Counting, Days
    <3>5. DaysUntil(a.due) < a.days
      BY <2>3, <3>2, <3>3, <3>4
    <3> QED
      BY <1>0, <2>1, <3>5
  <2> QED
    BY <2>1, <2>2, <2>3, <2>4, <2>5, LatestSweep
<1>4. ASSUME NEW r \in Request, GiveUp(r) \/ Clear(r)
      PROVE  Latest'
  <2>1. /\ Sweeping(r) /\ ~At(r, "rest") /\ GoTo(r, "rest")
        /\ "rest" \in (Sweep \ {"check"}) \cap Pc /\ reqs[r] \notin {None, Over}
        /\ UNCHANGED <<alerts, now, noted>>
    BY <1>4, SweepSteps DEF GiveUp, Clear, Sweep, Pc
  <2>2. Moves(r, "rest")
    BY <2>1, Goes
  <2>3. After(row.due, row.last_day)'
    <3>1. CASE GiveUp(r)
      BY <1>0, <2>1, <3>1 DEF GiveUp, Latest, After, Standing
    <3>2. CASE Clear(r)
      <4> SUFFICES ASSUME NEW a \in Standing', a.due = row'.due
                   PROVE  DaysUntil(a.due)' < a.days
        BY DEF After
      <4>1. a \in Standing /\ a \in alerts /\ row'.due = row.due
        BY <2>1, <3>2, Types DEF Standing, Clear, Row
      <4>2. Writes(r) /\ reqs[r].row = row
        BY <3>2, <4>1 DEF Clear, Writes, Latest, Standing
      <4>3. reqs[r].days < a.days /\ DaysUntil(reqs[r].row.due) <= reqs[r].days
        BY <4>1, <4>2 DEF Shrinking, Latest
      <4>4. a.days \in Nat /\ reqs[r].days \in Nat /\ DaysUntil(a.due) \in Int
        BY <3>2, <4>1, AlertTypes, DaysAreInts DEF Counting, Days, Clear
      <4>5. DaysUntil(a.due) < a.days
        BY <4>1, <4>2, <4>3, <4>4
      <4> QED
        BY <1>0, <2>1, <4>5
    <3> QED
      BY <1>4, <3>1, <3>2
  <2> QED
    BY <2>1, <2>2, <2>3, LatestSweep
<1>5. ASSUME NEW r \in Request, Queue(r)
      PROVE  Latest'
  <2> DEFINE a == [due |-> reqs[r].row.due, days |-> reqs[r].days, by |-> r]
  <2>1. /\ At(r, "queue") /\ Writes(r) /\ Sweeping(r) /\ ~At(r, "rest") /\ GoTo(r, "rest")
        /\ "rest" \in (Sweep \ {"check"}) \cap Pc /\ reqs[r] \notin {None, Over}
        /\ UNCHANGED <<now, row, noted>>
    BY <1>5, SweepSteps DEF Queue, Sweep, Pc, Writes
  <2>2. Moves(r, "rest")
    BY <2>1, Goes
  <2>3. CASE alerts' = alerts
    <3>1. After(row.due, row.last_day)'
      BY <1>0, <2>1, <2>3 DEF Latest, After, Standing
    <3> QED
      BY <2>1, <2>2, <2>3, <3>1, LatestSweep
  <2>4. CASE alerts' = alerts \cup {a}
    <3>1. \A q \in Request, p2 \in Sweep : At(q, p2)' => q = r /\ p2 = "rest"
      BY <2>1, <2>2, OnlySweep
    <3>2. \A b \in alerts' : reqs'[b.by] = Over \/ At(b.by, "rest")'
      <4>1. At(r, "rest")'
        BY <2>2 DEF Moves, At
      <4>2. \A b \in alerts : b.by \in Request /\ b.by # r
        BY <2>1, AlertTypes DEF Latest, Sweeping
      <4> QED
        BY <2>2, <2>4, <4>1, <4>2 DEF Latest, Moves, At
    <3>3. \A b \in alerts' : b \in alerts \/ b = a
      BY <2>4
    <3>4. r \in noted => row.last_day = a.days
      BY <2>1 DEF Latest
    <3>5. After(row.due, row.last_day)'
      <4> SUFFICES ASSUME NEW b \in Standing', b.due = row'.due
                   PROVE  b.days = row'.last_day \/ DaysUntil(b.due)' < b.days
        BY DEF After
      <4>1. CASE b = a
        BY <2>1, <3>4, <4>1 DEF Standing
      <4>2. CASE b \in alerts
        <5>1. b \in Standing
          BY <2>1, <4>2 DEF Standing
        <5> QED
          BY <1>0, <2>1, <5>1 DEF Latest, After
      <4> QED
        BY <3>3, <4>1, <4>2 DEF Standing
    <3>6. OneAlertPerCountdown'
      <4>1. \A b \in Standing : b.due = a.due => a.days < b.days
        BY <2>1 DEF Latest
      <4>2. a.days \in Nat
        BY <2>1 DEF Counting, Days
      <4>3. \A b \in Standing : ~(b.due = a.due /\ b.days = a.days)
        BY <4>1, <4>2
      <4> QED
        BY <2>1, <3>3, <4>3 DEF Latest, OneAlertPerCountdown, Standing
    <3>7. \A q \in Request : ~Writes(q)' /\ ~At(q, "check")' /\ ~At(q, "queue")'
                             /\ ~At(q, "mark")' /\ ~At(q, "clear")'
      BY <3>1 DEF Writes, Sweep
    <3> QED
      BY <3>2, <3>5, <3>6, <3>7 DEF Latest
  <2> QED
    BY <1>5, <2>3, <2>4 DEF Queue
<1>6. ASSUME NEW r \in Request, EndSweep(r)
      PROVE  Latest'
  <2>1. /\ reqs'[r] = Over /\ \A q \in Request \ {r} : reqs'[q] = reqs[q]
        /\ UNCHANGED <<now, row, alerts, noted>>
    BY <1>6, Ends DEF EndSweep
  <2> QED
    BY <2>1, LatestFrame DEF At
<1>7. ASSUME NEW r \in Request, OtherStep(r)
      PROVE  Latest'
  <2>1. /\ UNCHANGED <<now, alerts>> /\ (UNCHANGED <<row, noted>> \/ noted' = {})
        /\ \A q \in Request \ {r} : reqs'[q] = reqs[q]
        /\ reqs[r] # Over /\ ~At(r, "rest")
        /\ \A pc \in Sweep : ~At(r, pc)'
    BY <1>7 DEF OtherStep, At, Outside, Sweep, Sweeping
  <2> QED
    BY <2>1, LatestFrame DEF At, Sweep
<1>8. CASE Tick
  <2>1. UNCHANGED <<row, alerts, noted, reqs>>
    BY <1>8 DEF Tick
  <2>2. Standing' = Standing /\ OneAlertPerCountdown'
    BY <2>1 DEF Standing, Latest, OneAlertPerCountdown
  <2>3. \A b \in Standing : DaysUntil(b.due) < b.days => DaysUntil(b.due)' < b.days
    <3> SUFFICES ASSUME NEW b \in alerts, DaysUntil(b.due) < b.days
                 PROVE  DaysUntil(b.due)' < b.days
      BY DEF Standing
    <3>1. b.due \in Date /\ b.days \in Nat
      BY AlertTypes
    <3> QED
      BY <1>8, <3>1, TickShrinks, DaysAreInts
  <2>4. After(row.due, row.last_day)'
    BY <2>1, <2>2, <2>3 DEF Latest, After, DaysUntil
  <2>5. ASSUME NEW r \in Request, At(r, "check")
        PROVE  After(reqs[r].row.due, reqs[r].row.last_day)'
    BY <2>1, <2>2, <2>3, <2>5 DEF Latest, After, DaysUntil
  <2> QED
    BY <2>1, <2>2, <2>4, <2>5 DEF Latest, At, Writes
<1>9. CASE Crash
  <2>1. UNCHANGED <<now, alerts, row, noted>> /\ \A q \in Request : reqs'[q] \in {None, Over}
    BY <1>9 DEF Crash
  <2>2. \A q \in Request : reqs[q] = Over \/ At(q, "rest") => reqs'[q] = Over
    BY <1>9, Constants DEF Crash, At
  <2>3. \A q \in Request, pc \in Sweep : ~At(q, pc)'
    BY <2>1 DEF At
  <2> QED
    BY <2>1, <2>2, <2>3, LatestFrame DEF Sweep
<1>10. CASE UNCHANGED alertVars
  <2>1. UNCHANGED <<now, alerts, row, noted, reqs>>
    BY <1>10 DEF alertVars
  <2> QED
    BY <2>1, LatestFrame DEF At
<1> QED
  BY <1>1, <1>2, <1>3, <1>4, <1>5, <1>6, <1>7, <1>8, <1>9, <1>10, StepCases

(***************************************************************************)
(* The theorems.                                                           *)
(***************************************************************************)
IInv == TypeOK /\ QueueInv /\ Unposted /\ OneSweep /\ Counting /\ NotesHold
        /\ Shrinking /\ Latest

LEMMA InitIInv == Init => IInv
<1> SUFFICES ASSUME Init
             PROVE  IInv
  OBVIOUS
<1>1. TypeOK
  BY InitType
<1>2. \A r \in Request : /\ reqs[r] = None /\ jobs[r] = None /\ ~Held(r) /\ Untold(r)
  BY DEF Init, NoticesInit, Held, Untold
<1>3. \A r \in Request : ~Sweeping(r) /\ \A pc : ~At(r, pc)
  BY <1>2 DEF At, Sweeping
<1>4. QueueInv
  BY <1>1, <1>2 DEF QueueInv, TypeOK, JobInv
<1>5. Unposted /\ OneSweep /\ Counting
  BY <1>2, <1>3 DEF Unposted, OneSweep, Counting
<1>6. NotesHold
  <2>1. row.last_day = None
    BY DEF Init
  <2> QED
    BY <1>3, <2>1 DEF Init, NotesHold, Noted, Seen, SilentTold
<1>7. Shrinking /\ Latest
  BY <1>3 DEF Init, Shrinking, Latest, Writes, After, Standing, OneAlertPerCountdown
<1> QED
  BY <1>1, <1>4, <1>5, <1>6, <1>7 DEF IInv

LEMMA NextIInv == IInv /\ [Next]_vars => IInv'
<1> SUFFICES ASSUME IInv, [Next]_vars
             PROVE  IInv'
  OBVIOUS
<1>1. QueueInv' /\ Unposted'
  BY QueueNext DEF IInv
<1>2. TypeOK'
  BY <1>1, NextType DEF IInv, QueueInv
<1> QED
  BY <1>1, <1>2, OneSweepNext, CountingNext, NotesNext, ShrinkingNext, LatestNext DEF IInv

LEMMA AlwaysIInv == Spec => []IInv
BY InitIInv, NextIInv, PTL DEF Spec

\* Every variable stays in its type, in particular every last_day a sweep
\* notes is a number of days within the window.
THEOREM TypeCorrect == Spec => []TypeOK
<1>1. IInv => TypeOK
  BY DEF IInv
<1> QED
  BY <1>1, AlwaysIInv, PTL

\* checkUpcomingBalanceAlerts is silent about a schedule only after an alert
\* with as many days for that date was queued, or lost between its note and the
\* queue, unless an update moved the date the note was made for.
THEOREM SilentOnlyAfterAlert == Spec => []SilentAfterAlert
<1>1. IInv => SilentAfterAlert
  <2> SUFFICES ASSUME IInv, NEW s \in silent
               PROVE  s \in lost \/ \E a \in alerts : a.due = s.due /\ a.days = s.days
    BY DEF SilentAfterAlert
  <2>1. Told(s.due, s.days)
    BY DEF IInv, NotesHold, SilentTold
  <2>2. s = [due |-> s.due, days |-> s.days]
    BY DEF IInv, TypeOK, Countdown
  <2> QED
    BY <2>1, <2>2 DEF Told
<1> QED
  BY <1>1, AlwaysIInv, PTL

\* checkUpcomingBalanceAlerts queues one alert for a date and a number of days,
\* at whatever times it runs or is repeated, unless others write the row.
THEOREM OneAlertForACountdown == Spec => []OneAlertPerCountdown
<1>1. IInv => OneAlertPerCountdown
  BY DEF IInv, Latest
<1> QED
  BY <1>1, AlwaysIInv, PTL

\* processNotification has told each target of a job that completed, repeats
\* itself only after a run that was cut short, and tells nobody but its owner
\* of a job for "self".
THEOREM JobsTellTheirTargets == Spec => []EverybodyIsTold
<1>1. IInv => EverybodyIsTold
  BY DEF IInv, QueueInv, JobInv, EverybodyIsTold
<1> QED
  BY <1>1, AlwaysIInv, PTL
=============================================================================
