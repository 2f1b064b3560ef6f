------------------------------ MODULE Notices ------------------------------
(***************************************************************************)
(* The notification queue and its worker: each job tells a set of users,   *)
(* one after the other, and is run again from the start when it throws or  *)
(* the process dies.  Mails, texts and pushed events, whose errors are     *)
(* swallowed, are left out, and so is the webhook of the tenant, which is  *)
(* tried once for each run that gets to its end.                           *)
(*                                                                         *)
(* Definitions that are not used are wrong variants of the ones that       *)
(* follow (see Payments).                                                  *)
(***************************************************************************)
EXTENDS Naturals, FiniteSets

CONSTANTS
    Requests,   \* how many runs may queue jobs
    User, Attempts, None,
    Owner       \* the user of the payload, whom a job for "self" is for

VARIABLES
    active,     \* users of the notified role whose status is active
    jobs, worker,
    notices     \* notifications: whether each user has none, 1 or more (2) from a job

noticeVars == <<active, jobs, worker, notices>>

\* What may queue a job, at most one each.
Request == 1..Requests

\* targets is what the last run of the job resolved, cut whether a run ended
\* before its end; both are history.
Job == [to: {"self", "role"}, status: {"waiting", "completed", "failed"}, tries: 0..Attempts,
        targets: SUBSET User, cut: BOOLEAN]
Work == [job: Request, left: SUBSET User]

ASSUME NoticesAssumption ==
    /\ Requests \in Nat /\ Attempts \in Nat \ {0} /\ Owner \in User
    /\ None \notin Job \cup Work

NoticesTypeOK ==
    /\ active \subseteq User
    /\ jobs \in [Request -> Job \cup {None}]
    /\ worker \in Work \cup {None}
    /\ notices \in [Request -> [User -> 0..2]]

NoticesInit ==
    /\ active = User
    /\ jobs = [r \in Request |-> None]
    /\ worker = None
    /\ notices = [r \in Request |-> [u \in User |-> 0]]

----------------------------------------------------------------------------
\* add, with attempts: 3.
Post(r, to) ==
    /\ jobs' = [jobs EXCEPT ![r] = [to |-> to, status |-> "waiting", tries |-> 0,
                                    targets |-> {}, cut |-> FALSE]]
    /\ UNCHANGED <<active, worker, notices>>

\* resolveTargetUsers: "self", or whoever has the role and is active now.
TargetUsers(to) == IF to = "role" THEN active ELSE {Owner}

\* A job that waits is taken, in any order: retries are delayed.
Take(r) ==
    /\ worker = None /\ jobs[r] # None /\ jobs[r].status = "waiting"
    /\ worker' = [job |-> r, left |-> TargetUsers(jobs[r].to)]
    /\ jobs' = [jobs EXCEPT ![r].targets = TargetUsers(jobs[r].to)]
    /\ UNCHANGED <<active, notices>>

\* processNotification, for one user, who is there: nothing deletes users.
Notify(u) ==
    /\ worker # None /\ u \in worker.left
    /\ worker' = [worker EXCEPT !.left = @ \ {u}]
    /\ notices' = [notices EXCEPT ![worker.job][u] = IF @ = 0 THEN 1 ELSE 2]
    /\ UNCHANGED <<active, jobs>>

CompleteAtOnce ==
    /\ worker # None
    /\ worker' = None
    /\ jobs' = [jobs EXCEPT ![worker.job].status = "completed"]
    /\ UNCHANGED <<active, notices>>
Complete ==
    /\ worker # None /\ worker.left = {}
    /\ worker' = None
    /\ jobs' = [jobs EXCEPT ![worker.job].status = "completed"]
    /\ UNCHANGED <<active, notices>>

\* A query fails: the job throws, and waits again unless it was the last attempt.
Throw ==
    /\ worker # None
    /\ worker' = None
    /\ LET job == jobs[worker.job] IN
         jobs' = [jobs EXCEPT ![worker.job].tries = @ + 1, ![worker.job].cut = TRUE,
                    ![worker.job].status = IF job.tries + 1 < Attempts THEN "waiting" ELSE "failed"]
    /\ UNCHANGED <<active, notices>>

\* The process dies with the worker; the stalled job is handed out again.
Stall ==
    /\ worker' = None
    /\ jobs' = IF worker = None THEN jobs ELSE [jobs EXCEPT ![worker.job].cut = TRUE]
    /\ UNCHANGED <<active, notices>>

\* updateUserStatus.
UpdateUserStatus(u) ==
    /\ active' = IF u \in active THEN active \ {u} ELSE active \cup {u}
    /\ UNCHANGED <<jobs, worker, notices>>

NoticesNext ==
    \/ \E r \in Request : Take(r)
    \/ \E u \in User : Notify(u)
    \/ Complete \/ Throw

----------------------------------------------------------------------------
(* Properties.                                                             *)

\* A completed job has told each user it was for.  Nobody is told twice but by
\* another run after one that threw or died, and nobody whom no run was for.
EverybodyIsTold ==
    \A r \in Request : jobs[r] # None =>
        /\ jobs[r].status = "completed" => \A u \in jobs[r].targets : notices[r][u] > 0
        /\ \A u \in User : notices[r][u] > 1 => jobs[r].cut
        /\ jobs[r].to = "self" => \A u \in User \ {Owner} : notices[r][u] = 0
=============================================================================
