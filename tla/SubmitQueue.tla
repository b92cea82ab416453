----------------------------- MODULE SubmitQueue ----------------------------
(***************************************************************************)
(* The Bull queue of submit jobs, as DEFAULT_QUEUE_OPTIONS configures it:  *)
(* a job is delivered at least once; a handler that throws, stalls or      *)
(* exceeds the timeout costs an attempt; after the last one the job is     *)
(* failed and nobody is told.  A job does not identify its task: the same  *)
(* task may have several jobs.                                             *)
(***************************************************************************)
EXTENDS HubParams

CONSTANTS
  MaxJobs,       \* bound: jobs ever added
  MaxAttempts    \* DEFAULT_QUEUE_OPTIONS.attempts

ASSUME QueueAssumption == MaxJobs \in Nat \ {0} /\ MaxAttempts \in Nat \ {0}

VARIABLE job     \* job[j] : the j-th job added

JobIds == 1..MaxJobs

JobState == {"unused", "waiting", "active", "delayed", "completed", "failed"}

JobType == [JobIds -> [state : JobState, task : Tasks \cup {None},
                       attempts : 0..MaxAttempts]]

QueueInit ==
  job = [j \in JobIds |-> [state |-> "unused", task |-> None, attempts |-> 0]]

(* The state of the queue after a job for t is added to q *)
WithJob(q, t) ==
  [q EXCEPT ![CHOOSE j \in JobIds :
                /\ q[j].state = "unused"
                /\ \A i \in JobIds : q[i].state = "unused" => j <= i]
     = [state |-> "waiting", task |-> t, attempts |-> 0]]

CanAdd == \E j \in JobIds : job[j].state = "unused"

(* removeJob scans the waiting jobs only and removes the first match *)
WaitingFor(t) == { j \in JobIds : job[j].state = "waiting" /\ job[j].task = t }

Removed(q, j) == [q EXCEPT ![j].state = "completed"]

(* Mutant of AttemptFailed: a failed job is retried for ever *)
RetriedForEver(q, j) ==
  [q EXCEPT ![j] = [state |-> "delayed", task |-> @.task, attempts |-> @.attempts + 1]]

(* An attempt failed: retried later, or given up with the last one *)
AttemptFailed(q, j) ==
  [q EXCEPT ![j] =
    [state |-> IF @.attempts + 1 < MaxAttempts THEN "delayed" ELSE "failed",
     task |-> @.task, attempts |-> @.attempts + 1]]

(* The exponential backoff is over *)
Promote(j) ==
  /\ job[j].state = "delayed"
  /\ job' = [job EXCEPT ![j].state = "waiting"]
=============================================================================
