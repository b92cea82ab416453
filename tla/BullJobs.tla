------------------------------ MODULE BullJobs ------------------------------
(***************************************************************************)
(* The jobs of one Bull queue, by id, as the options of model-hub's queues *)
(* have them: completed jobs are removed, failed ones stay.                *)
(***************************************************************************)
EXTENDS Integers

CONSTANT MaxStalls  \* Bull's maxStalledCount

JobState == {"absent", "waiting", "active", "delayed", "failed"}
Job == [state : JobState, attempts : Nat, stalls : Nat]
NoJob == [state |-> "absent", attempts |-> 0, stalls |-> 0]

(* A job whose id is taken is not added, be the other one done for or not *)
Added(queue, j) ==
  [queue EXCEPT ![j] = IF @ = NoJob THEN [NoJob EXCEPT !.state = "waiting"] ELSE @]

Promoted(queue, j) == [queue EXCEPT ![j].state = "waiting"]
Taken(queue, j) == [queue EXCEPT ![j].state = "active"]

(* removeOnComplete *)
Completed(queue, j) == [queue EXCEPT ![j] = NoJob]

(* removeOnFail: false *)
AttemptFailed(queue, j, limit) ==
  [queue EXCEPT
     ![j].attempts = @ + 1,
     ![j].state = IF queue[j].attempts + 1 < limit THEN "delayed" ELSE "failed"]

(* The handler of an active job is gone: back to the queue, at most        *)
(* MaxStalls times, without counting an attempt.                           *)
Stalled(queue, j) ==
  [queue EXCEPT
     ![j].stalls = @ + 1,
     ![j].state = IF queue[j].stalls < MaxStalls THEN "waiting" ELSE "failed"]

(* Bull gives up a job whose handlers died once too often *)
Lost(job) == job.stalls > MaxStalls
=============================================================================
