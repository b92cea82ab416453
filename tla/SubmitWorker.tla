---------------------------- MODULE SubmitWorker ----------------------------
(***************************************************************************)
(* FeatureQueueProcessor in the worker process: a job makes the provider   *)
(* start the task and moves it out of PENDING.  Every slot runs one        *)
(* handler.  Bull may give up on a handler (timeout, stall) while it is    *)
(* still running; the handler then goes on without a job, and the job is   *)
(* delivered again.                                                        *)
(***************************************************************************)
EXTENDS Billing, TaskStore, SubmitQueue

CONSTANTS
  Routed,        \* the tasks whose provider has an adapter in the worker
  Synchronous    \* the tasks whose provider answers submitTask with a result

VARIABLE worker   \* worker[w] : the handler in slot w

WorkerPc ==
  {"idle", "loading", "unroutable", "submitting", "accepted", "answered",
   "fatal", "settling", "refunding"}

NoHandler == [pc |-> "idle", task |-> None, job |-> 0]

(* job is 0 once Bull has given up on the handler *)
Handlers ==
  {NoHandler} \cup [pc : WorkerPc \ {"idle"}, task : Tasks, job : JobIds \cup {0}]

WorkerType == worker \in [Workers -> Handlers]

WorkerInit == worker = [w \in Workers |-> NoHandler]

WorkerAt(w, pc) == worker[w].pc = pc
WorkerTo(w, pc) == worker' = [worker EXCEPT ![w].pc = pc]

(* The handler returns, or throws, and Bull is told unless it gave up *)
Return(w) ==
  LET j == worker[w].job IN
  /\ worker' = [worker EXCEPT ![w] = NoHandler]
  /\ job' = IF j = 0 THEN job ELSE [job EXCEPT ![j].state = "completed"]

Throw(w) ==
  LET j == worker[w].job IN
  /\ worker' = [worker EXCEPT ![w] = NoHandler]
  /\ job' = IF j = 0 THEN job ELSE AttemptFailed(job, j)

-----------------------------------------------------------------------------
TakeJob(w, j) ==
  /\ WorkerAt(w, "idle")
  /\ job[j].state = "waiting"
  /\ job' = [job EXCEPT ![j].state = "active"]
  /\ worker' = [worker EXCEPT ![w] = [pc |-> "loading", task |-> job[j].task, job |-> j]]
  /\ UNCHANGED <<billingVars, storeVars>>

(* The status is looked at here and not again before the submission *)
LoadTask(w) ==
  LET t == worker[w].task IN
  /\ WorkerAt(w, "loading")
  /\ \/ /\ task[t].status # "PENDING"
        /\ Return(w)
     \/ /\ task[t].status = "PENDING"
        /\ WorkerTo(w, IF t \in Routed THEN "submitting" ELSE "unroutable")
        /\ UNCHANGED job
  /\ UNCHANGED <<billingVars, storeVars>>

(* Mutant of SubmitThrows: a limited job returns instead of throwing *)
SubmitGivesWay(w) ==
  /\ WorkerAt(w, "submitting")
  /\ Return(w)
  /\ UNCHANGED <<billingVars, storeVars>>

(* The provider's rate or concurrency limit is reached, the provider       *)
(* fails in a way that is to be retried, or a store does.                  *)
SubmitThrows(w) ==
  /\ \/ WorkerAt(w, "submitting")
     \/ /\ "storeError" \in Environment
        /\ worker[w].pc \in {"loading", "unroutable", "fatal"}
  /\ Throw(w)
  /\ UNCHANGED <<billingVars, storeVars>>

(* No adapter: the task fails and its estimate stays frozen *)
FailUnroutable(w) ==
  /\ WorkerAt(w, "unroutable")
  /\ UpdateStatus(worker[w].task, {"PENDING"}, "FAILED")
  /\ Return(w)
  /\ UNCHANGED <<billingVars, provider>>

(* The provider accepted the task, though the answer may be lost on the    *)
(* way: an error without an HTTP status is not retryable for an adapter, a *)
(* 5xx status is, and the task is then submitted again.                    *)
Submit(w) ==
  LET t == worker[w].task IN
  /\ WorkerAt(w, "submitting")
  /\ provider' = [provider EXCEPT ![t] =
       CASE @ # "none" -> @
         [] @ = "none" /\ t \in Synchronous -> "succeeded"
         [] OTHER -> "running"]
  /\ \/ /\ \/ WorkerTo(w, IF t \in Synchronous THEN "answered" ELSE "accepted")
           \/ WorkerTo(w, "fatal")
        /\ UNCHANGED job
     \/ Throw(w)
  /\ UNCHANGED <<billingVars, task, ahead>>

SubmitRefused(w) ==
  /\ WorkerAt(w, "submitting")
  /\ WorkerTo(w, "fatal")
  /\ UNCHANGED <<billingVars, storeVars, job>>

(* An exception between the answer and the update of the task is mapped as *)
(* if the provider had thrown it.                                          *)
SaveThrows(w) ==
  /\ "storeError" \in Environment
  /\ worker[w].pc \in {"accepted", "answered"}
  /\ WorkerTo(w, "fatal")
  /\ UNCHANGED <<billingVars, storeVars, job>>

SaveAccepted(w) ==
  /\ WorkerAt(w, "accepted")
  /\ UpdateStatus(worker[w].task, {"PENDING"}, "SUBMITTED")
  /\ Return(w)
  /\ UNCHANGED <<billingVars, provider>>

(* A synchronous result ends the task first and is charged afterwards,     *)
(* whether or not the update found the task pending.                       *)
SaveAnswer(w) ==
  LET t == worker[w].task IN
  /\ WorkerAt(w, "answered")
  /\ UpdateStatus(t, {"PENDING"}, "SUCCESS")
  /\ Begin(w, t, "settle")
  /\ WorkerTo(w, "settling")
  /\ UNCHANGED <<wallet, record, held, debits, provider, job>>

FailSubmission(w) ==
  LET t == worker[w].task IN
  /\ WorkerAt(w, "fatal")
  /\ UpdateStatus(t, {"PENDING"}, "FAILED")
  /\ Begin(w, t, "refund")
  /\ WorkerTo(w, "refunding")
  /\ UNCHANGED <<wallet, record, held, debits, provider, job>>

(* Settled or refunded, or not: an exception is logged and swallowed *)
FinishJob(w) ==
  /\ worker[w].pc \in {"settling", "refunding"}
  /\ call[w].step \in Ended
  /\ Forget(w)
  /\ Return(w)
  /\ UNCHANGED <<wallet, record, held, debits, storeVars>>

-----------------------------------------------------------------------------
WorkerDies(w) ==
  /\ "crash" \in Environment
  /\ ~WorkerAt(w, "idle")
  /\ worker' = [worker EXCEPT ![w] = NoHandler]
  /\ Forget(w)
  /\ UNCHANGED <<wallet, record, held, debits, storeVars, job>>

Orphaned(j) == \A w \in Workers : worker[w].job # j

(* Bull takes back an active job: its worker died, or the handler ran into *)
(* the timeout and is left running.                                        *)
TakeBack(j) ==
  /\ job[j].state = "active"
  /\ Orphaned(j) \/ "overrun" \in Environment
  /\ job' = AttemptFailed(job, j)
  /\ worker' = [w \in Workers |->
       IF worker[w].job = j THEN [worker[w] EXCEPT !.job = 0] ELSE worker[w]]
  /\ UNCHANGED <<billingVars, storeVars>>

BackoffEnds(j) == Promote(j) /\ UNCHANGED <<billingVars, storeVars, worker>>

WorkerStep ==
  \/ \E w \in Workers :
       \/ \E j \in JobIds : TakeJob(w, j)
       \/ LoadTask(w) \/ SubmitThrows(w) \/ FailUnroutable(w)
       \/ Submit(w) \/ SubmitRefused(w) \/ SaveThrows(w)
       \/ SaveAccepted(w) \/ SaveAnswer(w) \/ FailSubmission(w)
       \/ FinishJob(w) \/ WorkerDies(w)
  \/ \E j \in JobIds : TakeBack(j) \/ BackoffEnds(j)
=============================================================================
