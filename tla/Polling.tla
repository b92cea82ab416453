------------------------------- MODULE Polling ------------------------------
(***************************************************************************)
(* PollingScheduler and PollingService in the scheduler process: every 30  *)
(* seconds a cron handler takes the Redis lock polling:scheduler, reads a  *)
(* batch of due tasks and polls them one after the other.  The lock lapses *)
(* after lockTtlMs whatever its holder does, and each task is handled from *)
(* the copy the batch was read with.                                       *)
(***************************************************************************)
EXTENDS Billing, TaskStore

CONSTANTS
  Traceable,   \* the tasks whose provider returned an id to ask for, and has
               \* an adapter in the scheduler process
  BatchSize    \* polling.batchSize

ASSUME PollAssumption == BatchSize \in Nat \ {0}

VARIABLES
  poller,    \* poller[p] : one cron handler in flight
  lock       \* the holder of the lock polling:scheduler

pollVars == <<poller, lock>>

PollerPc ==
  {"idle", "scanning", "polling", "succeeded", "failed", "fatal",
   "retryable", "processing", "settling", "refunding"}

(* What the batch remembers of a task *)
Copies == [task : Tasks, status : {"SUBMITTED", "PROCESSING"}, polls : Nat]

NoCopy == [task |-> None, status |-> "absent", polls |-> 0]

Idle == [pc |-> "idle", batch |-> {}, current |-> NoCopy]

PollType ==
  /\ poller \in [Pollers -> [pc : PollerPc, batch : SUBSET Copies,
                             current : Copies \cup {NoCopy}]]
  /\ lock \in Pollers \cup {None}

PollInit ==
  /\ poller = [p \in Pollers |-> Idle]
  /\ lock = None

PollerAt(p, pc) == poller[p].pc = pc
PollerTo(p, pc) == poller' = [poller EXCEPT ![p].pc = pc]
Current(p) == poller[p].current.task

(* Done with the current task: on to the rest of the batch *)
NextInBatch(p) ==
  poller' = [poller EXCEPT ![p] =
    [pc |-> "polling", batch |-> @.batch, current |-> NoCopy]]

(* The copy s is taken from the batch and worked on *)
WorkOn(p, s, pc) ==
  poller' = [poller EXCEPT ![p] =
    [pc |-> pc, batch |-> @.batch \ {s}, current |-> s]]

Between(p) == PollerAt(p, "polling") /\ poller[p].current = NoCopy

-----------------------------------------------------------------------------
(* SET lock:polling:scheduler NX PX: a handler that does not get it returns *)
AcquireLock(p) ==
  /\ PollerAt(p, "idle")
  /\ lock = None
  /\ lock' = p
  /\ PollerTo(p, "scanning")
  /\ UNCHANGED <<billingVars, storeVars>>

CopyOf(t) == [task |-> t, status |-> task[t].status, polls |-> task[t].polls]

(* The handler goes on with copies of these tasks *)
ReadBatch(p, tasks) ==
  poller' = [poller EXCEPT ![p] =
    [pc |-> "polling", current |-> NoCopy, batch |-> { CopyOf(t) : t \in tasks }]]

(* Mutant of FindPollable: the limit without the order *)
FindUnsorted(p) ==
  /\ PollerAt(p, "scanning")
  /\ \E tasks \in SUBSET { t \in Tasks : Pollable(t) } :
       /\ Cardinality(tasks) = Cardinality(FirstDue(BatchSize))
       /\ ReadBatch(p, tasks)
  /\ UNCHANGED <<billingVars, storeVars, lock>>

FindPollable(p) ==
  /\ PollerAt(p, "scanning")
  /\ ReadBatch(p, FirstDue(BatchSize))
  /\ UNCHANGED <<billingVars, storeVars, lock>>

(* The release deletes the lock only if it still holds this token *)
ReleaseLock(p) ==
  /\ Between(p)
  /\ poller[p].batch = {}
  /\ poller' = [poller EXCEPT ![p] = Idle]
  /\ lock' = IF lock = p THEN None ELSE lock
  /\ UNCHANGED <<billingVars, storeVars>>

(* Without an adapter or a provider task id there is nothing to ask, and   *)
(* the task is passed over before its age is looked at.  Its nextPollAt    *)
(* stays: it is at the head of the next batch again.                       *)
SkipUntraceable(p, s) ==
  /\ Between(p)
  /\ s.task \notin Traceable
  /\ poller' = [poller EXCEPT ![p].batch = @ \ {s}]
  /\ UNCHANGED <<billingVars, storeVars, lock>>

(* One poll too many, counting from the copy, or too old *)
TimedOut(s) == s.polls + 1 > MaxPollCount \/ task[s.task].overdue

(* Mutant of TimeOut: the refund is forgotten *)
TimeOutUnrefunded(p, s) ==
  /\ Between(p)
  /\ s.task \in Traceable
  /\ TimedOut(s)
  /\ UpdateStatus(s.task, {"SUBMITTED", "PROCESSING"}, "TIMEOUT")
  /\ poller' = [poller EXCEPT ![p].batch = @ \ {s}]
  /\ UNCHANGED <<billingVars, provider, lock>>

TimeOut(p, s) ==
  /\ Between(p)
  /\ s.task \in Traceable
  /\ TimedOut(s)
  /\ UpdateStatus(s.task, {"SUBMITTED", "PROCESSING"}, "TIMEOUT")
  /\ Begin(p, s.task, "refund")
  /\ WorkOn(p, s, "refunding")
  /\ UNCHANGED <<wallet, record, held, debits, provider, lock>>

(* The provider's poll rate or concurrency limit is reached *)
DeferPoll(p, s) ==
  /\ Between(p)
  /\ s.task \in Traceable
  /\ ~TimedOut(s)
  /\ DeferNextPoll(s.task)
  /\ poller' = [poller EXCEPT ![p].batch = @ \ {s}]
  /\ UNCHANGED <<billingVars, provider, lock>>

(* queryTask: the provider's own state, or an error of either kind *)
Query(p, s) ==
  /\ Between(p)
  /\ s.task \in Traceable
  /\ ~TimedOut(s)
  /\ \/ /\ provider[s.task] \in {"succeeded", "failed"}
        /\ WorkOn(p, s, provider[s.task])
     \/ /\ provider[s.task] = "running"
        /\ WorkOn(p, s, "processing")
     \/ WorkOn(p, s, "retryable")
     \/ WorkOn(p, s, "fatal")
  /\ UNCHANGED <<billingVars, storeVars, lock>>

-----------------------------------------------------------------------------
(* The answer is acted on *)

(* The first answer "processing" moves a submitted task on; an answer the  *)
(* code does not know only counts as a poll.                               *)
StillRunning(p) ==
  LET s == poller[p].current IN
  /\ PollerAt(p, "processing")
  /\ \E known \in BOOLEAN :
       task' = [task EXCEPT ![s.task] =
         [status |-> IF known /\ s.status = "SUBMITTED" /\ @.status = "SUBMITTED"
                     THEN "PROCESSING" ELSE @.status,
          polls |-> @.polls + 1, due |-> FALSE, overdue |-> @.overdue]]
  /\ GoBehind(s.task)
  /\ NextInBatch(p)
  /\ UNCHANGED <<billingVars, provider, lock>>

RetryLater(p) ==
  /\ PollerAt(p, "retryable")
  /\ DeferNextPoll(Current(p))
  /\ NextInBatch(p)
  /\ UNCHANGED <<billingVars, provider, lock>>

(* Mutant of FailTask: a failed task is settled like a successful one *)
FailTaskSettling(p) ==
  /\ poller[p].pc \in {"failed", "fatal"}
  /\ UpdateStatus(Current(p), {"SUBMITTED", "PROCESSING"}, "FAILED")
  /\ Begin(p, Current(p), "settle")
  /\ PollerTo(p, "refunding")
  /\ UNCHANGED <<wallet, record, held, debits, provider, lock>>

(* The provider says failed, or the query itself failed for good *)
FailTask(p) ==
  /\ poller[p].pc \in {"failed", "fatal"}
  /\ UpdateStatus(Current(p), {"SUBMITTED", "PROCESSING"}, "FAILED")
  /\ Begin(p, Current(p), "refund")
  /\ PollerTo(p, "refunding")
  /\ UNCHANGED <<wallet, record, held, debits, provider, lock>>

(* Settlement comes before the task's own success *)
BeginSettle(p) ==
  /\ PollerAt(p, "succeeded")
  /\ Begin(p, Current(p), "settle")
  /\ PollerTo(p, "settling")
  /\ UNCHANGED <<wallet, record, held, debits, storeVars, lock>>

(* Mutant of Succeed: a failed settlement does not hold the task back *)
SucceedAnyway(p) ==
  /\ PollerAt(p, "settling")
  /\ call[p].step \in Ended
  /\ UpdateStatus(Current(p), {"SUBMITTED", "PROCESSING"}, "SUCCESS")
  /\ Forget(p)
  /\ NextInBatch(p)
  /\ UNCHANGED <<wallet, record, held, debits, provider, lock>>

Succeed(p) ==
  /\ PollerAt(p, "settling")
  /\ At(p, "returned")
  /\ UpdateStatus(Current(p), {"SUBMITTED", "PROCESSING"}, "SUCCESS")
  /\ Forget(p)
  /\ NextInBatch(p)
  /\ UNCHANGED <<wallet, record, held, debits, provider, lock>>

(* Settlement, or the update after it, threw: the task stays as it is and  *)
(* is still due, to be settled by the next handler.                        *)
SettleThrew(p) ==
  /\ PollerAt(p, "settling")
  /\ At(p, "threw") \/ (At(p, "returned") /\ "storeError" \in Environment)
  /\ Forget(p)
  /\ NextInBatch(p)
  /\ UNCHANGED <<wallet, record, held, debits, storeVars, lock>>

RefundEnded(p) ==
  /\ PollerAt(p, "refunding")
  /\ call[p].step \in Ended
  /\ Forget(p)
  /\ NextInBatch(p)
  /\ UNCHANGED <<wallet, record, held, debits, storeVars, lock>>

(* A call to a store outside the adapter throws: the loop of               *)
(* pollPendingTasks logs it and goes on with the next task, if there is a  *)
(* batch.                                                                  *)
PollThrows(p) ==
  /\ "storeError" \in Environment
  /\ \/ /\ poller[p].pc \in {"scanning", "processing", "retryable",
                              "failed", "fatal", "succeeded"}
        /\ NextInBatch(p)
     \/ /\ Between(p)
        /\ \E s \in poller[p].batch :
             poller' = [poller EXCEPT ![p].batch = @ \ {s}]
  /\ UNCHANGED <<billingVars, storeVars, lock>>

-----------------------------------------------------------------------------
PollerDies(p) ==
  /\ "crash" \in Environment
  /\ ~PollerAt(p, "idle")
  /\ poller' = [poller EXCEPT ![p] = Idle]
  /\ Forget(p)
  /\ UNCHANGED <<wallet, record, held, debits, storeVars, lock>>

(* The PX timer of the lock: its holder is dead or, with "overrun", slow.  *)
LockLapses ==
  /\ lock # None
  /\ PollerAt(lock, "idle") \/ "overrun" \in Environment
  /\ lock' = None
  /\ UNCHANGED <<billingVars, storeVars, poller>>

PollStep ==
  \/ \E p \in Pollers :
       \/ AcquireLock(p) \/ FindPollable(p) \/ ReleaseLock(p)
       \/ \E s \in poller[p].batch : 
            SkipUntraceable(p, s) \/ TimeOut(p, s) \/ DeferPoll(p, s) \/ Query(p, s)
       \/ StillRunning(p) \/ RetryLater(p) \/ FailTask(p)
       \/ BeginSettle(p) \/ Succeed(p) \/ SettleThrew(p)
       \/ RefundEnded(p) \/ PollThrows(p) \/ PollerDies(p)
  \/ LockLapses
=============================================================================
