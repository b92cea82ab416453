------------------------------- MODULE TaskApi ------------------------------
(***************************************************************************)
(* TaskService in the API process: createTask, cancelTask, updatePriority, *)
(* and the administrator's wallet credit.  Creating a task is a chain of   *)
(* awaits over four stores (idempotency records, billing, tasks, queue)    *)
(* with no transaction and no compensation: what a request has done when   *)
(* it dies stays done.  So is a change of priority, which removes the job  *)
(* of a task and adds another.                                             *)
(***************************************************************************)
EXTENDS Billing, TaskStore, SubmitQueue

CONSTANTS
  IdempotencyKey,   \* of each task's request, None if it sends none
  MaxTopUps         \* bound: credits made by the administrator

(* The unique index of the idempotency records is on client and key *)
KeyOf(t) == <<Owner[t], IdempotencyKey[t]>>
Keys == { KeyOf(t) : t \in { u \in Tasks : IdempotencyKey[u] # None } }

VARIABLES
  request,   \* request[t] : where the request that mints t stands
  keyOwner,  \* keyOwner[i] : the task recorded for idempotency key i
  change,    \* change[t] : where the request to change t's priority stands
             \* (bound: one at a time for a task), and the job it removes
  topUps     \* number of credits so far

apiVars == <<request, keyOwner, change, topUps>>

RequestState ==
  {"new", "billing", "inserting", "recording", "enqueueing",
   "accepted", "replayed", "rejected", "lost"}

NoChange == [step |-> "none", job |-> 0]

ChangeDoc ==
  [step : {"none", "finding", "removing", "adding"}, job : JobIds \cup {0}]

ApiType ==
  /\ request \in [Tasks -> RequestState]
  /\ keyOwner \in [Keys -> Tasks \cup {None}]
  /\ change \in [Tasks -> ChangeDoc]
  /\ topUps \in Nat

ApiInit ==
  /\ request = [t \in Tasks |-> "new"]
  /\ keyOwner = [i \in Keys |-> None]
  /\ change = [t \in Tasks |-> NoChange]
  /\ topUps = 0

SetRequest(t, state) == request' = [request EXCEPT ![t] = state]

-----------------------------------------------------------------------------
(* createTask *)

(* IdempotencyService.check finds a record for the request's key, and the *)
(* task it names exists; a record of a missing task stops nobody.          *)
Recorded(t) ==
  /\ IdempotencyKey[t] # None
  /\ keyOwner[KeyOf(t)] # None
  /\ task[keyOwner[KeyOf(t)]].status # "absent"

(* Mutant of BeginCreate: the key is reserved before the task is created *)
BeginCreateReserving(t) ==
  /\ request[t] = "new"
  /\ \/ /\ Recorded(t)
        /\ SetRequest(t, "replayed")
        /\ UNCHANGED <<call, keyOwner>>
     \/ /\ ~Recorded(t)
        /\ SetRequest(t, "billing")
        /\ Begin(t, t, "initBilling")
        /\ keyOwner' = [keyOwner EXCEPT ![KeyOf(t)] = IF @ = None THEN t ELSE @]
  /\ UNCHANGED <<wallet, record, held, debits, storeVars, job, change, topUps>>

(* The idempotency check, then initBilling.  A hit replays the old task.   *)
BeginCreate(t) ==
  /\ request[t] = "new"
  /\ \/ /\ Recorded(t)
        /\ SetRequest(t, "replayed")
        /\ UNCHANGED call
     \/ /\ ~Recorded(t)
        /\ SetRequest(t, "billing")
        /\ Begin(t, t, "initBilling")
  /\ UNCHANGED <<wallet, record, held, debits, storeVars, job, keyOwner, change, topUps>>

(* 402 for InsufficientBalanceException, 500 for anything else *)
BillingInitialised(t) ==
  /\ request[t] = "billing"
  /\ call[t].step \in Ended
  /\ SetRequest(t, IF At(t, "returned") THEN "inserting" ELSE "rejected")
  /\ Forget(t)
  /\ UNCHANGED <<wallet, record, held, debits, storeVars, job, keyOwner, change, topUps>>

InsertTask(t) ==
  /\ request[t] = "inserting"
  /\ task' = [task EXCEPT ![t].status = "PENDING"]
  /\ SetRequest(t, IF IdempotencyKey[t] = None THEN "enqueueing" ELSE "recording")
  /\ UNCHANGED <<billingVars, ahead, provider, job, keyOwner, change, topUps>>

(* A duplicate key is swallowed: the first request to record it keeps it.  *)
RecordKey(t) ==
  /\ request[t] = "recording"
  /\ keyOwner' = [keyOwner EXCEPT ![KeyOf(t)] = IF @ = None THEN t ELSE @]
  /\ SetRequest(t, "enqueueing")
  /\ UNCHANGED <<billingVars, storeVars, job, change, topUps>>

EnqueueTask(t) ==
  /\ request[t] = "enqueueing"
  /\ CanAdd
  /\ job' = WithJob(job, t)
  /\ SetRequest(t, "accepted")
  /\ UNCHANGED <<billingVars, storeVars, keyOwner, change, topUps>>

(* The process dies, or an await outside initBilling throws *)
RequestDies(t) ==
  /\ request[t] \in {"billing", "inserting", "recording", "enqueueing"}
  /\ \/ "crash" \in Environment
     \/ "storeError" \in Environment /\ request[t] # "billing"
  /\ SetRequest(t, "lost")
  /\ Forget(t)
  /\ UNCHANGED <<wallet, record, held, debits, storeVars, job, keyOwner, change, topUps>>

-----------------------------------------------------------------------------
(* An await of a handler may be the last one it reaches *)
CutShort == Environment \cap {"crash", "storeError"} # {}

(* cancelTask: the status it reads first decides only which error a        *)
(* refused cancellation gets, since no status ever becomes cancellable     *)
(* again.  The removal of a waiting job is best effort.  Nothing is        *)
(* refunded.                                                               *)
Cancellable == {"PENDING", "SUBMITTED"}

CancelTask(t) ==
  /\ "cancel" \in Environment
  /\ task[t].status \in Cancellable
  /\ UpdateStatus(t, Cancellable, "CANCELLED")
  /\ \/ /\ WaitingFor(t) = {} \/ CutShort
        /\ UNCHANGED job
     \/ \E j \in WaitingFor(t) : job' = Removed(job, j)
  /\ UNCHANGED <<billingVars, provider, apiVars>>

-----------------------------------------------------------------------------
(* updatePriority: the job of the task is removed and one with the new     *)
(* priority is added.  Between these awaits the task has no job, workers   *)
(* go on, and a request to cancel or the death of the process may come.    *)

ChangeAt(t, step) == change[t].step = step
ChangeTo(t, step) == change' = [change EXCEPT ![t] = [step |-> step, job |-> 0]]

BeginPriority(t) ==
  /\ "reprioritise" \in Environment
  /\ task[t].status = "PENDING"
  /\ ChangeAt(t, "none")
  /\ ChangeTo(t, "finding")
  /\ UNCHANGED <<billingVars, storeVars, job, request, keyOwner, topUps>>

(* getWaiting: the first match is removed; with none, or when the call     *)
(* throws, a job is added all the same.                                    *)
FindWaiting(t) ==
  /\ ChangeAt(t, "finding")
  /\ \/ \E j \in WaitingFor(t) :
          change' = [change EXCEPT ![t] = [step |-> "removing", job |-> j]]
     \/ /\ WaitingFor(t) = {} \/ "storeError" \in Environment
        /\ ChangeTo(t, "adding")
  /\ UNCHANGED <<billingVars, storeVars, job, request, keyOwner, topUps>>

(* job.remove() throws for a job a worker has locked by now; removeJob     *)
(* catches that, and what the call to Redis throws.                        *)
RemoveWaiting(t) ==
  LET j == change[t].job IN
  /\ ChangeAt(t, "removing")
  /\ \/ job[j].state # "active" /\ job' = Removed(job, j)
     \/ (job[j].state = "active" \/ "storeError" \in Environment) /\ UNCHANGED job
  /\ ChangeTo(t, "adding")
  /\ UNCHANGED <<billingVars, storeVars, request, keyOwner, topUps>>

(* The status of the task is not looked at again; an error is only logged *)
AddAgain(t) ==
  /\ ChangeAt(t, "adding")
  /\ \/ CanAdd /\ job' = WithJob(job, t)
     \/ "storeError" \in Environment /\ UNCHANGED job
  /\ ChangeTo(t, "none")
  /\ UNCHANGED <<billingVars, storeVars, request, keyOwner, topUps>>

ChangeDies(t) ==
  /\ "crash" \in Environment
  /\ ~ChangeAt(t, "none")
  /\ ChangeTo(t, "none")
  /\ UNCHANGED <<billingVars, storeVars, job, request, keyOwner, topUps>>

-----------------------------------------------------------------------------
CreditWallet(k) ==
  /\ "topUp" \in Environment
  /\ topUps < MaxTopUps
  /\ \E a \in Credits : Credit(k, a)
  /\ topUps' = topUps + 1
  /\ UNCHANGED <<record, call, held, debits, storeVars, job, request, keyOwner, change>>

ApiStep ==
  \/ \E t \in Tasks :
       \/ BeginCreate(t) \/ BillingInitialised(t) \/ InsertTask(t)
       \/ RecordKey(t) \/ EnqueueTask(t) \/ RequestDies(t)
       \/ CancelTask(t) \/ BeginPriority(t) \/ FindWaiting(t)
       \/ RemoveWaiting(t) \/ AddAgain(t) \/ ChangeDies(t)
  \/ \E k \in ApiKeys : CreditWallet(k)
=============================================================================
