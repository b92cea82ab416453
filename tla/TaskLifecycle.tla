---------------------------- MODULE TaskLifecycle ---------------------------
(***************************************************************************)
(* The task path of model-hub as a whole: API requests, submit workers and *)
(* pollers, in different processes, over the tasks, billing_records and    *)
(* wallets collections, the submit queue and the polling lock.             *)
(***************************************************************************)
EXTENDS TaskApi, SubmitWorker, Polling

vars == <<billingVars, storeVars, job, apiVars, worker, pollVars>>

Init ==
  /\ BillingInit
  /\ StoreInit
  /\ QueueInit
  /\ ApiInit
  /\ WorkerInit
  /\ PollInit

TimePasses ==
  \E t \in Tasks : BecomesDue(t) \/ BecomesOverdue(t) \/ ProviderFinishes(t)

Next ==
  \/ ApiStep /\ UNCHANGED <<worker, pollVars>>
  \/ WorkerStep /\ UNCHANGED <<apiVars, pollVars>>
  \/ PollStep /\ UNCHANGED <<apiVars, job, worker>>
  \/ \E c \in Callers :
       BillingStep(c) /\ UNCHANGED <<storeVars, job, apiVars, worker, pollVars>>
  \/ TimePasses /\ UNCHANGED <<billingVars, job, apiVars, worker, pollVars>>

Spec == Init /\ [][Next]_vars

-----------------------------------------------------------------------------
(* Every document, queue entry and handler of the task path keeps its      *)
(* shape under every interleaving of the handlers.                         *)
TypeOK ==
  /\ BillingType
  /\ StoreType
  /\ job \in JobType
  /\ ApiType
  /\ WorkerType
  /\ PollType

-----------------------------------------------------------------------------
(* Properties of every environment: crashes, failing stores, handlers that *)
(* outlive their leases, cancellations.                                    *)

Rank(status) ==
  CASE status = "absent" -> 0 [] status = "PENDING" -> 1
    [] status = "SUBMITTED" -> 2 [] status = "PROCESSING" -> 3
    [] status \in Terminal -> 4

(* TaskRepository.updateStatus: handlers act on copies that are seconds    *)
(* old, and still no task ever moves back, and no end state is replaced by *)
(* another, whichever of a cancellation, a timeout, a late answer and a    *)
(* second delivery of the job comes last.                                  *)
StatusOnlyAdvances ==
  [][\A t \in Tasks : \/ task'[t].status = task[t].status
                      \/ Rank(task'[t].status) > Rank(task[t].status)]_vars

(* BillingAdapter.settle is reached only with a provider's result in hand: *)
(* nothing is debited for a task its provider did not complete, whatever   *)
(* fails, is redelivered or is handled twice.                              *)
ChargedOnlyForResults ==
  \A t \in Tasks : debits[t] > 0 => provider[t] = "succeeded"

IsInternal(t) == Policy[Owner[t]] = "internal"

(* polling.service.ts settles before it reports success: a polled task an  *)
(* internal client sees as SUCCESS has been debited, even when a poller    *)
(* died or ran late in between.                                            *)
PolledSuccessIsPaid ==
  \A t \in Tasks :
    task[t].status = "SUCCESS" /\ IsInternal(t) /\ t \notin Synchronous
      => debits[t] > 0

(* billing.adapter.ts charges internal clients only: for an external or an *)
(* exempt client the same handlers run, settle and refund included, and    *)
(* never touch the wallet the client may have.                             *)
OthersNeverPay ==
  \A k \in ApiKeys : Policy[k] # "internal" =>
    wallet[k].frozen = 0 /\ wallet[k].balance >= OpeningBalance[k]

(* task.service.ts inserts the task, records its key, then enqueues it:    *)
(* once a request with a key has been accepted, every retry of it replays  *)
(* a task that exists, although earlier requests with the same key died    *)
(* half way and the first key recorded is never replaced.                  *)
AcceptedIsRemembered ==
  \A t \in Tasks : request[t] = "accepted" /\ IdempotencyKey[t] # None => Recorded(t)

-----------------------------------------------------------------------------
(* Environment without crash and storeError.                               *)

(* Bull and feature-queue.processor.ts: a task the client was told is      *)
(* accepted and that is still pending has a job that is yet to run or has  *)
(* used up its attempts, although jobs time out under running handlers,    *)
(* are taken back, removed, and added again with another priority.  Only   *)
(* updatePriority leaves it without one, from the removal of its job to    *)
(* the addition of the next, which is the next thing it does.              *)
PendingIsQueued ==
  \A t \in Tasks : request[t] = "accepted" /\ task[t].status = "PENDING" =>
    \/ \E j \in JobIds : job[j].task = t /\ job[j].state # "completed"
    \/ ChangeAt(t, "adding")

-----------------------------------------------------------------------------
(* Properties that hold only while no two handlers work on one task, none  *)
(* is cut short and no estimate is negative: Environment without crash,    *)
(* storeError, overrun and reprioritise.                                   *)

Quiet(t) == \A c \in Callers : call[c].task # t

(* With no fault, the money set aside for a task is exactly what its       *)
(* record says: pre_deducted means frozen, any other status means not.     *)
HoldMatchesRecord ==
  \A t \in Tasks : Quiet(t) =>
    held[t] = IF record[t] = "pre_deducted" THEN EstimatedCost[t] ELSE 0

(* billing-system.md 4.2, for the paths that do end a task's billing: a    *)
(* task that ended by itself has nothing frozen, and one that failed or    *)
(* timed out was not debited.                                              *)
EndedTasksAreClosed ==
  \A t \in Tasks :
    /\ Quiet(t) /\ task[t].status \in {"SUCCESS", "FAILED", "TIMEOUT"}
         => held[t] = 0
    /\ task[t].status \in {"FAILED", "TIMEOUT"} => debits[t] = 0

(* A billing call for t stands at one of these steps. *)
InCall(t, steps) == \E c \in Callers : call[c].task = t /\ call[c].step \in steps

(* The estimate of t is frozen for it: since the freeze, and until a call  *)
(* that settles or refunds t has released it.  It may be an estimate of 0. *)
IsReserved(t) ==
  \/ InCall(t, {"markPreDeducted"})
  \/ record[t] = "pre_deducted" /\ ~InCall(t, {"debit", "markFailed", "markRefunded"})

(* What is promised about one task's money, read off the billing state.    *)
DealOf(t) ==
  CASE ~IsInternal(t) -> "none"
    [] IsInternal(t) /\ debits[t] > 0 -> "charged"
    [] IsInternal(t) /\ debits[t] = 0 /\ IsReserved(t) -> "reserved"
    [] OTHER ->
         CASE record[t] = "refunded" -> "waived"
           [] record[t] = "failed" -> "owed"
           [] record[t] = "pre_deducted" ->
                IF InCall(t, {"markRefunded"}) THEN "waived" ELSE "owed"
           [] record[t] = "estimated" /\ t \notin Prepaid -> "unsecured"
           [] OTHER -> "none"

Contract == INSTANCE Escrow WITH
  account <- [k \in ApiKeys |-> [total |-> wallet[k].balance, aside |-> wallet[k].frozen]],
  deal <- [t \in Tasks |-> DealOf(t)]

(* The records, the retries and the two-step settlement implement the      *)
(* escrow: one deposit, given back once; one charge, never after a refund. *)
ImplementsEscrow == Contract!EscrowSpec

-----------------------------------------------------------------------------
(* Liveness *)

(* What a cron handler does next, its billing call included *)
PollerMoves(p) ==
  \/ /\ \/ AcquireLock(p) \/ FindPollable(p) \/ ReleaseLock(p)
        \/ \E s \in poller[p].batch :
             SkipUntraceable(p, s) \/ TimeOut(p, s) \/ DeferPoll(p, s) \/ Query(p, s)
        \/ StillRunning(p) \/ RetryLater(p) \/ FailTask(p)
        \/ BeginSettle(p) \/ Succeed(p) \/ SettleThrew(p) \/ RefundEnded(p)
     /\ UNCHANGED <<apiVars, job, worker>>
  \/ BillingStep(p) /\ UNCHANGED <<storeVars, job, apiVars, worker, pollVars>>

StoreOnly == UNCHANGED <<billingVars, job, apiVars, worker, pollVars>>

(* The cron fires every 30s and a handler that was started runs on; clocks *)
(* do not stop.  Nothing is assumed of the provider, of its limits, of the *)
(* workers or of the clients.                                              *)
FairSpec ==
  /\ Spec
  /\ \A p \in Pollers : WF_vars(PollerMoves(p))
  /\ \A t \in Tasks :
       WF_vars(BecomesDue(t) /\ StoreOnly) /\ WF_vars(BecomesOverdue(t) /\ StoreOnly)
  /\ WF_vars(LockLapses /\ UNCHANGED <<apiVars, job, worker>>)

(* The tasks due before t that no poll can ask for fill a batch: they are  *)
(* passed over and keep their place, so no batch holds t until one of them *)
(* is cancelled.                                                           *)
Clogged(t) == Cardinality(Before(t) \ Traceable) >= BatchSize

(* A submitted task that can be asked for ends, though every poll of it    *)
(* may be deferred by the limits, answered "processing", or fail, though   *)
(* its settlement may be refused for lack of money on every attempt, and   *)
(* though other tasks fill the batches - unless those that nobody can ask  *)
(* for do so again and again: polling.service.ts never ends these nor puts *)
(* them off, and findPollableTasks puts them first.                        *)
SubmittedTasksEnd ==
  \A t \in Traceable :
    \/ []<>Clogged(t)
    \/ task[t].status \in {"SUBMITTED", "PROCESSING"} ~> task[t].status \in Terminal
=============================================================================
