------------------------- MODULE TaskLifecycleProofs ------------------------
(***************************************************************************)
(* Theorems about the task path, for every population, price and           *)
(* environment.  The types and NeverOverdrawn are inductive together with  *)
(* what links the processes: jobs, handlers, pollers and requests name     *)
(* tasks and jobs that exist, and a job that is being handled is active.   *)
(*                                                                         *)
(* What a client that was told "accepted" may rely on follows from who can *)
(* name a task: nobody but its own request before it is inserted, and an   *)
(* inserted task is never removed.  A retry with the same key finds a      *)
(* task, whatever fails; and, when nothing fails, a task that is still     *)
(* pending has a job that was not used up for nothing, but for the time    *)
(* between the removal of its job and the addition of the next.            *)
(***************************************************************************)
EXTENDS TaskLifecycle, WellFoundedInduction, TLAPS

-----------------------------------------------------------------------------
(* Wallet: what the four updates preserve *)

(* The part of the state the wallet collection is responsible for: shape   *)
(* and guard of every document.                                            *)
WalletOK == wallet \in WalletType /\ NeverOverdrawn

(* A wallet is never overdrawn at the start: nothing is frozen. *)
LEMMA WalletInitOK == WalletInit => WalletOK
BY MoneyAssumption DEF WalletInit, WalletOK, WalletType, NeverOverdrawn

(* wallet.service.ts freeze: the guard leaves enough balance to freeze.    *)
LEMMA FreezeOK ==
  ASSUME WalletOK, NEW k \in ApiKeys, NEW a \in Int, EstimatesCount(k) => a >= 0,
         Freeze(k, a)
  PROVE  WalletOK'
BY DEF WalletOK, WalletType, NeverOverdrawn, Freeze, Covers, Available

(* wallet.service.ts unfreeze: never below zero, whatever is asked for.    *)
LEMMA UnfreezeOK ==
  ASSUME WalletOK, NEW k \in ApiKeys, NEW a \in Int, EstimatesCount(k) => a >= 0,
         Unfreeze(k, a)
  PROVE  WalletOK'
BY DEF WalletOK, WalletType, NeverOverdrawn, Unfreeze, Unfreezes

(* wallet.service.ts debit: what is frozen stays covered, and this is so   *)
(* whatever the sign of the actual cost.                                   *)
LEMMA DebitOK ==
  ASSUME WalletOK, NEW k \in ApiKeys, NEW a \in Int, Debit(k, a)
  PROVE  WalletOK'
BY DEF WalletOK, WalletType, NeverOverdrawn, Debit, Covers, Available

(* wallet.service.ts credit: only adds, and opens the wallet if need be.   *)
LEMMA CreditOK ==
  ASSUME WalletOK, NEW k \in ApiKeys, NEW a \in Nat, Credit(k, a)
  PROVE  WalletOK'
BY DEF WalletOK, WalletType, NeverOverdrawn, Credit

-----------------------------------------------------------------------------
(* Billing: every await of an adapter call *)

(* A call in progress names a task, its client and its prices. *)
LEMMA InsideCall ==
  ASSUME BillingType, NEW c \in Callers, call[c].step # "idle"
  PROVE  /\ call[c] \in [step : Steps, task : Tasks]
         /\ call[c].task \in Tasks
         /\ Key(c) \in ApiKeys
         /\ EstimatedCost[call[c].task] \in Int
         /\ ActualCost[call[c].task] \in Int
         /\ EstimatesCount(Key(c)) => EstimatedCost[call[c].task] >= 0
<1>1. call[c] \in [step : Steps, task : Tasks]
  BY DEF BillingType, Calls, NoCall
<1>2. call[c].task \in Tasks
  BY <1>1
<1> QED
  BY <1>1, <1>2, MoneyAssumption, PopulationAssumption DEF Key, EstimatesCount

(* The three ways a call record changes keep its shape. *)
LEMMA ContinueType ==
  ASSUME BillingType, NEW c \in Callers, call[c].step # "idle",
         NEW s \in Steps, Continue(c, s)
  PROVE  call' \in [Callers -> Calls]
<1>1. call[c] \in [step : Steps, task : Tasks]
  BY InsideCall
<1>2. [call[c] EXCEPT !.step = s] \in Calls
  BY <1>1 DEF Calls
<1> QED
  BY <1>2 DEF Continue, BillingType

(* A caller enters the adapter for a task that exists. *)
LEMMA BeginType ==
  ASSUME BillingType, NEW c \in Callers, NEW t \in Tasks, NEW s \in Steps,
         Begin(c, t, s)
  PROVE  call' \in [Callers -> Calls]
BY DEF Begin, BillingType, Calls

(* A caller leaves the adapter. *)
LEMMA ForgetType ==
  ASSUME BillingType, NEW c \in Callers, Forget(c)
  PROVE  call' \in [Callers -> Calls]
BY DEF Forget, BillingType, Calls

(* findOneAndUpdate of a record keeps its shape. *)
LEMMA MoveRecordType ==
  ASSUME BillingType, NEW t \in Tasks, NEW from, NEW to \in RecordStatus,
         MoveRecord(t, from, to)
  PROVE  record' \in [Tasks -> RecordStatus]
BY DEF MoveRecord, BillingType

(* Billing's part of the inductive invariant *)
BillingOK == BillingType /\ NeverOverdrawn

(* Initially nobody is inside the adapter and nothing is recorded. *)
LEMMA BillingInitOK == BillingInit => BillingOK
BY WalletInitOK DEF BillingInit, BillingOK, BillingType, WalletOK, Calls, RecordStatus

(* Whatever a call does, the billing state stays well formed and no wallet *)
(* is overdrawn: billing.adapter.ts never looks at a balance, it relies on *)
(* the guards of wallet.service.ts alone.                                  *)
LEMMA BillingStepOK ==
  ASSUME BillingOK, NEW c \in Callers, BillingStep(c)
  PROVE  BillingOK'
<1> USE DEF BillingOK
<1>0. call[c].step # "idle"
  BY DEF BillingStep, CreateRecord, FreezeEstimate, MarkPreDeducted, ReadForSettle,
         ReleaseForSettle, DebitActual, MarkFailed, MarkSettled, ReadForRefund,
         ReleaseForRefund, GiveUpRelease, MarkRefunded, CallThrows, At
<1>1. /\ call[c].task \in Tasks
      /\ Key(c) \in ApiKeys
      /\ EstimatedCost[call[c].task] \in Int
      /\ ActualCost[call[c].task] \in Int
      /\ EstimatesCount(Key(c)) => EstimatedCost[call[c].task] >= 0
  BY <1>0, InsideCall
<1>2. \A s \in Steps : Continue(c, s) => call' \in [Callers -> Calls]
  BY <1>0, ContinueType
<1>3. ASSUME UNCHANGED wallet PROVE WalletOK'
  BY <1>3 DEF WalletOK, WalletType, NeverOverdrawn, BillingType
<1>4. WalletOK
  BY DEF WalletOK, BillingType
<1>5. ASSUME WalletOK', call' \in [Callers -> Calls],
             record' \in [Tasks -> RecordStatus],
             held' \in [Tasks -> Int], debits' \in [Tasks -> Nat]
      PROVE  BillingOK'
  BY <1>5 DEF WalletOK, BillingType, WalletType
<1>6. CASE CreateRecord(c)
  <2>1. record' \in [Tasks -> RecordStatus]
    BY <1>6, <1>1 DEF CreateRecord, BillingType, RecordStatus
  <2>2. call' \in [Callers -> Calls]
    BY <1>6, <1>2 DEF CreateRecord, Steps, Ended
  <2> QED
    BY <1>6, <1>3, <1>5, <2>1, <2>2 DEF CreateRecord, BillingType
<1>7. CASE FreezeEstimate(c)
  <2>1. call' \in [Callers -> Calls]
    BY <1>7, <1>2 DEF FreezeEstimate, Steps, Ended
  <2>2. WalletOK' /\ held' \in [Tasks -> Int]
    BY <1>7, <1>1, <1>3, <1>4, FreezeOK DEF FreezeEstimate, BillingType
  <2> QED
    BY <1>7, <1>5, <2>1, <2>2 DEF FreezeEstimate, BillingType
<1>8. CASE MarkPreDeducted(c)
  <2>1. call' \in [Callers -> Calls]
    BY <1>8, <1>2 DEF MarkPreDeducted, Steps, Ended
  <2>2. record' \in [Tasks -> RecordStatus]
    BY <1>8, <1>1, MoveRecordType DEF MarkPreDeducted, RecordStatus
  <2> QED
    BY <1>8, <1>3, <1>5, <2>1, <2>2 DEF MarkPreDeducted, BillingType
<1>9. CASE ReadForSettle(c)
  <2>1. call' \in [Callers -> Calls]
    BY <1>9, <1>2 DEF ReadForSettle, Steps, Ended
  <2> QED
    BY <1>9, <1>3, <1>5, <2>1 DEF ReadForSettle, BillingType
<1>10. ASSUME UnfreezeFor(c) PROVE WalletOK' /\ held' \in [Tasks -> Int]
  BY <1>10, <1>1, <1>4, UnfreezeOK DEF UnfreezeFor, BillingType
<1>11. CASE ReleaseForSettle(c)
  <2>1. call' \in [Callers -> Calls]
    BY <1>11, <1>2 DEF ReleaseForSettle, Steps, Ended
  <2> QED
    BY <1>11, <1>5, <1>10, <2>1 DEF ReleaseForSettle, BillingType
<1>12. CASE DebitActual(c)
  <2>1. call' \in [Callers -> Calls]
    BY <1>12, <1>2 DEF DebitActual, Steps, Ended
  <2>2. WalletOK' /\ debits' \in [Tasks -> Nat]
    BY <1>12, <1>1, <1>3, <1>4, DebitOK DEF DebitActual, BillingType
  <2> QED
    BY <1>12, <1>5, <2>1, <2>2 DEF DebitActual, BillingType
<1>13. CASE MarkFailed(c)
  <2>1. call' \in [Callers -> Calls]
    BY <1>13, <1>2 DEF MarkFailed, Steps, Ended
  <2>2. record' \in [Tasks -> RecordStatus]
    BY <1>13, <1>1 DEF MarkFailed, BillingType, RecordStatus
  <2> QED
    BY <1>13, <1>3, <1>5, <2>1, <2>2 DEF MarkFailed, BillingType
<1>14. CASE MarkSettled(c)
  <2>1. call' \in [Callers -> Calls]
    BY <1>14, <1>2 DEF MarkSettled, Steps, Ended
  <2>2. record' \in [Tasks -> RecordStatus]
    BY <1>14, <1>1, MoveRecordType DEF MarkSettled, RecordStatus
  <2> QED
    BY <1>14, <1>3, <1>5, <2>1, <2>2 DEF MarkSettled, BillingType
<1>15. CASE ReadForRefund(c)
  <2>1. call' \in [Callers -> Calls]
    BY <1>15, <1>2 DEF ReadForRefund, Steps, Ended
  <2> QED
    BY <1>15, <1>3, <1>5, <2>1 DEF ReadForRefund, BillingType
<1>16. CASE ReleaseForRefund(c)
  <2>1. call' \in [Callers -> Calls]
    BY <1>16, <1>2 DEF ReleaseForRefund, Steps, Ended
  <2> QED
    BY <1>16, <1>5, <1>10, <2>1 DEF ReleaseForRefund, BillingType
<1>17. CASE GiveUpRelease(c)
  <2>1. call' \in [Callers -> Calls]
    BY <1>17, <1>2 DEF GiveUpRelease, Steps, Ended
  <2> QED
    BY <1>17, <1>3, <1>5, <2>1 DEF GiveUpRelease, BillingType
<1>18. CASE MarkRefunded(c)
  <2>1. call' \in [Callers -> Calls]
    BY <1>18, <1>2 DEF MarkRefunded, Steps, Ended
  <2>2. record' \in [Tasks -> RecordStatus]
    BY <1>18, <1>1, MoveRecordType DEF MarkRefunded, RecordStatus
  <2> QED
    BY <1>18, <1>3, <1>5, <2>1, <2>2 DEF MarkRefunded, BillingType
<1>19. CASE CallThrows(c)
  <2>1. call' \in [Callers -> Calls]
    BY <1>19, <1>2 DEF CallThrows, Steps, Ended
  <2> QED
    BY <1>19, <1>3, <1>5, <2>1 DEF CallThrows, BillingType
<1> QED
  BY <1>6, <1>7, <1>8, <1>9, <1>11, <1>12, <1>13, <1>14, <1>15, <1>16, <1>17,
     <1>18, <1>19 DEF BillingStep

-----------------------------------------------------------------------------
(* Store and queue: what their operators preserve *)

(* A billing call entered or left, or nothing at all *)
LEMMA CallOnlyOK ==
  ASSUME BillingOK, call' \in [Callers -> Calls],
         UNCHANGED <<wallet, record, held, debits>>
  PROVE  BillingOK'
BY DEF BillingOK, BillingType, WalletType, NeverOverdrawn

(* A step that leaves the billing state alone keeps what holds of it. *)
LEMMA BillingUnchanged ==
  ASSUME BillingOK, UNCHANGED billingVars
  PROVE  BillingOK'
BY CallOnlyOK DEF billingVars, BillingOK, BillingType

(* A step that leaves the tasks collection alone keeps its shape. *)
LEMMA StoreUnchanged ==
  ASSUME StoreType, UNCHANGED storeVars
  PROVE  StoreType'
BY DEF StoreType, storeVars

(* How one step may change the status of a task that exists *)
Advances(t) ==
  \/ task'[t].status = task[t].status
  \/ /\ task[t].status # "absent"
     /\ Rank(task'[t].status) > Rank(task[t].status)

(* task.repository.ts updateStatus: a filter on statuses below the new one *)
(* lets a task only advance, whatever its caller believes it to be.        *)
LEMMA UpdateStatusOK ==
  ASSUME StoreType, NEW t \in Tasks, NEW from \in SUBSET Open,
         NEW to \in TaskStatus, \A s \in from : Rank(to) > Rank(s),
         UpdateStatus(t, from, to)
  PROVE  /\ task' \in [Tasks -> TaskDoc] /\ ahead' \in [Tasks -> SUBSET Tasks]
         /\ \A u \in Tasks : Advances(u)
<1>1. task' \in [Tasks -> TaskDoc] /\ ahead' \in [Tasks -> SUBSET Tasks]
  BY DEF UpdateStatus, StoreType, TaskDoc
<1>2. "absent" \notin from
  BY DEF Open
<1>3. \A u \in Tasks : task'[u].status =
        IF u = t /\ task[u].status \in from THEN to ELSE task[u].status
  BY DEF UpdateStatus, StoreType, TaskDoc
<1> QED
  BY <1>1, <1>2, <1>3 DEF Advances

(* task.repository.ts deferNextPoll: the order of the due tasks keeps its  *)
(* shape.                                                                  *)
LEMMA GoBehindOK ==
  ASSUME StoreType, NEW t, GoBehind(t)
  PROVE  ahead' \in [Tasks -> SUBSET Tasks]
BY DEF StoreType, GoBehind

(* The statuses the handlers ask for are above those they ask to leave. *)
LEMMA RanksRise ==
  /\ \A s \in {"PENDING"} : \A to \in {"SUBMITTED", "SUCCESS", "FAILED", "CANCELLED"} :
       Rank(to) > Rank(s)
  /\ \A s \in {"PENDING", "SUBMITTED"} : Rank("CANCELLED") > Rank(s)
  /\ \A s \in {"SUBMITTED", "PROCESSING"} : \A to \in Terminal : Rank(to) > Rank(s)
  /\ Rank("PROCESSING") > Rank("SUBMITTED")
BY DEF Rank, Terminal

(* A job that was ever added names a task, and one that is yet to run has  *)
(* an attempt left.                                                        *)
JobsNamed ==
  \A j \in JobIds :
    /\ job[j].state # "unused" => job[j].task \in Tasks
    /\ job[j].state \in {"waiting", "active", "delayed"} => job[j].attempts < MaxAttempts

JobOK == job \in JobType /\ JobsNamed

(* A step of the queue: it keeps its shape, and a job once added stays one *)
(* of its task.                                                            *)
JobStep ==
  /\ JobOK'
  /\ \A j \in JobIds : job[j].state # "unused" =>
       job'[j].state # "unused" /\ job'[j].task = job[j].task

(* Nobody but its handler and Bull ends a job that is being handled. *)
ActiveKept == \A j \in JobIds : job[j].state = "active" => job'[j].state = "active"

(* Bull's counter of job ids: there is a first place that is not used. *)
LEMMA LeastUnused ==
  ASSUME CanAdd
  PROVE  \E n \in JobIds :
           /\ job[n].state = "unused"
           /\ \A i \in JobIds : job[i].state = "unused" => n <= i
<1> DEFINE T == {j \in JobIds : job[j].state = "unused"}
<1>1. T \subseteq Nat /\ T # {}
  BY QueueAssumption DEF JobIds, CanAdd
<1>2. PICK least \in T : \A y \in T : <<y, least>> \notin OpToRel(<, Nat)
  <2> HIDE DEF T
  <2> QED
    BY <1>1, NatLessThanWellFounded, WFMin
<1>3. \A y \in T : ~(y < least)
  BY <1>1, <1>2 DEF OpToRel
<1>4. \A y \in T : least <= y
  <2> HIDE DEF T
  <2> QED
    BY <1>1, <1>3
<1> QED
  BY <1>2, <1>4

(* SubmitQueue: a job added takes an unused place and leaves the others.   *)
LEMMA WithJobOK ==
  ASSUME JobOK, NEW t \in Tasks, CanAdd, job' = WithJob(job, t)
  PROVE  JobStep /\ ActiveKept
<1> DEFINE n == CHOOSE j \in JobIds :
                  /\ job[j].state = "unused"
                  /\ \A i \in JobIds : job[i].state = "unused" => j <= i
           new == [state |-> "waiting", task |-> t, attempts |-> 0]
<1>1. PICK m \in JobIds :
        /\ job[m].state = "unused"
        /\ \A i \in JobIds : job[i].state = "unused" => m <= i
  BY LeastUnused
<1>2. n \in JobIds /\ job[n].state = "unused"
  BY <1>1
<1>3. job' = [job EXCEPT ![n] = new]
  BY DEF WithJob
<1>4. /\ new \in [state : JobState, task : Tasks \cup {None}, attempts : 0..MaxAttempts]
      /\ new.task \in Tasks /\ new.state = "waiting" /\ new.attempts < MaxAttempts
  BY QueueAssumption DEF JobState
<1> HIDE DEF n, new
<1> QED
  BY <1>2, <1>3, <1>4 DEF JobStep, ActiveKept, JobOK, JobType, JobsNamed

(* Job.remove: a job that no worker holds is gone, the others are what     *)
(* they were.                                                              *)
LEMMA RemovedOK ==
  ASSUME JobOK, NEW j \in JobIds, job[j].state \notin {"unused", "active"},
         job' = Removed(job, j)
  PROVE  JobStep /\ ActiveKept
BY DEF JobStep, ActiveKept, JobOK, JobType, JobsNamed, Removed, JobState

(* Bull counts an attempt and delays the job or gives it up: one that was  *)
(* yet to run had an attempt left, so the count stays within the limit.    *)
LEMMA AttemptFailedOK ==
  ASSUME JobOK, NEW j \in JobIds, job[j].state = "active",
         job' = AttemptFailed(job, j)
  PROVE  JobStep
BY QueueAssumption DEF JobStep, JobOK, JobType, JobsNamed, AttemptFailed, JobState

(* A step that leaves the queue alone keeps what holds of it. *)
LEMMA JobUnchanged ==
  ASSUME JobOK, UNCHANGED job
  PROVE  JobStep /\ ActiveKept
BY DEF JobStep, ActiveKept, JobOK, JobsNamed

(* A job changes state only: it is taken, ended, or its backoff is over. *)
LEMMA JobStateOK ==
  ASSUME JobOK, NEW j \in JobIds,
         \/ /\ job[j].state \in {"waiting", "delayed"}
            /\ \E s \in {"active", "waiting"} : job' = [job EXCEPT ![j].state = s]
         \/ job[j].state # "unused" /\ job' = [job EXCEPT ![j].state = "completed"]
  PROVE  JobStep
BY DEF JobStep, JobOK, JobType, JobsNamed, JobState

-----------------------------------------------------------------------------
(* The API process *)

(* The task a request mints is not in the collection before it inserts it. *)
NotInserted ==
  \A t \in Tasks :
    request[t] \in {"new", "billing", "inserting"} => task[t].status = "absent"

(* A change of priority somebody asked for removes a job of its task. *)
ChangesNamed ==
  \A t \in Tasks :
    /\ ~ChangeAt(t, "none") => "reprioritise" \in Environment
    /\ ChangeAt(t, "removing") =>
         /\ change[t].job \in JobIds
         /\ job[change[t].job].state # "unused" /\ job[change[t].job].task = t

(* No step of the queue makes the job of a change another task's. *)
LEMMA ChangesUnchanged ==
  ASSUME ChangesNamed, JobStep, UNCHANGED change
  PROVE  ChangesNamed'
BY DEF ChangesNamed, ChangeAt, JobStep

(* Every request handler keeps the state well formed; a task advances, or  *)
(* is inserted by the one request that mints it.                           *)
LEMMA ApiStepOK ==
  ASSUME BillingOK, StoreType, JobOK, ApiType, NotInserted, ChangesNamed, ApiStep
  PROVE  /\ BillingOK' /\ StoreType' /\ JobStep /\ ActiveKept
         /\ ApiType' /\ NotInserted' /\ ChangesNamed'
         /\ \A t \in Tasks :
              Advances(t) \/ (task[t].status = "absent" /\ task'[t].status = "PENDING")
<1> DEFINE Good ==
      /\ BillingOK' /\ StoreType' /\ JobStep /\ ActiveKept
      /\ ApiType' /\ NotInserted' /\ ChangesNamed'
      /\ \A t \in Tasks :
           Advances(t) \/ (task[t].status = "absent" /\ task'[t].status = "PENDING")
<1> SUFFICES Good
  OBVIOUS
<1>a. ASSUME UNCHANGED storeVars
      PROVE  StoreType' /\ \A t \in Tasks : Advances(t)
  BY <1>a, StoreUnchanged DEF storeVars, Advances
<1>b. ASSUME NEW t \in Tasks, NEW s \in RequestState, SetRequest(t, s)
      PROVE  /\ request' \in [Tasks -> RequestState]
             /\ \A u \in Tasks : request'[u] = IF u = t THEN s ELSE request[u]
  BY <1>b DEF SetRequest, ApiType
<1>c. \A t \in Tasks : t \in Callers
  BY DEF Callers
<1>d. ASSUME JobStep, UNCHANGED change PROVE ChangesNamed'
  BY <1>d, ChangesUnchanged
<1>1. ASSUME NEW t \in Tasks, BeginCreate(t) PROVE Good
  <2>1. PICK s \in {"replayed", "billing"} : SetRequest(t, s)
    BY <1>1 DEF BeginCreate
  <2>2. s \in RequestState /\ request[t] = "new"
    BY <1>1, <2>1 DEF RequestState, BeginCreate
  <2>3. /\ request' \in [Tasks -> RequestState]
        /\ \A u \in Tasks : request'[u] = IF u = t THEN s ELSE request[u]
    BY <2>1, <2>2, <1>b
  <2>4. call' \in [Callers -> Calls]
    BY <1>1, <1>c, BeginType DEF BeginCreate, BillingOK, BillingType, Steps
  <2>5. BillingOK'
    BY <1>1, <2>4, CallOnlyOK DEF BeginCreate
  <2>6. StoreType' /\ \A u \in Tasks : Advances(u)
    BY <1>1, <1>a DEF BeginCreate
  <2>7. JobStep /\ ActiveKept
    BY <1>1, JobUnchanged DEF BeginCreate
  <2>8. ApiType' /\ NotInserted' /\ ChangesNamed'
    BY <1>d, <2>7, <1>1, <2>2, <2>3 DEF BeginCreate, ApiType, NotInserted, storeVars
  <2> QED
    BY <2>5, <2>6, <2>7, <2>8
<1>2. ASSUME NEW t \in Tasks, BillingInitialised(t) PROVE Good
  <2>1. PICK s \in {"inserting", "rejected"} : SetRequest(t, s)
    BY <1>2 DEF BillingInitialised
  <2>2. s \in RequestState /\ request[t] = "billing"
    BY <1>2, <2>1 DEF RequestState, BillingInitialised
  <2>3. /\ request' \in [Tasks -> RequestState]
        /\ \A u \in Tasks : request'[u] = IF u = t THEN s ELSE request[u]
    BY <2>1, <2>2, <1>b
  <2>4. BillingOK'
    BY <1>2, <1>c, ForgetType, CallOnlyOK DEF BillingInitialised, BillingOK
  <2>5. StoreType' /\ \A u \in Tasks : Advances(u)
    BY <1>2, <1>a DEF BillingInitialised
  <2>6. JobStep /\ ActiveKept
    BY <1>2, JobUnchanged DEF BillingInitialised
  <2>7. ApiType' /\ NotInserted' /\ ChangesNamed'
    BY <1>d, <2>6, <1>2, <2>2, <2>3 DEF BillingInitialised, ApiType, NotInserted, storeVars
  <2> QED
    BY <2>4, <2>5, <2>6, <2>7
<1>3. ASSUME NEW t \in Tasks, InsertTask(t) PROVE Good
  <2>1. PICK s \in {"enqueueing", "recording"} : SetRequest(t, s)
    BY <1>3 DEF InsertTask
  <2>2. s \in RequestState /\ request[t] = "inserting"
    BY <1>3, <2>1 DEF RequestState, InsertTask
  <2>3. /\ request' \in [Tasks -> RequestState]
        /\ \A u \in Tasks : request'[u] = IF u = t THEN s ELSE request[u]
    BY <2>1, <2>2, <1>b
  <2>4. BillingOK'
    BY <1>3, BillingUnchanged DEF InsertTask
  <2>5. /\ task' \in [Tasks -> TaskDoc]
        /\ \A u \in Tasks : task'[u].status = IF u = t THEN "PENDING" ELSE task[u].status
    BY <1>3 DEF InsertTask, StoreType, TaskDoc, TaskStatus, Open
  <2>6. StoreType'
    BY <1>3, <2>5 DEF InsertTask, StoreType
  <2>7. \A u \in Tasks :
          Advances(u) \/ (task[u].status = "absent" /\ task'[u].status = "PENDING")
    BY <2>2, <2>5 DEF Advances, NotInserted
  <2>8. JobStep /\ ActiveKept
    BY <1>3, JobUnchanged DEF InsertTask
  <2>9. ApiType' /\ NotInserted' /\ ChangesNamed'
    BY <1>d, <2>8, <1>3, <2>1, <2>3, <2>5 DEF InsertTask, ApiType, NotInserted
  <2> QED
    BY <2>4, <2>6, <2>7, <2>8, <2>9
<1>4. ASSUME NEW t \in Tasks, RecordKey(t) PROVE Good
  <2>1. /\ request' \in [Tasks -> RequestState]
        /\ \A u \in Tasks : request'[u] = IF u = t THEN "enqueueing" ELSE request[u]
    BY <1>4, <1>b DEF RecordKey, RequestState
  <2>2. BillingOK'
    BY <1>4, BillingUnchanged DEF RecordKey
  <2>3. StoreType' /\ \A u \in Tasks : Advances(u)
    BY <1>4, <1>a DEF RecordKey
  <2>4. JobStep /\ ActiveKept
    BY <1>4, JobUnchanged DEF RecordKey
  <2>5. ApiType' /\ NotInserted' /\ ChangesNamed'
    BY <1>d, <2>4, <1>4, <2>1 DEF RecordKey, ApiType, NotInserted, storeVars
  <2> QED
    BY <2>2, <2>3, <2>4, <2>5
<1>5. ASSUME NEW t \in Tasks, EnqueueTask(t) PROVE Good
  <2>1. /\ request' \in [Tasks -> RequestState]
        /\ \A u \in Tasks : request'[u] = IF u = t THEN "accepted" ELSE request[u]
    BY <1>5, <1>b DEF EnqueueTask, RequestState
  <2>2. BillingOK'
    BY <1>5, BillingUnchanged DEF EnqueueTask
  <2>3. StoreType' /\ \A u \in Tasks : Advances(u)
    BY <1>5, <1>a DEF EnqueueTask
  <2>4. JobStep /\ ActiveKept
    BY <1>5, WithJobOK DEF EnqueueTask
  <2>5. ApiType' /\ NotInserted' /\ ChangesNamed'
    BY <1>d, <2>4, <1>5, <2>1 DEF EnqueueTask, ApiType, NotInserted, storeVars
  <2> QED
    BY <2>2, <2>3, <2>4, <2>5
<1>6. ASSUME NEW t \in Tasks, RequestDies(t) PROVE Good
  <2>1. /\ request' \in [Tasks -> RequestState]
        /\ \A u \in Tasks : request'[u] = IF u = t THEN "lost" ELSE request[u]
    BY <1>6, <1>b DEF RequestDies, RequestState
  <2>2. BillingOK'
    BY <1>6, <1>c, ForgetType, CallOnlyOK DEF RequestDies, BillingOK
  <2>3. StoreType' /\ \A u \in Tasks : Advances(u)
    BY <1>6, <1>a DEF RequestDies
  <2>4. JobStep /\ ActiveKept
    BY <1>6, JobUnchanged DEF RequestDies
  <2>5. ApiType' /\ NotInserted' /\ ChangesNamed'
    BY <1>d, <2>4, <1>6, <2>1 DEF RequestDies, ApiType, NotInserted, storeVars
  <2> QED
    BY <2>2, <2>3, <2>4, <2>5
<1>7. ASSUME NEW t \in Tasks, CancelTask(t) PROVE Good
  <2>1. /\ task' \in [Tasks -> TaskDoc] /\ ahead' \in [Tasks -> SUBSET Tasks]
        /\ \A u \in Tasks : Advances(u)
    BY <1>7, UpdateStatusOK, RanksRise
    DEF CancelTask, Cancellable, Open, TaskStatus, Terminal
  <2>2. StoreType'
    BY <1>7, <2>1 DEF CancelTask, StoreType
  <2>3. BillingOK'
    BY <1>7, BillingUnchanged DEF CancelTask
  <2>4. JobStep /\ ActiveKept
    <3>1. CASE UNCHANGED job
      BY <3>1, JobUnchanged
    <3>2. CASE \E j \in WaitingFor(t) : job' = Removed(job, j)
      BY <3>2, RemovedOK DEF WaitingFor
    <3> QED
      BY <1>7, <3>1, <3>2 DEF CancelTask
  <2>5. ApiType' /\ NotInserted' /\ ChangesNamed'
    BY <1>d, <2>4, <1>7, <2>1 DEF CancelTask, ApiType, apiVars, NotInserted, Advances, Rank, UpdateStatus, StoreType, Cancellable
  <2> QED
    BY <2>1, <2>2, <2>3, <2>4, <2>5
<1>8. ASSUME NEW t \in Tasks, UNCHANGED <<billingVars, storeVars, request, keyOwner, topUps>>,
             change' \in [Tasks -> ChangeDoc], JobStep, ActiveKept, ChangesNamed'
      PROVE  Good
  <2>1. BillingOK'
    BY <1>8, BillingUnchanged
  <2>2. StoreType' /\ \A u \in Tasks : Advances(u)
    BY <1>8, <1>a
  <2>3. ApiType' /\ NotInserted'
    BY <1>8 DEF ApiType, NotInserted, storeVars
  <2> QED
    BY <1>8, <2>1, <2>2, <2>3
<1>e. ASSUME NEW t \in Tasks, NEW step \in {"none", "finding", "adding"},
             ChangeTo(t, step), JobStep,
             BeginPriority(t) \/ ~ChangeAt(t, "none") \/ step = "none"
      PROVE  change' \in [Tasks -> ChangeDoc] /\ ChangesNamed'
  <2> DEFINE doc == [step |-> step, job |-> 0]
  <2>1. doc \in ChangeDoc /\ doc.step # "removing"
    BY DEF ChangeDoc
  <2>2. change' = [change EXCEPT ![t] = doc]
    BY <1>e DEF ChangeTo
  <2> HIDE DEF doc
  <2>3. change' \in [Tasks -> ChangeDoc]
    BY <2>1, <2>2 DEF ApiType
  <2>4. change'[t] = doc /\ \A u \in Tasks \ {t} : change'[u] = change[u]
    BY <2>2 DEF ApiType
  <2>5. doc.step # "none" => "reprioritise" \in Environment
    BY <1>e DEF BeginPriority, ChangesNamed, doc
  <2> QED
    BY <1>e, <2>1, <2>3, <2>4, <2>5 DEF ChangesNamed, ChangeAt, JobStep
<1>10. ASSUME NEW t \in Tasks, BeginPriority(t) \/ ChangeDies(t) PROVE Good
  <2>1. JobStep /\ ActiveKept
    BY <1>10, JobUnchanged DEF BeginPriority, ChangeDies
  <2>2. change' \in [Tasks -> ChangeDoc] /\ ChangesNamed'
    BY <1>10, <1>e, <2>1 DEF BeginPriority, ChangeDies
  <2> QED
    BY <1>10, <1>8, <2>1, <2>2 DEF BeginPriority, ChangeDies
<1>11. ASSUME NEW t \in Tasks, FindWaiting(t) PROVE Good
  <2>1. JobStep /\ ActiveKept
    BY <1>11, JobUnchanged DEF FindWaiting
  <2>2. ASSUME NEW j \in WaitingFor(t),
               change' = [change EXCEPT ![t] = [step |-> "removing", job |-> j]]
        PROVE  change' \in [Tasks -> ChangeDoc] /\ ChangesNamed'
    <3> DEFINE doc == [step |-> "removing", job |-> j]
    <3>1. j \in JobIds /\ job[j].state # "unused" /\ job[j].task = t
      BY DEF WaitingFor
    <3>2. doc \in ChangeDoc /\ doc.job = j
      BY <3>1 DEF ChangeDoc
    <3>3. change' = [change EXCEPT ![t] = doc]
      BY <2>2
    <3> HIDE DEF doc
    <3>4. change' \in [Tasks -> ChangeDoc]
      BY <3>2, <3>3 DEF ApiType
    <3>5. change'[t] = doc /\ \A u \in Tasks \ {t} : change'[u] = change[u]
      BY <3>3 DEF ApiType
    <3>6. "reprioritise" \in Environment
      BY <1>11 DEF FindWaiting, ChangesNamed, ChangeAt
    <3> QED
      BY <2>1, <3>1, <3>2, <3>4, <3>5, <3>6 DEF ChangesNamed, ChangeAt, JobStep
  <2>3. change' \in [Tasks -> ChangeDoc] /\ ChangesNamed'
    BY <1>11, <1>e, <2>1, <2>2 DEF FindWaiting, ChangeAt
  <2> QED
    BY <1>11, <1>8, <2>1, <2>3 DEF FindWaiting
<1>12. ASSUME NEW t \in Tasks, RemoveWaiting(t) PROVE Good
  <2>1. change[t].job \in JobIds /\ job[change[t].job].state # "unused"
    BY <1>12 DEF RemoveWaiting, ChangesNamed
  <2>2. JobStep /\ ActiveKept
    BY <1>12, <2>1, RemovedOK, JobUnchanged DEF RemoveWaiting
  <2>3. change' \in [Tasks -> ChangeDoc] /\ ChangesNamed'
    BY <1>12, <1>e, <2>2 DEF RemoveWaiting, ChangeAt
  <2> QED
    BY <1>12, <1>8, <2>2, <2>3 DEF RemoveWaiting
<1>13. ASSUME NEW t \in Tasks, AddAgain(t) PROVE Good
  <2>1. JobStep /\ ActiveKept
    BY <1>13, WithJobOK, JobUnchanged DEF AddAgain
  <2>2. change' \in [Tasks -> ChangeDoc] /\ ChangesNamed'
    BY <1>13, <1>e, <2>1 DEF AddAgain
  <2> QED
    BY <1>13, <1>8, <2>1, <2>2 DEF AddAgain
<1>9. ASSUME NEW k \in ApiKeys, CreditWallet(k) PROVE Good
  <2>1. WalletOK'
    BY <1>9, CreditOK, MoneyAssumption DEF CreditWallet, WalletOK, BillingOK, BillingType
  <2>2. BillingOK'
    BY <1>9, <2>1 DEF CreditWallet, BillingOK, BillingType, WalletOK
  <2>3. StoreType' /\ \A u \in Tasks : Advances(u)
    BY <1>9, <1>a DEF CreditWallet
  <2>4. JobStep /\ ActiveKept
    BY <1>9, JobUnchanged DEF CreditWallet
  <2>5. ApiType' /\ NotInserted' /\ ChangesNamed'
    BY <1>d, <2>4, <1>9 DEF CreditWallet, ApiType, NotInserted, storeVars
  <2> QED
    BY <2>2, <2>3, <2>4, <2>5
<1> QED
  BY <1>1, <1>2, <1>3, <1>4, <1>5, <1>6, <1>7, <1>9, <1>10,
     <1>11, <1>12, <1>13 DEF ApiStep

-----------------------------------------------------------------------------
(* The worker process *)

(* A handler that Bull has not given up holds an active job, alone. *)
HandlersNamed ==
  /\ \A w \in Workers : worker[w].job # 0 => job[worker[w].job].state = "active"
  /\ \A v, w \in Workers : worker[v].job = worker[w].job /\ worker[w].job # 0 => v = w

(* The steps of others do not take a handler's job away. *)
LEMMA HandlersUnchanged ==
  ASSUME WorkerType, HandlersNamed, ActiveKept, UNCHANGED worker
  PROVE  WorkerType' /\ HandlersNamed'
BY DEF WorkerType, HandlersNamed, ActiveKept, Handlers, NoHandler

(* Every step of a submit handler, and of Bull around it, keeps the state  *)
(* well formed, and a task only advances.                                  *)
LEMMA WorkerStepOK ==
  ASSUME BillingOK, StoreType, JobOK, WorkerType, HandlersNamed, WorkerStep
  PROVE  /\ BillingOK' /\ StoreType' /\ JobStep /\ WorkerType' /\ HandlersNamed'
         /\ \A t \in Tasks : Advances(t)
<1> DEFINE Good == /\ BillingOK' /\ StoreType' /\ JobStep /\ WorkerType' /\ HandlersNamed'
                   /\ \A t \in Tasks : Advances(t)
           Running == [pc : WorkerPc \ {"idle"}, task : Tasks, job : JobIds \cup {0}]
<1> SUFFICES Good
  OBVIOUS
<1>a. ASSUME UNCHANGED storeVars
      PROVE  StoreType' /\ \A t \in Tasks : Advances(t)
  BY <1>a, StoreUnchanged DEF storeVars, Advances
<1>b. \A w \in Workers :
        /\ w \in Callers
        /\ worker[w].pc # "idle" => worker[w] \in Running /\ worker[w].task \in Tasks
        /\ worker[w].job # 0 => worker[w].job \in JobIds
  BY DEF Callers, WorkerType, Handlers, NoHandler
<1>c. ASSUME NEW w \in Workers, worker[w].pc # "idle",
             NEW pc \in WorkerPc \ {"idle"}, WorkerTo(w, pc), UNCHANGED job
      PROVE  worker' \in [Workers -> Handlers] /\ HandlersNamed'
  <2>1. [worker[w] EXCEPT !.pc = pc] \in Running
    BY <1>b, <1>c
  <2>2. worker' \in [Workers -> Handlers]
    BY <1>c, <2>1 DEF WorkerTo, WorkerType, Handlers
  <2>3. \A v \in Workers : worker'[v].job = worker[v].job
    BY <1>c, <1>b DEF WorkerTo, WorkerType
  <2> QED
    BY <1>c, <2>2, <2>3 DEF HandlersNamed
<1>d. ASSUME NEW w \in Workers, worker[w].pc # "idle", Return(w) \/ Throw(w)
      PROVE  worker' \in [Workers -> Handlers] /\ JobStep /\ HandlersNamed'
  <2>1. worker' = [worker EXCEPT ![w] = NoHandler]
    BY <1>d DEF Return, Throw
  <2>2. JobStep
    BY <1>b, <1>d, JobUnchanged, JobStateOK, AttemptFailedOK
    DEF Return, Throw, HandlersNamed
  <2>3. worker' \in [Workers -> Handlers]
    BY <2>1 DEF WorkerType, Handlers
  <2>4. \A j \in JobIds : j # worker[w].job => job'[j] = job[j]
    BY <1>b, <1>d DEF Return, Throw, AttemptFailed, JobOK, JobType
  <2>5. /\ worker'[w].job = 0
        /\ \A v \in Workers \ {w} : worker'[v] = worker[v]
    BY <2>1 DEF WorkerType, NoHandler
  <2>6. \A v \in Workers \ {w} : worker[v].job # 0 => job'[worker[v].job] = job[worker[v].job]
    BY <1>b, <2>4 DEF HandlersNamed
  <2> QED
    BY <2>2, <2>3, <2>5, <2>6 DEF HandlersNamed
<1>e. ASSUME NEW w \in Workers, worker[w].pc # "idle", NEW from \in SUBSET {"PENDING"},
             NEW to \in {"SUBMITTED", "SUCCESS", "FAILED"},
             UpdateStatus(worker[w].task, from, to), UNCHANGED provider
      PROVE  StoreType' /\ \A t \in Tasks : Advances(t)
  <2>1. /\ task' \in [Tasks -> TaskDoc] /\ ahead' \in [Tasks -> SUBSET Tasks]
        /\ \A t \in Tasks : Advances(t)
    BY <1>b, <1>e, UpdateStatusOK, RanksRise DEF Open, Terminal, TaskStatus
  <2> QED
    BY <1>e, <2>1 DEF StoreType
<1>1. ASSUME NEW w \in Workers, NEW j \in JobIds, TakeJob(w, j) PROVE Good
  <2>1. JobStep
    BY <1>1, JobStateOK DEF TakeJob
  <2>2. job[j].task \in Tasks
    BY <1>1 DEF TakeJob, JobOK, JobsNamed
  <2>3. worker' \in [Workers -> Handlers]
    BY <1>1, <2>2 DEF TakeJob, WorkerType, Handlers, WorkerPc
  <2>4. HandlersNamed'
    <3>1. /\ worker'[w].job = j /\ job'[j].state = "active"
          /\ \A v \in Workers \ {w} : worker'[v] = worker[v]
      BY <1>1 DEF TakeJob, WorkerType, JobOK, JobType
    <3>2. \A v \in Workers : worker[v].job # 0 =>
            worker[v].job # j /\ job'[worker[v].job] = job[worker[v].job]
      BY <1>1, <1>b DEF TakeJob, HandlersNamed, JobOK, JobType
    <3> QED
      BY <3>1, <3>2 DEF HandlersNamed
  <2> QED
    BY <1>1, <1>a, <2>1, <2>3, <2>4, BillingUnchanged DEF TakeJob, WorkerType
<1>2. ASSUME NEW w \in Workers, LoadTask(w) PROVE Good
  <2>1. worker' \in [Workers -> Handlers] /\ JobStep /\ HandlersNamed'
    BY <1>2, <1>c, <1>d, JobUnchanged DEF LoadTask, WorkerAt, WorkerPc
  <2> QED
    BY <1>2, <1>a, <2>1, BillingUnchanged DEF LoadTask, WorkerType
<1>3. ASSUME NEW w \in Workers, SubmitThrows(w) PROVE Good
  <2>1. worker' \in [Workers -> Handlers] /\ JobStep /\ HandlersNamed'
    BY <1>3, <1>d DEF SubmitThrows, WorkerAt
  <2> QED
    BY <1>3, <1>a, <2>1, BillingUnchanged DEF SubmitThrows, WorkerType
<1>4. ASSUME NEW w \in Workers, FailUnroutable(w) PROVE Good
  <2>1. worker' \in [Workers -> Handlers] /\ JobStep /\ HandlersNamed'
    BY <1>4, <1>d DEF FailUnroutable, WorkerAt
  <2> QED
    BY <1>4, <1>e, <2>1, BillingUnchanged DEF FailUnroutable, WorkerAt, WorkerType
<1>5. ASSUME NEW w \in Workers, Submit(w) PROVE Good
  <2>1. worker' \in [Workers -> Handlers] /\ JobStep /\ HandlersNamed'
    BY <1>5, <1>c, <1>d, JobUnchanged DEF Submit, WorkerAt, WorkerPc
  <2>2. provider' \in [Tasks -> ProviderStatus]
    BY <1>5, <1>b DEF Submit, WorkerAt, WorkerType, StoreType, ProviderStatus
  <2>3. StoreType' /\ \A t \in Tasks : Advances(t)
    BY <1>5, <2>2 DEF Submit, StoreType, Advances
  <2> QED
    BY <1>5, <2>1, <2>2, <2>3, BillingUnchanged DEF Submit, WorkerType
<1>6. ASSUME NEW w \in Workers, SubmitRefused(w) PROVE Good
  <2>1. JobStep
    BY <1>6, JobUnchanged DEF SubmitRefused
  <2>2. worker' \in [Workers -> Handlers] /\ HandlersNamed'
    BY <1>6, <1>c DEF SubmitRefused, WorkerAt, WorkerPc
  <2> QED
    BY <1>6, <1>a, <2>1, <2>2, BillingUnchanged DEF SubmitRefused, WorkerType
<1>7. ASSUME NEW w \in Workers, SaveThrows(w) PROVE Good
  <2>1. JobStep
    BY <1>7, JobUnchanged DEF SaveThrows
  <2>2. worker' \in [Workers -> Handlers] /\ HandlersNamed'
    BY <1>7, <1>c DEF SaveThrows, WorkerPc
  <2> QED
    BY <1>7, <1>a, <2>1, <2>2, BillingUnchanged DEF SaveThrows, WorkerType
<1>8. ASSUME NEW w \in Workers, SaveAccepted(w) PROVE Good
  <2>1. worker' \in [Workers -> Handlers] /\ JobStep /\ HandlersNamed'
    BY <1>8, <1>d DEF SaveAccepted, WorkerAt
  <2> QED
    BY <1>8, <1>e, <2>1, BillingUnchanged DEF SaveAccepted, WorkerAt, WorkerType
<1>f. ASSUME NEW w \in Workers, SaveAnswer(w) \/ FailSubmission(w) PROVE Good
  <2>1. worker[w].pc # "idle" /\ worker[w].task \in Tasks
    BY <1>f, <1>b DEF SaveAnswer, FailSubmission, WorkerAt
  <2>2. JobStep
    BY <1>f, JobUnchanged DEF SaveAnswer, FailSubmission
  <2>3. worker' \in [Workers -> Handlers] /\ HandlersNamed'
    BY <1>f, <1>c, <2>1 DEF SaveAnswer, FailSubmission, WorkerPc
  <2>4. call' \in [Callers -> Calls]
    BY <1>f, <1>b, <2>1, BeginType
    DEF SaveAnswer, FailSubmission, BillingOK, Steps
  <2>5. BillingOK'
    BY <1>f, <2>4, CallOnlyOK DEF SaveAnswer, FailSubmission
  <2>6. StoreType' /\ \A t \in Tasks : Advances(t)
    BY <1>f, <1>e, <2>1 DEF SaveAnswer, FailSubmission
  <2> QED
    BY <1>f, <2>2, <2>3, <2>5, <2>6 DEF SaveAnswer, FailSubmission, WorkerType
<1>9. ASSUME NEW w \in Workers, FinishJob(w) PROVE Good
  <2>1. worker' \in [Workers -> Handlers] /\ JobStep /\ HandlersNamed'
    BY <1>9, <1>d DEF FinishJob
  <2>2. BillingOK'
    BY <1>9, <1>b, ForgetType, CallOnlyOK DEF FinishJob, BillingOK
  <2> QED
    BY <1>9, <1>a, <2>1, <2>2 DEF FinishJob, WorkerType
<1>10. ASSUME NEW w \in Workers, WorkerDies(w) PROVE Good
  <2>1. JobStep
    BY <1>10, JobUnchanged DEF WorkerDies
  <2>2. worker' \in [Workers -> Handlers] /\ HandlersNamed'
    BY <1>10 DEF WorkerDies, WorkerType, Handlers, HandlersNamed, NoHandler
  <2>3. BillingOK'
    BY <1>10, <1>b, ForgetType, CallOnlyOK DEF WorkerDies, BillingOK
  <2> QED
    BY <1>10, <1>a, <2>1, <2>2, <2>3 DEF WorkerDies, WorkerType
<1>11. ASSUME NEW j \in JobIds, TakeBack(j) PROVE Good
  <2>1. JobStep
    BY <1>11, AttemptFailedOK DEF TakeBack
  <2>2. \A w \in Workers : worker'[w] =
          IF worker[w].job = j THEN [worker[w] EXCEPT !.job = 0] ELSE worker[w]
    BY <1>11 DEF TakeBack
  <2>3. \A w \in Workers : worker'[w] \in Handlers
    <3> SUFFICES ASSUME NEW w \in Workers, worker[w].job = j
                 PROVE  [worker[w] EXCEPT !.job = 0] \in Handlers
      BY <2>2 DEF WorkerType
    <3>1. j # 0
      BY DEF JobIds
    <3>2. worker[w] \in Running
      BY <3>1 DEF WorkerType, Handlers, NoHandler
    <3> QED
      BY <3>2 DEF Handlers
  <2>4. worker' \in [Workers -> Handlers]
    BY <1>11, <2>3 DEF TakeBack
  <2>5. HandlersNamed'
    <3>1. \A w \in Workers :
            worker'[w].job = IF worker[w].job = j THEN 0 ELSE worker[w].job
      BY <2>2 DEF WorkerType, Handlers, NoHandler
    <3>2. \A i \in JobIds \ {j} : job'[i] = job[i]
      BY <1>11 DEF TakeBack, AttemptFailed, JobOK, JobType
    <3> QED
      BY <1>b, <3>1, <3>2 DEF HandlersNamed
  <2> QED
    BY <1>11, <1>a, <2>1, <2>4, <2>5, BillingUnchanged DEF TakeBack, WorkerType
<1>12. ASSUME NEW j \in JobIds, BackoffEnds(j) PROVE Good
  <2>1. JobStep
    BY <1>12, JobStateOK DEF BackoffEnds, Promote
  <2>2. ActiveKept
    BY <1>12 DEF BackoffEnds, Promote, ActiveKept, JobOK, JobType
  <2>3. WorkerType' /\ HandlersNamed'
    BY <1>12, <2>2, HandlersUnchanged DEF BackoffEnds
  <2> QED
    BY <1>12, <1>a, <2>1, <2>3, BillingUnchanged DEF BackoffEnds
<1> QED
  BY <1>1, <1>2, <1>3, <1>4, <1>5, <1>6, <1>7, <1>8, <1>f, <1>9, <1>10, <1>11,
     <1>12 DEF WorkerStep

-----------------------------------------------------------------------------
(* The scheduler process *)

(* The places of a cron handler at which it has a task in hand *)
InHand ==
  {"succeeded", "failed", "fatal", "retryable", "processing", "settling", "refunding"}

CopiesNamed == \A p \in Pollers : poller[p].pc \in InHand => poller[p].current \in Copies

(* Every step of a cron handler keeps the state well formed, and a task    *)
(* only advances although it is handled from a copy.                       *)
LEMMA PollStepOK ==
  ASSUME BillingOK, StoreType, PollType, CopiesNamed, PollStep
  PROVE  /\ BillingOK' /\ StoreType' /\ PollType' /\ CopiesNamed'
         /\ \A t \in Tasks : Advances(t)
<1> DEFINE Good == /\ BillingOK' /\ StoreType' /\ PollType' /\ CopiesNamed'
                   /\ \A t \in Tasks : Advances(t)
           PollerDoc == [pc : PollerPc, batch : SUBSET Copies, current : Copies \cup {NoCopy}]
<1> SUFFICES Good
  OBVIOUS
<1>a. ASSUME UNCHANGED storeVars
      PROVE  StoreType' /\ \A t \in Tasks : Advances(t)
  BY <1>a, StoreUnchanged DEF storeVars, Advances
<1>b. \A p \in Pollers :
        /\ p \in Callers
        /\ poller[p] \in PollerDoc
        /\ poller[p].pc \in InHand =>
             Current(p) \in Tasks /\ poller[p].current \in Copies
  BY DEF Callers, PollType, CopiesNamed, Copies, Current
<1>c. ASSUME NEW p \in Pollers, NEW doc \in PollerDoc,
             doc.pc \in InHand => doc.current \in Copies,
             poller' = [poller EXCEPT ![p] = doc], lock' \in Pollers \cup {None}
      PROVE  PollType' /\ CopiesNamed'
  BY <1>c DEF PollType, CopiesNamed
<1>d. ASSUME NEW p \in Pollers, NextInBatch(p), UNCHANGED lock
      PROVE  PollType' /\ CopiesNamed'
  <2> DEFINE doc == [pc |-> "polling", batch |-> poller[p].batch, current |-> NoCopy]
  <2>1. doc \in PollerDoc /\ doc.pc \notin InHand
    BY <1>b DEF PollerPc, InHand
  <2>2. poller' = [poller EXCEPT ![p] = doc]
    BY <1>d DEF NextInBatch
  <2> QED
    BY <1>c, <1>d, <2>1, <2>2 DEF PollType
<1>e. ASSUME NEW p \in Pollers, poller[p].pc \in InHand,
             NEW pc \in InHand, PollerTo(p, pc), UNCHANGED lock
      PROVE  PollType' /\ CopiesNamed'
  <2> DEFINE doc == [poller[p] EXCEPT !.pc = pc]
  <2>1. doc \in PollerDoc /\ doc.current \in Copies
    BY <1>b, <1>e DEF PollerPc, InHand
  <2>2. poller' = [poller EXCEPT ![p] = doc]
    BY <1>e DEF PollerTo, PollType
  <2> QED
    BY <1>c, <1>e, <2>1, <2>2 DEF PollType
<1>f. ASSUME NEW p \in Pollers, NEW s \in poller[p].batch,
             NEW pc \in InHand, WorkOn(p, s, pc), UNCHANGED lock
      PROVE  PollType' /\ CopiesNamed'
  <2> DEFINE doc == [pc |-> pc, batch |-> poller[p].batch \ {s}, current |-> s]
  <2>1. doc \in PollerDoc /\ doc.current \in Copies
    BY <1>b, <1>f DEF PollerPc, InHand
  <2>2. poller' = [poller EXCEPT ![p] = doc]
    BY <1>f DEF WorkOn
  <2> QED
    BY <1>c, <1>f, <2>1, <2>2 DEF PollType
<1>g. ASSUME NEW p \in Pollers, NEW s \in poller[p].batch, Between(p),
             poller' = [poller EXCEPT ![p].batch = @ \ {s}], UNCHANGED lock
      PROVE  PollType' /\ CopiesNamed'
  <2> DEFINE doc == [poller[p] EXCEPT !.batch = poller[p].batch \ {s}]
  <2>1. doc \in PollerDoc /\ doc.pc \notin InHand
    BY <1>b, <1>g DEF Between, PollerAt, InHand
  <2>2. poller' = [poller EXCEPT ![p] = doc]
    BY <1>g DEF PollType
  <2> QED
    BY <1>c, <1>g, <2>1, <2>2 DEF PollType
<1>h. ASSUME NEW t \in Tasks, NEW to \in Terminal,
             UpdateStatus(t, {"SUBMITTED", "PROCESSING"}, to), UNCHANGED provider
      PROVE  StoreType' /\ \A u \in Tasks : Advances(u)
  <2>1. {"SUBMITTED", "PROCESSING"} \in SUBSET Open /\ to \in TaskStatus
    BY DEF Open, TaskStatus
  <2>2. /\ task' \in [Tasks -> TaskDoc] /\ ahead' \in [Tasks -> SUBSET Tasks]
        /\ \A u \in Tasks : Advances(u)
    BY <1>h, <2>1, UpdateStatusOK, RanksRise
  <2> QED
    BY <1>h, <2>2 DEF StoreType
<1>i. ASSUME NEW t \in Tasks, DeferNextPoll(t), UNCHANGED provider
      PROVE  StoreType' /\ \A u \in Tasks : Advances(u)
  BY <1>i, GoBehindOK DEF DeferNextPoll, StoreType, TaskDoc, Advances
<1>j. ASSUME NEW p \in Pollers, NEW s \in poller[p].batch
      PROVE  s \in Copies /\ s.task \in Tasks
  BY <1>b, <1>j DEF Copies
<1>1. ASSUME NEW p \in Pollers, AcquireLock(p) PROVE Good
  <2> DEFINE doc == [poller[p] EXCEPT !.pc = "scanning"]
  <2>1. doc \in PollerDoc /\ doc.pc \notin InHand
    BY <1>b DEF PollerPc, InHand
  <2>2. poller' = [poller EXCEPT ![p] = doc]
    BY <1>1 DEF AcquireLock, PollerTo, PollType
  <2>3. lock' \in Pollers \cup {None}
    BY <1>1 DEF AcquireLock
  <2>4. PollType' /\ CopiesNamed'
    BY <1>c, <2>1, <2>2, <2>3
  <2> QED
    BY <1>1, <1>a, <2>4, BillingUnchanged DEF AcquireLock
<1>2. ASSUME NEW p \in Pollers, FindPollable(p) PROVE Good
  <2> DEFINE found == { CopyOf(t) : t \in FirstDue(BatchSize) }
             doc == [pc |-> "polling", current |-> NoCopy, batch |-> found]
  <2>1. \A t \in FirstDue(BatchSize) : CopyOf(t) \in Copies
    BY DEF FirstDue, Pollable, CopyOf, Copies, StoreType, TaskDoc
  <2>2. found \in SUBSET Copies
    BY <2>1
  <2>3. doc \in PollerDoc /\ doc.pc \notin InHand
    BY <2>2 DEF PollerPc, InHand
  <2>4. poller' = [poller EXCEPT ![p] = doc]
    BY <1>2 DEF FindPollable, ReadBatch
  <2>5. PollType' /\ CopiesNamed'
    BY <1>2, <1>c, <2>3, <2>4 DEF FindPollable, PollType
  <2> QED
    BY <1>2, <1>a, <2>5, BillingUnchanged DEF FindPollable
<1>3. ASSUME NEW p \in Pollers, ReleaseLock(p) PROVE Good
  <2>1. Idle \in PollerDoc /\ Idle.pc \notin InHand
    BY DEF Idle, PollerPc, InHand
  <2>2. lock' \in Pollers \cup {None}
    BY <1>3 DEF ReleaseLock, PollType
  <2>3. PollType' /\ CopiesNamed'
    BY <1>3, <1>c, <2>1, <2>2 DEF ReleaseLock
  <2> QED
    BY <1>3, <1>a, <2>3, BillingUnchanged DEF ReleaseLock
<1>4. ASSUME NEW p \in Pollers, NEW s \in poller[p].batch, SkipUntraceable(p, s) PROVE Good
  <2>1. PollType' /\ CopiesNamed'
    BY <1>4, <1>g DEF SkipUntraceable
  <2> QED
    BY <1>4, <1>a, <2>1, BillingUnchanged DEF SkipUntraceable
<1>5. ASSUME NEW p \in Pollers, NEW s \in poller[p].batch, TimeOut(p, s) PROVE Good
  <2>1. PollType' /\ CopiesNamed'
    BY <1>5, <1>f DEF TimeOut, InHand
  <2>2. StoreType' /\ \A u \in Tasks : Advances(u)
    BY <1>5, <1>h, <1>j DEF TimeOut, Terminal
  <2>3. call' \in [Callers -> Calls]
    BY <1>5, <1>b, <1>j, BeginType DEF TimeOut, BillingOK, Steps
  <2> QED
    BY <1>5, <2>1, <2>2, <2>3, CallOnlyOK DEF TimeOut
<1>6. ASSUME NEW p \in Pollers, NEW s \in poller[p].batch, DeferPoll(p, s) PROVE Good
  <2>1. PollType' /\ CopiesNamed'
    BY <1>6, <1>g DEF DeferPoll
  <2>2. StoreType' /\ \A u \in Tasks : Advances(u)
    BY <1>6, <1>i, <1>j DEF DeferPoll
  <2> QED
    BY <1>6, <2>1, <2>2, BillingUnchanged DEF DeferPoll
<1>7. ASSUME NEW p \in Pollers, NEW s \in poller[p].batch, Query(p, s) PROVE Good
  <2>1. PICK pc \in InHand : WorkOn(p, s, pc)
    BY <1>7 DEF Query, InHand
  <2>2. PollType' /\ CopiesNamed'
    BY <1>7, <1>f, <2>1 DEF Query
  <2> QED
    BY <1>7, <1>a, <2>2, BillingUnchanged DEF Query
<1>8. ASSUME NEW p \in Pollers, StillRunning(p) PROVE Good
  <2>1. PollType' /\ CopiesNamed'
    BY <1>8, <1>d DEF StillRunning
  <2>2. poller[p].current.task \in Tasks
    BY <1>8, <1>b DEF StillRunning, PollerAt, InHand, Current
  <2>3. StoreType' /\ \A u \in Tasks : Advances(u)
    <3> DEFINE s == poller[p].current
               doc(known) ==
                 [status |-> IF known /\ s.status = "SUBMITTED" /\ task[s.task].status = "SUBMITTED"
                             THEN "PROCESSING" ELSE task[s.task].status,
                  polls |-> task[s.task].polls + 1, due |-> FALSE,
                  overdue |-> task[s.task].overdue]
    <3>1. PICK known \in BOOLEAN : task' = [task EXCEPT ![s.task] = doc(known)]
      BY <1>8 DEF StillRunning
    <3>2. task[s.task] \in TaskDoc
      BY <2>2 DEF StoreType
    <3>3. /\ doc(known) \in TaskDoc
          /\ \/ doc(known).status = task[s.task].status
             \/ task[s.task].status = "SUBMITTED" /\ doc(known).status = "PROCESSING"
      BY <3>2 DEF TaskDoc, TaskStatus, Open
    <3> HIDE DEF s, doc
    <3>4. task' \in [Tasks -> TaskDoc]
      BY <3>1, <3>3 DEF StoreType
    <3>5. \A u \in Tasks : Advances(u)
      BY <3>1, <3>3, RanksRise DEF Advances, StoreType
    <3> QED
      BY <1>8, <3>4, <3>5, GoBehindOK DEF StillRunning, StoreType
  <2> QED
    BY <1>8, <2>1, <2>3, BillingUnchanged DEF StillRunning
<1>9. ASSUME NEW p \in Pollers, RetryLater(p) PROVE Good
  <2>1. PollType' /\ CopiesNamed'
    BY <1>9, <1>d DEF RetryLater
  <2>2. StoreType' /\ \A u \in Tasks : Advances(u)
    BY <1>9, <1>b, <1>i DEF RetryLater, PollerAt, InHand
  <2> QED
    BY <1>9, <2>1, <2>2, BillingUnchanged DEF RetryLater
<1>10. ASSUME NEW p \in Pollers, FailTask(p) PROVE Good
  <2>1. poller[p].pc \in InHand /\ Current(p) \in Tasks
    BY <1>10, <1>b DEF FailTask, InHand
  <2>2. PollType' /\ CopiesNamed'
    BY <1>10, <1>e, <2>1 DEF FailTask, InHand
  <2>3. StoreType' /\ \A u \in Tasks : Advances(u)
    BY <1>10, <1>h, <2>1 DEF FailTask, Terminal
  <2>4. call' \in [Callers -> Calls]
    BY <1>10, <1>b, <2>1, BeginType DEF FailTask, BillingOK, Steps
  <2> QED
    BY <1>10, <2>2, <2>3, <2>4, CallOnlyOK DEF FailTask
<1>11. ASSUME NEW p \in Pollers, BeginSettle(p) PROVE Good
  <2>1. poller[p].pc \in InHand /\ Current(p) \in Tasks
    BY <1>11, <1>b DEF BeginSettle, PollerAt, InHand
  <2>2. PollType' /\ CopiesNamed'
    BY <1>11, <1>e, <2>1 DEF BeginSettle, InHand
  <2>3. call' \in [Callers -> Calls]
    BY <1>11, <1>b, <2>1, BeginType DEF BeginSettle, BillingOK, Steps
  <2> QED
    BY <1>11, <1>a, <2>2, <2>3, CallOnlyOK DEF BeginSettle
<1>12. ASSUME NEW p \in Pollers, Succeed(p) PROVE Good
  <2>1. PollType' /\ CopiesNamed'
    BY <1>12, <1>d DEF Succeed
  <2>2. StoreType' /\ \A u \in Tasks : Advances(u)
    BY <1>12, <1>b, <1>h DEF Succeed, PollerAt, InHand, Terminal
  <2>3. BillingOK'
    BY <1>12, <1>b, ForgetType, CallOnlyOK DEF Succeed, BillingOK
  <2> QED
    BY <2>1, <2>2, <2>3
<1>13. ASSUME NEW p \in Pollers, SettleThrew(p) \/ RefundEnded(p) PROVE Good
  <2>1. PollType' /\ CopiesNamed'
    BY <1>13, <1>d DEF SettleThrew, RefundEnded
  <2>2. StoreType' /\ \A u \in Tasks : Advances(u)
    BY <1>13, <1>a DEF SettleThrew, RefundEnded
  <2>3. BillingOK'
    BY <1>13, <1>b, ForgetType, CallOnlyOK DEF SettleThrew, RefundEnded, BillingOK
  <2> QED
    BY <2>1, <2>2, <2>3
<1>14. ASSUME NEW p \in Pollers, PollThrows(p) PROVE Good
  <2>1. PollType' /\ CopiesNamed'
    BY <1>14, <1>d, <1>g DEF PollThrows
  <2> QED
    BY <1>14, <1>a, <2>1, BillingUnchanged DEF PollThrows
<1>15. ASSUME NEW p \in Pollers, PollerDies(p) PROVE Good
  <2>1. Idle \in PollerDoc /\ Idle.pc \notin InHand
    BY DEF Idle, PollerPc, InHand
  <2>2. PollType' /\ CopiesNamed'
    BY <1>15, <1>c, <2>1 DEF PollerDies, PollType
  <2>3. BillingOK'
    BY <1>15, <1>b, ForgetType, CallOnlyOK DEF PollerDies, BillingOK
  <2> QED
    BY <1>15, <1>a, <2>2, <2>3 DEF PollerDies
<1>16. CASE LockLapses
  <2>1. PollType' /\ CopiesNamed'
    BY <1>16 DEF LockLapses, PollType, CopiesNamed
  <2> QED
    BY <1>16, <1>a, <2>1, BillingUnchanged DEF LockLapses
<1> QED
  BY <1>1, <1>2, <1>3, <1>4, <1>5, <1>6, <1>7, <1>8, <1>9, <1>10, <1>11, <1>12,
     <1>13, <1>14, <1>15, <1>16 DEF PollStep

-----------------------------------------------------------------------------
(* The whole task path *)

(* Time and the provider change documents of tasks, never their status. *)
LEMMA TimePassesOK ==
  ASSUME StoreType, TimePasses
  PROVE  StoreType' /\ \A t \in Tasks : Advances(t)
<1> PICK t \in Tasks : BecomesDue(t) \/ BecomesOverdue(t) \/ ProviderFinishes(t)
  BY DEF TimePasses
<1>1. CASE BecomesDue(t)
  BY <1>1 DEF BecomesDue, StoreType, TaskDoc, Advances
<1>2. CASE BecomesOverdue(t)
  BY <1>2 DEF BecomesOverdue, StoreType, TaskDoc, Advances
<1>3. CASE ProviderFinishes(t)
  BY <1>3 DEF ProviderFinishes, StoreType, ProviderStatus, Advances
<1> QED
  BY <1>1, <1>2, <1>3

(* The inductive invariant: the types, the solvency of every wallet, and   *)
(* what links them - jobs, handlers and pollers name tasks, and a task is  *)
(* not there before its own request inserts it.                            *)
HubInv ==
  /\ BillingOK
  /\ StoreType
  /\ JobOK
  /\ ApiType
  /\ WorkerType
  /\ PollType
  /\ NotInserted
  /\ ChangesNamed
  /\ HandlersNamed
  /\ CopiesNamed

(* The empty deployment satisfies the inductive invariant. *)
LEMMA HubInvInit == Init => HubInv
<1> SUFFICES ASSUME Init PROVE HubInv
  OBVIOUS
<1>1. BillingOK
  BY BillingInitOK DEF Init
<1>2. StoreType
  BY DEF Init, StoreInit, StoreType, TaskDoc, NoTask, TaskStatus, ProviderStatus
<1>3. JobOK
  BY QueueAssumption DEF Init, QueueInit, JobOK, JobType, JobState, JobsNamed
<1>4. ApiType
  BY DEF Init, ApiInit, ApiType, RequestState, ChangeDoc, NoChange
<1>5. WorkerType /\ HandlersNamed
  BY DEF Init, WorkerInit, WorkerType, HandlersNamed, Handlers, NoHandler
<1>6. PollType /\ CopiesNamed
  BY DEF Init, PollInit, PollType, PollerPc, Idle, CopiesNamed, InHand
<1>7. NotInserted /\ ChangesNamed
  BY DEF Init, ApiInit, StoreInit, NotInserted, NoTask, ChangesNamed, ChangeAt, NoChange
<1> QED
  BY <1>1, <1>2, <1>3, <1>4, <1>5, <1>6, <1>7 DEF HubInv

(* A task advanced by anybody but its request was there already. *)
LEMMA NotInsertedKept ==
  ASSUME NotInserted, ChangesNamed, JobStep, UNCHANGED apiVars, \A t \in Tasks : Advances(t)
  PROVE  NotInserted' /\ ChangesNamed' /\ (ApiType => ApiType')
BY ChangesUnchanged DEF NotInserted, Advances, apiVars, ApiType

(* One step: the invariant is kept, and what happens to a task's status *)
LEMMA HubStep ==
  ASSUME HubInv, Next
  PROVE  /\ HubInv'
         /\ \A t \in Tasks :
              Advances(t) \/ (task[t].status = "absent" /\ task'[t].status = "PENDING")
<1> USE DEF HubInv
<1>a. ASSUME UNCHANGED pollVars PROVE PollType' /\ CopiesNamed'
  BY <1>a DEF PollType, CopiesNamed, pollVars
<1>b. ASSUME UNCHANGED storeVars PROVE StoreType' /\ \A t \in Tasks : Advances(t)
  BY <1>b, StoreUnchanged DEF storeVars, Advances
<1>1. CASE ApiStep /\ UNCHANGED <<worker, pollVars>>
  <2>1. /\ BillingOK' /\ StoreType' /\ JobStep /\ ActiveKept
        /\ ApiType' /\ NotInserted' /\ ChangesNamed'
        /\ \A t \in Tasks :
             Advances(t) \/ (task[t].status = "absent" /\ task'[t].status = "PENDING")
    BY <1>1, ApiStepOK
  <2>2. WorkerType' /\ HandlersNamed'
    BY <1>1, <2>1, HandlersUnchanged
  <2> QED
    BY <1>1, <1>a, <2>1, <2>2 DEF JobStep
<1>2. CASE WorkerStep /\ UNCHANGED <<apiVars, pollVars>>
  <2>1. /\ BillingOK' /\ StoreType' /\ JobStep /\ WorkerType' /\ HandlersNamed'
        /\ \A t \in Tasks : Advances(t)
    BY <1>2, WorkerStepOK
  <2> QED
    BY <1>2, <1>a, <2>1, NotInsertedKept DEF JobStep
<1>3. CASE PollStep /\ UNCHANGED <<apiVars, job, worker>>
  <2>1. /\ BillingOK' /\ StoreType' /\ PollType' /\ CopiesNamed'
        /\ \A t \in Tasks : Advances(t)
    BY <1>3, PollStepOK
  <2>2. JobStep /\ ActiveKept
    BY <1>3, JobUnchanged
  <2>3. WorkerType' /\ HandlersNamed'
    BY <1>3, <2>2, HandlersUnchanged
  <2> QED
    BY <1>3, <2>1, <2>2, <2>3, NotInsertedKept DEF JobStep
<1>4. CASE \E c \in Callers :
        BillingStep(c) /\ UNCHANGED <<storeVars, job, apiVars, worker, pollVars>>
  <2>1. BillingOK'
    BY <1>4, BillingStepOK
  <2>2. StoreType' /\ \A t \in Tasks : Advances(t)
    BY <1>4, <1>b
  <2>3. JobStep /\ ActiveKept
    BY <1>4, JobUnchanged
  <2>4. WorkerType' /\ HandlersNamed'
    BY <1>4, <2>3, HandlersUnchanged
  <2> QED
    BY <1>4, <1>a, <2>1, <2>2, <2>3, <2>4, NotInsertedKept DEF JobStep
<1>5. CASE TimePasses /\ UNCHANGED <<billingVars, job, apiVars, worker, pollVars>>
  <2>1. BillingOK'
    BY <1>5, BillingUnchanged
  <2>2. StoreType' /\ \A t \in Tasks : Advances(t)
    BY <1>5, TimePassesOK
  <2>3. JobStep /\ ActiveKept
    BY <1>5, JobUnchanged
  <2>4. WorkerType' /\ HandlersNamed'
    BY <1>5, <2>3, HandlersUnchanged
  <2> QED
    BY <1>5, <1>a, <2>1, <2>2, <2>3, <2>4, NotInsertedKept DEF JobStep
<1> QED
  BY <1>1, <1>2, <1>3, <1>4, <1>5 DEF Next

(* A step that changes nothing preserves the inductive invariant. *)
LEMMA HubStutter ==
  ASSUME HubInv, UNCHANGED vars
  PROVE  HubInv' /\ \A t \in Tasks : task'[t].status = task[t].status
<1>1. UNCHANGED <<billingVars, storeVars, job, apiVars, worker, pollVars>>
  BY DEF vars
<1>2. BillingOK' /\ StoreType' /\ JobStep /\ ActiveKept
  BY <1>1, BillingUnchanged, StoreUnchanged, JobUnchanged DEF HubInv
<1>3. ApiType' /\ NotInserted' /\ ChangesNamed'
  BY <1>1, <1>2, ChangesUnchanged DEF HubInv, ApiType, NotInserted, apiVars, storeVars
<1>4. WorkerType' /\ HandlersNamed'
  BY <1>1, <1>2, HandlersUnchanged DEF HubInv
<1>5. PollType' /\ CopiesNamed'
  BY <1>1 DEF HubInv, PollType, CopiesNamed, pollVars
<1> QED
  BY <1>1, <1>2, <1>3, <1>4, <1>5 DEF HubInv, JobStep, storeVars

(* Every reachable state of the task path satisfies the invariant. *)
LEMMA HubInvariant == Spec => []HubInv
<1>1. HubInv /\ [Next]_vars => HubInv'
  BY HubStep, HubStutter
<1> QED
  BY <1>1, HubInvInit, PTL DEF Spec

(* Type correctness of the whole task path, for any number of clients,     *)
(* tasks, workers, pollers, jobs and attempts, costs of either sign and    *)
(* any environment: no job is tried more often than the queue allows.      *)
THEOREM TypeCorrect == Spec => []TypeOK
<1>1. HubInv => TypeOK
  BY DEF HubInv, BillingOK, JobOK, TypeOK
<1> QED
  BY <1>1, HubInvariant, PTL

(* wallet.service.ts under the real callers: whatever crashes, is retried, *)
(* is redelivered or is settled and refunded twice, the frozen amount of a *)
(* client none of whose tasks has a negative estimate stays between zero   *)
(* and the client's balance.  The clients with such a task are left out    *)
(* because the code does overdraw their wallets; no other wallet suffers.  *)
THEOREM Solvency == Spec => []NeverOverdrawn
<1>1. HubInv => NeverOverdrawn
  BY DEF HubInv, BillingOK
<1> QED
  BY <1>1, HubInvariant, PTL

(* task.repository.ts: no interleaving of cancellations, timeouts, late    *)
(* answers and redelivered jobs moves a task back or replaces one end      *)
(* state by another.                                                       *)
THEOREM StatusMonotone == Spec => StatusOnlyAdvances
<1>1. Rank("PENDING") > Rank("absent")
  BY DEF Rank, Terminal
<1>2. ASSUME HubInv, [Next]_vars
      PROVE  [\A t \in Tasks : \/ task'[t].status = task[t].status
                               \/ Rank(task'[t].status) > Rank(task[t].status)]_vars
  BY <1>1, <1>2, HubStep DEF Advances
<1> QED
  BY <1>2, HubInvariant, PTL DEF Spec, StatusOnlyAdvances

-----------------------------------------------------------------------------
(* What an accepted request may rely on *)

Present(t) == task[t].status # "absent"

(* Requests past the insertion, changes of priority, jobs and handlers     *)
(* name inserted tasks.                                                    *)
Inserted ==
  /\ \A t \in Tasks :
       request[t] \in {"recording", "enqueueing", "accepted"} => Present(t)
  /\ \A t \in Tasks : ~ChangeAt(t, "none") => Present(t)
  /\ \A j \in JobIds : job[j].state # "unused" => Present(job[j].task)
  /\ \A w \in Workers : worker[w].pc # "idle" => Present(worker[w].task)

(* A recorded key names an inserted task, and was recorded in time. *)
Remembered ==
  /\ \A i \in Keys : keyOwner[i] # None => Present(keyOwner[i])
  /\ \A t \in Tasks : request[t] = "recording" => IdempotencyKey[t] # None
  /\ \A t \in Tasks :
       request[t] \in {"enqueueing", "accepted"} /\ IdempotencyKey[t] # None
         => keyOwner[KeyOf(t)] # None

(* task.repository.ts never deletes. *)
LEMMA PresentStays ==
  ASSUME HubInv, [Next]_vars
  PROVE  \A t \in Tasks : Present(t) => task'[t].status # "absent"
<1>1. \A t \in Tasks : \/ task'[t].status = task[t].status
                       \/ Rank(task'[t].status) > Rank(task[t].status)
                       \/ task[t].status = "absent"
  BY HubStep, HubStutter DEF Advances
<1>2. \A t \in Tasks : task[t].status \in TaskStatus
  BY DEF HubInv, StoreType, TaskDoc
<1>3. \A s \in TaskStatus : ~(Rank("absent") > Rank(s))
  BY DEF Rank, TaskStatus, Open, Terminal
<1> QED
  BY <1>1, <1>2, <1>3 DEF Present

-----------------------------------------------------------------------------
(* What one step does to the queue *)

(* The job that WithJob fills was not used before. *)
LEMMA AddedJob ==
  ASSUME NEW t, CanAdd
  PROVE  \E n \in JobIds :
           /\ job[n].state = "unused"
           /\ WithJob(job, t) =
                [job EXCEPT ![n] = [state |-> "waiting", task |-> t, attempts |-> 0]]
BY LeastUnused DEF WithJob

(* A job that was used keeps its task, and one that is used first names a  *)
(* task that is inserted.                                                  *)
JobsFollow ==
  \A j \in JobIds : job'[j].state # "unused" =>
    \/ job[j].state # "unused" /\ job'[j].task = job[j].task
    \/ job[j].state = "unused" /\ Present(job'[j].task)

LEMMA AddingFollows ==
  ASSUME HubInv, NEW t \in Tasks, Present(t), CanAdd, job' = WithJob(job, t)
  PROVE  JobsFollow
<1>1. PICK n \in JobIds :
        /\ job[n].state = "unused"
        /\ job' = [job EXCEPT ![n] = [state |-> "waiting", task |-> t, attempts |-> 0]]
  BY AddedJob
<1> QED
  BY <1>1 DEF JobsFollow, HubInv, JobOK, JobType

LEMMA JobsSame ==
  ASSUME HubInv, UNCHANGED job
  PROVE  JobsFollow
BY DEF JobsFollow

(* Whatever handlers, requests and Bull do to the queue *)
LEMMA JobsFollowStep ==
  ASSUME HubInv, Inserted, [Next]_vars
  PROVE  JobsFollow
<1> USE DEF HubInv, JobOK
<1>1. CASE UNCHANGED job
  BY <1>1, JobsSame
<1>2. ASSUME NEW t \in Tasks, EnqueueTask(t) \/ AddAgain(t) PROVE JobsFollow
  BY <1>1, <1>2, AddingFollows DEF EnqueueTask, AddAgain, Inserted, ChangeAt
<1>3. ASSUME NEW t \in Tasks, RemoveWaiting(t) PROVE JobsFollow
  <2>1. CASE job' = Removed(job, change[t].job)
    BY <2>1, <1>3 DEF RemoveWaiting, ChangesNamed, Removed, JobsFollow, JobType
  <2> QED
    BY <1>1, <1>3, <2>1 DEF RemoveWaiting
<1>4. ASSUME NEW t \in Tasks, CancelTask(t) PROVE JobsFollow
  BY <1>4, JobsSame DEF CancelTask, WaitingFor, Removed, JobsFollow, JobType
<1>5. ASSUME NEW j \in JobIds, job[j].state # "unused",
             \/ \E s \in JobState \ {"unused"} : job' = [job EXCEPT ![j].state = s]
             \/ job' = AttemptFailed(job, j)
      PROVE  JobsFollow
  BY <1>5 DEF JobsFollow, JobType, AttemptFailed
<1>6. ASSUME NEW w \in Workers, Return(w) \/ Throw(w) PROVE JobsFollow
  <2>1. worker[w].job \in JobIds \cup {0}
    BY DEF WorkerType, Handlers, NoHandler
  <2> QED
    BY <1>5, <1>6, <2>1, JobsSame DEF Return, Throw, HandlersNamed, JobState
<1>7. ASSUME WorkerStep PROVE JobsFollow
  <2>1. ASSUME NEW w \in Workers, NEW j \in JobIds, TakeJob(w, j) PROVE JobsFollow
    BY <1>5, <2>1 DEF TakeJob, JobState
  <2>2. ASSUME NEW j \in JobIds, TakeBack(j) \/ BackoffEnds(j) PROVE JobsFollow
    BY <1>5, <2>2 DEF TakeBack, BackoffEnds, Promote, JobState
  <2>3. ASSUME NEW w \in Workers,
               \/ LoadTask(w) \/ SubmitThrows(w) \/ FailUnroutable(w)
               \/ Submit(w) \/ SubmitRefused(w) \/ SaveThrows(w)
               \/ SaveAccepted(w) \/ SaveAnswer(w) \/ FailSubmission(w)
               \/ FinishJob(w) \/ WorkerDies(w)
        PROVE  JobsFollow
    <3>1. UNCHANGED job \/ Return(w) \/ Throw(w)
      BY <2>3 DEF LoadTask, SubmitThrows, FailUnroutable, Submit, SubmitRefused,
                  SaveThrows, SaveAccepted, SaveAnswer, FailSubmission, FinishJob,
                  WorkerDies
    <3> QED
      BY <1>1, <1>6, <3>1
  <2> QED
    BY <1>7, <2>1, <2>2, <2>3 DEF WorkerStep
<1>8. ASSUME ApiStep PROVE JobsFollow
  <2>1. \/ UNCHANGED job
        \/ \E t \in Tasks :
             EnqueueTask(t) \/ RemoveWaiting(t) \/ AddAgain(t) \/ CancelTask(t)
    BY <1>8 DEF ApiStep, BeginCreate, BillingInitialised, InsertTask, RecordKey,
                RequestDies, BeginPriority, FindWaiting, ChangeDies, CreditWallet
  <2> QED
    BY <1>1, <1>2, <1>3, <1>4, <2>1
<1> QED
  BY <1>1, <1>7, <1>8 DEF Next, vars

-----------------------------------------------------------------------------
(* What one step does to the requests and the keys *)

RequestsFollow ==
  \/ UNCHANGED <<request, keyOwner>>
  \/ \E t \in Tasks, s \in {"replayed", "billing", "inserting", "rejected", "lost"} :
       SetRequest(t, s) /\ UNCHANGED keyOwner
  \/ \E t \in Tasks : InsertTask(t) \/ RecordKey(t) \/ EnqueueTask(t)

LEMMA RequestsFollowStep ==
  ASSUME HubInv, [Next]_vars
  PROVE  RequestsFollow
<1>1. CASE ApiStep
  BY <1>1 DEF ApiStep, BeginCreate, BillingInitialised, RequestDies, CancelTask,
              BeginPriority, FindWaiting, RemoveWaiting, AddAgain, ChangeDies,
              CreditWallet, apiVars, RequestsFollow
<1>2. CASE UNCHANGED apiVars
  BY <1>2 DEF apiVars, RequestsFollow
<1> QED
  BY <1>1, <1>2 DEF Next, vars

-----------------------------------------------------------------------------
(* Who names a task *)

(* A handler keeps its task, or took it from a waiting job; and it comes   *)
(* to bill only by ending the task.                                        *)
HandlerFollows(w) ==
  worker'[w].pc # "idle" =>
    \/ /\ worker[w].pc # "idle" /\ worker'[w].task = worker[w].task
       /\ worker'[w].job \in {0, worker[w].job}
       /\ worker'[w].pc \in {"settling", "refunding"} =>
            \/ worker[w].pc \in {"settling", "refunding"}
            \/ SaveAnswer(w) \/ FailSubmission(w)
    \/ \E j \in JobIds :
         /\ job[j].state # "unused"
         /\ worker'[w].pc = "loading"
         /\ worker'[w].task = job[j].task /\ worker'[w].job = j

LEMMA HandlersFollow ==
  ASSUME HubInv, [Next]_vars
  PROVE  \A w \in Workers : HandlerFollows(w)
<1> DEFINE All == \A w \in Workers : HandlerFollows(w)
<1> SUFFICES All
  OBVIOUS
<1>0. worker \in [Workers -> Handlers]
  BY DEF HubInv, WorkerType
<1>1. CASE UNCHANGED worker
  BY <1>1 DEF HandlerFollows
<1>2. ASSUME NEW w \in Workers, NEW j \in JobIds, TakeJob(w, j) PROVE All
  BY <1>0, <1>2 DEF TakeJob, HandlerFollows
<1>3. ASSUME NEW w \in Workers, NEW pc, WorkerTo(w, pc), worker[w].pc # "idle",
             pc \in {"settling", "refunding"} => SaveAnswer(w) \/ FailSubmission(w)
      PROVE  All
  <2>1. worker[w] \in [pc : WorkerPc \ {"idle"}, task : Tasks, job : JobIds \cup {0}]
    BY <1>0, <1>3 DEF Handlers, NoHandler
  <2>2. /\ worker'[w].pc = pc /\ worker'[w].task = worker[w].task
        /\ worker'[w].job = worker[w].job
        /\ \A v \in Workers \ {w} : worker'[v] = worker[v]
    BY <1>0, <1>3, <2>1 DEF WorkerTo
  <2> QED
    BY <1>3, <2>2 DEF HandlerFollows
<1>4. ASSUME NEW w \in Workers, worker' = [worker EXCEPT ![w] = NoHandler] PROVE All
  BY <1>0, <1>4 DEF NoHandler, HandlerFollows
<1>5. ASSUME NEW j \in JobIds, TakeBack(j) PROVE All
  <2>1. \A w \in Workers : /\ worker'[w].pc = worker[w].pc
                           /\ worker'[w].task = worker[w].task
                           /\ worker'[w].job \in {0, worker[w].job}
    <3>1. ASSUME NEW w \in Workers, worker[w].job = j
          PROVE  LET doc == [worker[w] EXCEPT !.job = 0]
                 IN  doc.pc = worker[w].pc /\ doc.task = worker[w].task /\ doc.job = 0
      BY <1>0 DEF Handlers, NoHandler
    <3> QED
      BY <1>5, <3>1 DEF TakeBack
  <2> QED
    BY <2>1 DEF HandlerFollows
<1>6. ASSUME WorkerStep PROVE All
  <2>1. ASSUME NEW w \in Workers,
               \/ LoadTask(w) \/ SubmitThrows(w) \/ FailUnroutable(w)
               \/ Submit(w) \/ SubmitRefused(w) \/ SaveThrows(w)
               \/ SaveAccepted(w) \/ SaveAnswer(w) \/ FailSubmission(w)
               \/ FinishJob(w) \/ WorkerDies(w)
        PROVE  All
    <3>1. \/ worker' = [worker EXCEPT ![w] = NoHandler]
          \/ /\ worker[w].pc # "idle"
             /\ \E pc : /\ WorkerTo(w, pc)
                        /\ pc \in {"settling", "refunding"} => SaveAnswer(w) \/ FailSubmission(w)
      <4>1. CASE \/ LoadTask(w) \/ SubmitThrows(w) \/ FailUnroutable(w) \/ SaveAccepted(w)
                 \/ FinishJob(w) \/ WorkerDies(w) \/ Submit(w)
        BY <4>1 DEF LoadTask, SubmitThrows, FailUnroutable, SaveAccepted, FinishJob,
                    WorkerDies, Submit, WorkerAt, Return, Throw
      <4>2. CASE SubmitRefused(w) \/ SaveThrows(w) \/ SaveAnswer(w) \/ FailSubmission(w)
        BY <4>2 DEF SubmitRefused, SaveThrows, SaveAnswer, FailSubmission, WorkerAt
      <4> QED
        BY <2>1, <4>1, <4>2
    <3> QED
      BY <1>3, <1>4, <3>1
  <2>2. \A j \in JobIds : BackoffEnds(j) => UNCHANGED worker
    BY DEF BackoffEnds
  <2> QED
    BY <1>1, <1>2, <1>5, <1>6, <2>1, <2>2 DEF WorkerStep
<1> QED
  BY <1>1, <1>6 DEF Next, vars

LEMMA InsertedStart == Init => Inserted
BY DEF Init, ApiInit, QueueInit, WorkerInit, Inserted, NoHandler, NoChange, ChangeAt

(* task.service.ts updatePriority is begun for a task that exists. *)
LEMMA ChangesFollow ==
  ASSUME HubInv, [Next]_vars
  PROVE  \A t \in Tasks : change'[t].step # "none" => ~ChangeAt(t, "none") \/ Present(t)
<1> DEFINE All == \A t \in Tasks :
             change'[t].step # "none" => ~ChangeAt(t, "none") \/ Present(t)
<1> SUFFICES All
  OBVIOUS
<1>0. change \in [Tasks -> ChangeDoc]
  BY DEF HubInv, ApiType
<1>1. CASE UNCHANGED change
  BY <1>1 DEF ChangeAt
<1>2. ASSUME NEW t \in Tasks, Present(t) \/ ~ChangeAt(t, "none"),
             \A u \in Tasks \ {t} : change'[u] = change[u]
      PROVE  All
  BY <1>2 DEF ChangeAt
<1>3. ASSUME NEW t \in Tasks,
             \/ BeginPriority(t) \/ FindWaiting(t) \/ RemoveWaiting(t)
             \/ AddAgain(t) \/ ChangeDies(t)
      PROVE  All
  <2>1. Present(t) \/ ~ChangeAt(t, "none")
    BY <1>3 DEF BeginPriority, FindWaiting, RemoveWaiting, AddAgain, ChangeDies, Present,
                ChangeAt
  <2>2. \E doc : change' = [change EXCEPT ![t] = doc]
    BY <1>3 DEF BeginPriority, FindWaiting, RemoveWaiting, AddAgain, ChangeDies, ChangeTo
  <2> QED
    BY <1>0, <1>2, <2>1, <2>2
<1>4. CASE ApiStep
  BY <1>1, <1>3, <1>4 DEF ApiStep, BeginCreate, BillingInitialised, InsertTask, RecordKey,
     EnqueueTask, RequestDies, CancelTask, CreditWallet, apiVars
<1> QED
  BY <1>1, <1>4 DEF Next, vars, apiVars

LEMMA InsertedStep ==
  ASSUME HubInv, Inserted, [Next]_vars
  PROVE  Inserted'
<1>0. /\ \A t \in Tasks : Present(t) => task'[t].status # "absent"
      /\ JobsFollow /\ RequestsFollow /\ HubInv'
  BY PresentStays, JobsFollowStep, RequestsFollowStep, HubStep, HubStutter
<1>1. ASSUME NEW t \in Tasks, request'[t] \in {"recording", "enqueueing", "accepted"}
      PROVE  task'[t].status # "absent"
  <2>1. CASE request'[t] = request[t]
    BY <1>0, <1>1, <2>1 DEF Inserted
  <2>2. CASE InsertTask(t)
    BY <2>2 DEF InsertTask, HubInv, StoreType, TaskDoc
  <2>3. CASE RecordKey(t) \/ EnqueueTask(t)
    BY <1>0, <2>3 DEF RecordKey, EnqueueTask, Inserted
  <2> QED
    BY <1>0, <1>1, <2>1, <2>2, <2>3
    DEF RequestsFollow, SetRequest, InsertTask, RecordKey, EnqueueTask, HubInv, ApiType
<1>2. ASSUME NEW j \in JobIds, job'[j].state # "unused"
      PROVE  task'[job'[j].task].status # "absent"
  <2>1. job'[j].task \in Tasks
    BY <1>0, <1>2 DEF HubInv, JobOK, JobsNamed
  <2>2. Present(job'[j].task)
    BY <1>0, <1>2 DEF JobsFollow, Inserted
  <2> QED
    BY <1>0, <2>1, <2>2
<1>3. ASSUME NEW w \in Workers, worker'[w].pc # "idle"
      PROVE  task'[worker'[w].task].status # "absent"
  <2>1. worker'[w].task \in Tasks
    BY <1>0, <1>3 DEF HubInv, WorkerType, Handlers, NoHandler
  <2>2. Present(worker'[w].task)
    BY <1>3, HandlersFollow DEF Inserted, HandlerFollows
  <2> QED
    BY <1>0, <2>1, <2>2
<1>4. ASSUME NEW t \in Tasks, change'[t].step # "none"
      PROVE  task'[t].status # "absent"
  BY <1>0, <1>4, ChangesFollow DEF Inserted
<1> QED
  BY <1>1, <1>2, <1>3, <1>4 DEF Inserted, Present, ChangeAt

-----------------------------------------------------------------------------
(* Keys *)

LEMMA RememberedStart == Init => Remembered
BY PopulationAssumption DEF Init, ApiInit, Remembered

LEMMA RememberedStep ==
  ASSUME HubInv, Inserted, Remembered, [Next]_vars
  PROVE  Remembered'
<1>0. /\ \A t \in Tasks : Present(t) => task'[t].status # "absent"
      /\ RequestsFollow
      /\ request \in [Tasks -> RequestState] /\ keyOwner \in [Keys -> Tasks \cup {None}]
      /\ None \notin Tasks
  BY PresentStays, RequestsFollowStep, PopulationAssumption DEF HubInv, ApiType
<1>1. \A i \in Keys : keyOwner[i] # None => keyOwner'[i] = keyOwner[i]
  BY <1>0 DEF RequestsFollow, InsertTask, RecordKey, EnqueueTask
<1>2. ASSUME NEW i \in Keys, keyOwner'[i] # None PROVE task'[keyOwner'[i]].status # "absent"
  <2>1. CASE keyOwner'[i] = keyOwner[i]
    BY <1>0, <1>2, <2>1 DEF Remembered
  <2>2. ASSUME NEW t \in Tasks, RecordKey(t), keyOwner'[i] # keyOwner[i]
        PROVE  task'[keyOwner'[i]].status # "absent"
    <3>1. keyOwner'[i] = t /\ Present(t)
      BY <1>0, <2>2 DEF RecordKey, Inserted
    <3> QED
      BY <1>0, <3>1
  <2> QED
    BY <1>0, <2>1, <2>2 DEF RequestsFollow, InsertTask, EnqueueTask
<1>3. ASSUME NEW t \in Tasks, request'[t] = "recording" PROVE IdempotencyKey[t] # None
  BY <1>0, <1>3 DEF RequestsFollow, SetRequest, InsertTask, RecordKey, EnqueueTask, Remembered
<1>4. ASSUME NEW t \in Tasks, request'[t] \in {"enqueueing", "accepted"},
             IdempotencyKey[t] # None
      PROVE  keyOwner'[KeyOf(t)] # None
  <2>0. KeyOf(t) \in Keys
    BY <1>4 DEF Keys
  <2>1. CASE request[t] \in {"enqueueing", "accepted"}
    BY <1>1, <1>4, <2>0, <2>1 DEF Remembered
  <2>2. CASE RecordKey(t)
    BY <1>0, <2>0, <2>2 DEF RecordKey
  <2> QED
    BY <1>0, <1>4, <2>1, <2>2
    DEF RequestsFollow, SetRequest, InsertTask, RecordKey, EnqueueTask
<1> QED
  BY <1>2, <1>3, <1>4 DEF Remembered, Present

(* task.service.ts createTask and idempotency.service.ts: whatever dies or *)
(* throws, and however many requests use one key, once one of them was     *)
(* accepted every retry replays a task that exists.                        *)
THEOREM RetriesFindTheirTask == Spec => []AcceptedIsRemembered
<1>1. Init => Inserted /\ Remembered
  BY InsertedStart, RememberedStart
<1>2. HubInv /\ Inserted /\ Remembered /\ [Next]_vars => Inserted' /\ Remembered'
  BY InsertedStep, RememberedStep
<1>3. HubInv /\ Remembered => AcceptedIsRemembered
  BY DEF Remembered, AcceptedIsRemembered, Recorded, Present, Keys, HubInv
<1> QED
  BY <1>1, <1>2, <1>3, HubInvariant, PTL DEF Spec

-----------------------------------------------------------------------------
(* The queue does not forget, as long as nothing fails *)

Waits(t) ==
  \E j \in JobIds : job[j].task = t /\ job[j].state \notin {"unused", "completed"}

(* A handler works for the task of its job, and bills it after ending it. *)
Queued ==
  /\ \A t \in Tasks : request[t] = "accepted" /\ task[t].status = "PENDING"
       => Waits(t) \/ ChangeAt(t, "adding")
  /\ \A w \in Workers : worker[w].job # 0 => job[worker[w].job].task = worker[w].task
  /\ \A w \in Workers :
       worker[w].pc \in {"settling", "refunding"} => task[worker[w].task].status # "PENDING"

LEMMA PendingLeft ==
  ASSUME HubInv, [Next]_vars
  PROVE  \A t \in Tasks :
           task[t].status \notin {"absent", "PENDING"} => task'[t].status # "PENDING"
<1>1. \A t \in Tasks : \/ task'[t].status = task[t].status
                       \/ Rank(task'[t].status) > Rank(task[t].status)
                       \/ task[t].status = "absent"
  BY HubStep, HubStutter DEF Advances
<1>2. \A t \in Tasks : task[t].status \in TaskStatus
  BY DEF HubInv, StoreType, TaskDoc
<1>3. \A s \in TaskStatus \ {"absent"} : ~(Rank("PENDING") > Rank(s))
  BY DEF Rank, TaskStatus, Open, Terminal
<1> QED
  BY <1>1, <1>2, <1>3

(* A job added leaves the others as they are. *)
LEMMA AddingWaits ==
  ASSUME HubInv, NEW t, CanAdd, job' = WithJob(job, t)
  PROVE  /\ Waits(t)'
         /\ \A j \in JobIds : job[j].state # "unused" => job'[j] = job[j]
<1>0. job \in JobType
  BY DEF HubInv, JobOK
<1>1. PICK n \in JobIds :
        /\ job[n].state = "unused"
        /\ job' = [job EXCEPT ![n] = [state |-> "waiting", task |-> t, attempts |-> 0]]
  BY AddedJob
<1>2. job'[n].task = t /\ job'[n].state = "waiting"
  BY <1>0, <1>1 DEF JobType
<1>3. Waits(t)'
  BY <1>2 DEF Waits
<1> QED
  BY <1>0, <1>1, <1>3 DEF JobType

(* A job is completed only once its task has moved on, or by a change of   *)
(* priority that is to add another one next.                               *)
LEMMA WaitsStays ==
  ASSUME ~CutShort, HubInv, Inserted, Queued, [Next]_vars
  PROVE  \A t \in Tasks :
           Waits(t) => Waits(t)' \/ task'[t].status # "PENDING" \/ ChangeAt(t, "adding")'
<1> DEFINE Kept == \A t \in Tasks :
             Waits(t) => Waits(t)' \/ task'[t].status # "PENDING" \/ ChangeAt(t, "adding")'
<1> SUFFICES Kept
  OBVIOUS
<1> USE DEF HubInv, JobOK
<1>1. CASE UNCHANGED job
  BY <1>1 DEF Waits
<1>2. ASSUME NEW t \in Tasks, CanAdd, job' = WithJob(job, t) PROVE Kept
  BY <1>2, AddingWaits DEF Waits
<1>3. ASSUME NEW t \in Tasks, RemoveWaiting(t) PROVE Kept
  <2>1. ChangeAt(t, "adding")'
    BY <1>3 DEF RemoveWaiting, ChangeTo, ChangeAt, ApiType
  <2>2. job[change[t].job].task = t
    BY <1>3 DEF RemoveWaiting, ChangesNamed
  <2>3. \A j \in JobIds : job[j].task # t => job'[j] = job[j]
    BY <1>3, <2>2 DEF RemoveWaiting, Removed, JobType
  <2> QED
    BY <2>1, <2>3 DEF Waits
<1>4. ASSUME NEW t \in Tasks, CancelTask(t) PROVE Kept
  <2>1. task'[t].status # "PENDING"
    BY <1>4 DEF CancelTask, UpdateStatus, Cancellable, StoreType, TaskDoc
  <2>2. \A j \in JobIds : job[j].task # t => job'[j] = job[j]
    BY <1>4 DEF CancelTask, WaitingFor, Removed, JobType
  <2> QED
    BY <2>1, <2>2 DEF Waits
<1>5. ASSUME NEW j \in JobIds,
             \/ \E s \in {"active", "waiting"} : job' = [job EXCEPT ![j].state = s]
             \/ job' = AttemptFailed(job, j)
      PROVE  Kept
  BY <1>5 DEF Waits, JobType, AttemptFailed
<1>6. ASSUME NEW w \in Workers, Throw(w) PROVE Kept
  <2>1. worker[w].job \in JobIds \cup {0}
    BY DEF WorkerType, Handlers, NoHandler
  <2> QED
    BY <1>1, <1>5, <1>6, <2>1 DEF Throw
<1>7. ASSUME NEW w \in Workers, Return(w), task'[worker[w].task].status # "PENDING"
      PROVE  Kept
  <2>1. worker[w].job \in JobIds \cup {0}
    BY DEF WorkerType, Handlers, NoHandler
  <2>2. \A j \in JobIds : job[j].task # worker[w].task => job'[j] = job[j]
    BY <1>7, <2>1 DEF Return, Queued, JobType
  <2> QED
    BY <1>7, <2>2 DEF Waits
<1>8. ASSUME NEW w \in Workers,
             \/ LoadTask(w) \/ SubmitThrows(w) \/ FailUnroutable(w)
             \/ Submit(w) \/ SubmitRefused(w) \/ SaveThrows(w)
             \/ SaveAccepted(w) \/ SaveAnswer(w) \/ FailSubmission(w)
             \/ FinishJob(w) \/ WorkerDies(w)
      PROVE  Kept
  <2>0. worker[w].pc # "idle" => worker[w].task \in Tasks
    BY DEF WorkerType, Handlers, NoHandler
  <2>1. CASE \/ SubmitThrows(w) \/ Submit(w) \/ SubmitRefused(w) \/ SaveThrows(w)
             \/ SaveAnswer(w) \/ FailSubmission(w) \/ WorkerDies(w)
    BY <1>1, <1>6, <2>1 DEF SubmitThrows, Submit, SubmitRefused, SaveThrows, SaveAnswer,
                            FailSubmission, WorkerDies
  <2>2. CASE LoadTask(w)
    BY <1>1, <1>7, <2>2 DEF LoadTask, storeVars
  <2>3. CASE FailUnroutable(w) \/ SaveAccepted(w)
    <3>1. task'[worker[w].task].status # "PENDING"
      BY <2>0, <2>3 DEF FailUnroutable, SaveAccepted, WorkerAt, UpdateStatus, StoreType, TaskDoc
    <3> QED
      BY <1>7, <2>3, <3>1 DEF FailUnroutable, SaveAccepted
  <2>4. CASE FinishJob(w)
    BY <1>7, <2>4 DEF FinishJob, Queued, storeVars
  <2> QED
    BY <1>8, <2>1, <2>2, <2>3, <2>4
<1>9. CASE WorkerStep
  <2>1. ASSUME NEW w \in Workers, NEW j \in JobIds, TakeJob(w, j) PROVE Kept
    BY <1>5, <2>1 DEF TakeJob
  <2>2. ASSUME NEW j \in JobIds, TakeBack(j) \/ BackoffEnds(j) PROVE Kept
    BY <1>5, <2>2 DEF TakeBack, BackoffEnds, Promote
  <2> QED
    BY <1>8, <1>9, <2>1, <2>2 DEF WorkerStep
<1>10. CASE ApiStep
  <2>1. \/ UNCHANGED job
        \/ \E t \in Tasks :
             \/ RemoveWaiting(t) \/ CancelTask(t)
             \/ CanAdd /\ job' = WithJob(job, t)
    BY <1>10 DEF ApiStep, BeginCreate, BillingInitialised, InsertTask, RecordKey,
                 EnqueueTask, RequestDies, BeginPriority, FindWaiting, AddAgain,
                 ChangeDies, CreditWallet
  <2> QED
    BY <1>1, <1>2, <1>3, <1>4, <2>1
<1> QED
  BY <1>1, <1>9, <1>10 DEF Next, vars

(* task.service.ts updatePriority: once the job is removed, adding another *)
(* is all that is left to do.                                              *)
LEMMA AddingIsNext ==
  ASSUME ~CutShort, HubInv, [Next]_vars
  PROVE  \A t \in Tasks : ChangeAt(t, "adding") => ChangeAt(t, "adding")' \/ Waits(t)'
<1> DEFINE All == \A t \in Tasks :
             ChangeAt(t, "adding") => ChangeAt(t, "adding")' \/ Waits(t)'
<1> SUFFICES All
  OBVIOUS
<1>0. change \in [Tasks -> ChangeDoc]
  BY DEF HubInv, ApiType
<1>1. CASE UNCHANGED change
  BY <1>1 DEF ChangeAt
<1>2. ASSUME NEW t \in Tasks, ~ChangeAt(t, "adding"),
             \A u \in Tasks \ {t} : change'[u] = change[u]
      PROVE  All
  BY <1>2 DEF ChangeAt
<1>3. ASSUME NEW t \in Tasks, BeginPriority(t) \/ FindWaiting(t) \/ RemoveWaiting(t)
      PROVE  All
  <2>1. ~ChangeAt(t, "adding")
    BY <1>3 DEF BeginPriority, FindWaiting, RemoveWaiting, ChangeAt
  <2>2. \E doc : change' = [change EXCEPT ![t] = doc]
    BY <1>3 DEF BeginPriority, FindWaiting, RemoveWaiting, ChangeTo
  <2> QED
    BY <1>0, <1>2, <2>1, <2>2
<1>4. ASSUME NEW t \in Tasks, AddAgain(t) PROVE All
  <2>1. Waits(t)'
    BY <1>4, AddingWaits DEF AddAgain, CutShort
  <2>2. \A u \in Tasks \ {t} : change'[u] = change[u]
    BY <1>0, <1>4 DEF AddAgain, ChangeTo
  <2> QED
    BY <2>1, <2>2 DEF ChangeAt
<1>5. ASSUME NEW t \in Tasks PROVE ~ChangeDies(t)
  BY DEF ChangeDies, CutShort
<1>6. CASE ApiStep
  BY <1>1, <1>3, <1>4, <1>5, <1>6 DEF ApiStep, BeginCreate, BillingInitialised,
     InsertTask, RecordKey, EnqueueTask, RequestDies, CancelTask, CreditWallet, apiVars
<1> QED
  BY <1>1, <1>6 DEF Next, vars, apiVars

LEMMA QueuedStart == Init => Queued
BY DEF Init, ApiInit, WorkerInit, Queued, NoHandler

LEMMA QueuedStep ==
  ASSUME ~CutShort, HubInv, Inserted, Queued, [Next]_vars
  PROVE  Queued'
<1>0. /\ HubInv' /\ JobsFollow /\ RequestsFollow
      /\ \A t \in Tasks :
           /\ task[t].status \notin {"absent", "PENDING"} => task'[t].status # "PENDING"
           /\ Waits(t) => Waits(t)' \/ task'[t].status # "PENDING" \/ ChangeAt(t, "adding")'
           /\ ChangeAt(t, "adding") => ChangeAt(t, "adding")' \/ Waits(t)'
      /\ \A w \in Workers : HandlerFollows(w)
  BY HubStep, HubStutter, JobsFollowStep, RequestsFollowStep, PendingLeft, WaitsStays,
     AddingIsNext, HandlersFollow
<1>1. ASSUME NEW t \in Tasks, request'[t] = "accepted", task'[t].status = "PENDING"
      PROVE  Waits(t)' \/ ChangeAt(t, "adding")'
  <2>1. CASE request[t] = "accepted"
    <3>1. task[t].status = "PENDING"
      BY <1>0, <1>1, <2>1 DEF Inserted, Present
    <3> QED
      BY <1>0, <1>1, <2>1, <3>1 DEF Queued
  <2>2. CASE EnqueueTask(t)
    BY <2>2, AddingWaits DEF EnqueueTask
  <2> QED
    BY <1>0, <1>1, <2>1, <2>2
    DEF RequestsFollow, SetRequest, InsertTask, RecordKey, EnqueueTask, HubInv, ApiType
<1>2. ASSUME NEW w \in Workers, worker'[w].job # 0
      PROVE  job'[worker'[w].job].task = worker'[w].task
  <2>1. worker'[w].pc # "idle" /\ worker'[w].job \in JobIds
    BY <1>0, <1>2 DEF HubInv, WorkerType, Handlers, NoHandler
  <2>2. /\ job[worker'[w].job].state # "unused"
        /\ job[worker'[w].job].task = worker'[w].task
    BY <1>0, <1>2, <2>1 DEF HandlerFollows, HubInv, HandlersNamed, Queued
  <2>3. job'[worker'[w].job].state # "unused"
    BY <1>0, <1>2 DEF HubInv, HandlersNamed
  <2> QED
    BY <1>0, <2>1, <2>2, <2>3 DEF JobsFollow
<1>3. ASSUME NEW w \in Workers, worker'[w].pc \in {"settling", "refunding"}
      PROVE  task'[worker'[w].task].status # "PENDING"
  <2>1. worker[w].pc # "idle" /\ worker'[w].task = worker[w].task /\ worker[w].task \in Tasks
    BY <1>0, <1>3 DEF HandlerFollows, HubInv, WorkerType, Handlers, NoHandler
  <2>2. CASE worker[w].pc \in {"settling", "refunding"}
    <3>1. task[worker[w].task].status \notin {"absent", "PENDING"}
      BY <2>1, <2>2 DEF Queued, Inserted, Present
    <3> QED
      BY <1>0, <2>1, <3>1
  <2>3. CASE SaveAnswer(w) \/ FailSubmission(w)
    BY <2>1, <2>3 DEF SaveAnswer, FailSubmission, UpdateStatus, HubInv, StoreType, TaskDoc
  <2> QED
    BY <1>0, <1>3, <2>2, <2>3 DEF HandlerFollows
<1> QED
  BY <1>1, <1>2, <1>3 DEF Queued

(* feature-queue.processor.ts, task.service.ts and Bull: unless a process  *)
(* dies or a store fails, an accepted task that is still pending has a     *)
(* job, or is between the removal and the addition of updatePriority,      *)
(* however often jobs time out under running handlers, are delivered       *)
(* twice, cancelled or moved to another priority.                          *)
THEOREM PendingKeepsItsJob ==
  ASSUME ~CutShort
  PROVE  Spec => []PendingIsQueued
<1>1. Init => Inserted /\ Queued
  BY InsertedStart, QueuedStart
<1>2. HubInv /\ Inserted /\ Queued /\ [Next]_vars => Inserted' /\ Queued'
  BY InsertedStep, QueuedStep
<1>3. Queued => PendingIsQueued
  BY DEF Queued, Waits, PendingIsQueued
<1> QED
  BY <1>1, <1>2, <1>3, HubInvariant, PTL DEF Spec
=============================================================================
