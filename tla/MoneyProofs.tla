----------------------------- MODULE MoneyProofs ----------------------------
(***************************************************************************)
(* Where the money of a task is while nothing is cut short and nobody      *)
(* outlives a lease.  A task is then in one hand at a time: its request,   *)
(* its job and the handler of that job, or the cron handler that holds the *)
(* lock (Hands).  So a billing call that has read the record is the only   *)
(* one that will change it, the money set aside for the task can be read   *)
(* off the record and the call (Holding), and the wallet holds what its    *)
(* tasks have set aside, coin by coin (Backed).                            *)
(***************************************************************************)
EXTENDS ChargeProofs, FiniteSetTheorems

(* No process dies, no store throws, no handler outlives its lease, no job *)
(* is added twice, and no client asks for a negative quantity.             *)
Undisturbed ==
  /\ Environment \cap {"crash", "storeError", "overrun", "reprioritise"} = {}
  /\ \A t \in Tasks : EstimatedCost[t] >= 0

(* Nobody changes a priority, whatever stage that would be at. *)
LEMMA NoChanges ==
  ASSUME HubInv, Undisturbed, NEW t \in Tasks
  PROVE  /\ ~BeginPriority(t) /\ ~FindWaiting(t) /\ ~RemoveWaiting(t)
         /\ ~AddAgain(t) /\ ~ChangeDies(t)
BY DEF HubInv, ChangesNamed, ChangeAt, Undisturbed, BeginPriority, FindWaiting,
       RemoveWaiting, AddAgain, ChangeDies

InitSteps == {"initBilling", "freeze", "markPreDeducted"} \cup Ended
SettleSteps == {"settle", "release", "debit", "markSettled", "markFailed"} \cup Ended
RefundSteps == {"refund", "refundRelease", "markRefunded"} \cup Ended

(* Caller c is inside one of the three calls, for t *)
Bills(c, t, steps) == call[c].task = t /\ call[c].step \in steps

Used(j) == job[j].state # "unused"
Polled == {"SUBMITTED", "PROCESSING"}

(* The queue is done with t. *)
Released(t) ==
  /\ request[t] = "accepted"
  /\ \A j \in JobIds : Used(j) /\ job[j].task = t => job[j].state = "completed"

(* Only the request of a task bills as the task. *)
Requests ==
  \A t \in Tasks : /\ request[t] = "billing" => Bills(t, t, InitSteps)
                   /\ request[t] # "billing" => call[t] = NoCall

OneJob ==
  /\ \A j \in JobIds : Used(j) => request[job[j].task] = "accepted"
  /\ \A i, j \in JobIds : Used(i) /\ Used(j) /\ job[i].task = job[j].task => i = j

(* What the handler in slot w is at *)
AtWork(w) ==
  LET t == worker[w].task IN
  /\ worker[w].pc \notin {"settling", "refunding"} => call[w] = NoCall
  /\ worker[w].pc \notin {"loading", "settling", "refunding"} =>
       task[t].status \in {"PENDING", "CANCELLED"}
  /\ worker[w].pc = "settling" =>
       Bills(w, t, SettleSteps) /\ task[t].status \in {"SUCCESS", "CANCELLED"}
  /\ worker[w].pc = "refunding" =>
       Bills(w, t, RefundSteps) /\ task[t].status \in {"FAILED", "CANCELLED"}

(* The job of the handler in slot w, which no other slot has *)
OwnJob(w) ==
  LET j == worker[w].job IN
  /\ j \in JobIds /\ job[j].state = "active" /\ job[j].task = worker[w].task
  /\ \A v \in Workers \ {w} : worker[v].job # j

OneHandler ==
  \A w \in Workers : IF worker[w].pc = "idle" THEN call[w] = NoCall ELSE OwnJob(w) /\ AtWork(w)

(* What the cron handler p is at *)
AtPolls(p) ==
  LET t == Current(p) IN
  /\ \A s \in poller[p].batch :
       Released(s.task) /\ task[s.task].status \in Polled \cup {"CANCELLED"}
  /\ \A r, s \in poller[p].batch : r.task = s.task => r = s
  /\ poller[p].pc \in InHand => Released(t) /\ \A s \in poller[p].batch : s.task # t
  /\ poller[p].pc \notin {"settling", "refunding"} => call[p] = NoCall
  /\ poller[p].pc \in InHand \ {"refunding"} => task[t].status \in Polled \cup {"CANCELLED"}
  /\ poller[p].pc = "settling" => Bills(p, t, SettleSteps)
  /\ poller[p].pc = "refunding" =>
       Bills(p, t, RefundSteps) /\ task[t].status \in {"FAILED", "TIMEOUT", "CANCELLED"}

OnePoller ==
  /\ \A t \in Tasks : task[t].status \in Polled => Released(t)
  /\ \A p \in Pollers :
       IF poller[p].pc = "idle" THEN poller[p].batch = {} /\ call[p] = NoCall
       ELSE lock = p /\ AtPolls(p)

Hands == Requests /\ OneJob /\ OneHandler /\ OnePoller

-----------------------------------------------------------------------------
(* The billing calls and the clock keep the hands as they are *)

(* A call goes on inside the method it entered. *)
StaysInside(c) ==
  /\ call'[c].task = call[c].task
  /\ call[c].step \in InitSteps => call'[c].step \in InitSteps
  /\ call[c].step \in SettleSteps => call'[c].step \in SettleSteps
  /\ call[c].step \in RefundSteps => call'[c].step \in RefundSteps

(* A call goes on within the method it began with.                         *)
LEMMA CallsStayInside ==
  ASSUME HubInv, NEW c \in Callers, BillingStep(c)
  PROVE  /\ call[c] # NoCall /\ StaysInside(c)
         /\ \A d \in Callers \ {c} : call'[d] = call[d]
<1>1. call[c].step \notin {"idle"} \cup Ended
  BY DEF BillingStep, CreateRecord, FreezeEstimate, MarkPreDeducted, ReadForSettle,
         ReleaseForSettle, DebitActual, MarkFailed, MarkSettled, ReadForRefund,
         ReleaseForRefund, GiveUpRelease, MarkRefunded, CallThrows, At, Ended
<1>2. \A s : Continue(c, s) => call'[c].step = s
  BY <1>1, CallRecords
<1>3. \/ /\ call[c].step \in {"initBilling", "freeze", "markPreDeducted"}
         /\ call'[c].step \in {"freeze", "markPreDeducted"} \cup Ended
      \/ /\ call[c].step \in {"settle", "release", "debit", "markSettled", "markFailed"}
         /\ call'[c].step \in {"release", "debit", "markSettled", "markFailed"} \cup Ended
      \/ /\ call[c].step \in {"refund", "refundRelease", "markRefunded"}
         /\ call'[c].step \in {"refundRelease", "markRefunded"} \cup Ended
      \/ CallThrows(c)
  <2>1. CASE CreateRecord(c)
    BY <1>2, <2>1 DEF CreateRecord, At, Ended
  <2>2. CASE FreezeEstimate(c) \/ MarkPreDeducted(c)
    BY <1>2, <2>2 DEF FreezeEstimate, MarkPreDeducted, At, Ended
  <2>3. CASE ReadForSettle(c)
    BY <1>2, <2>3 DEF ReadForSettle, At, Ended
  <2>4. CASE ReleaseForSettle(c) \/ DebitActual(c) \/ MarkFailed(c) \/ MarkSettled(c)
    BY <1>2, <2>4 DEF ReleaseForSettle, DebitActual, MarkFailed, MarkSettled, At, Ended
  <2>5. CASE ReadForRefund(c)
    BY <1>2, <2>5 DEF ReadForRefund, At, Ended
  <2>6. CASE ReleaseForRefund(c) \/ GiveUpRelease(c) \/ MarkRefunded(c)
    BY <1>2, <2>6 DEF ReleaseForRefund, GiveUpRelease, MarkRefunded, At, Ended
  <2> QED
    BY <2>1, <2>2, <2>3, <2>4, <2>5, <2>6 DEF BillingStep
<1>4. CallThrows(c) => call'[c].step = "threw"
  BY <1>2 DEF CallThrows
<1>5. StaysInside(c)
  BY <1>1, <1>3, <1>4, BillingMoves DEF StaysInside, InitSteps, SettleSteps, RefundSteps, Ended
<1> QED
  BY <1>1, <1>5, BillingMoves DEF NoCall

(* An await inside the adapter leaves every task where it is. *)
LEMMA BillingHands ==
  ASSUME HubInv, Hands, NEW c \in Callers, BillingStep(c),
         UNCHANGED <<task, request, job, worker, poller, lock>>
  PROVE  Hands'
<1>2. /\ \A d \in Callers : call[d] = NoCall => call'[d] = NoCall
      /\ \A d \in Callers : call[d] # NoCall => StaysInside(d)
  BY CallsStayInside DEF StaysInside
<1>3. Tasks \subseteq Callers /\ Workers \subseteq Callers /\ Pollers \subseteq Callers
  BY DEF Callers
<1>4. Requests'
  BY <1>2, <1>3 DEF Hands, Requests, Bills, StaysInside, InitSteps, Ended, NoCall
<1>5. OneJob'
  BY DEF Hands, OneJob, Used
<1>6. OneHandler'
  <2>1. ASSUME NEW w \in Workers, worker[w].pc # "idle" PROVE OwnJob(w)' /\ AtWork(w)'
    BY <1>2, <1>3, <2>1 DEF Hands, OneHandler, OwnJob, AtWork, Bills, StaysInside,
       SettleSteps, RefundSteps, Ended, NoCall
  <2> QED
    BY <1>2, <1>3, <2>1 DEF Hands, OneHandler
<1>7. OnePoller'
  <2>1. ASSUME NEW p \in Pollers, poller[p].pc # "idle" PROVE AtPolls(p)'
    BY <1>2, <1>3, <2>1 DEF Hands, OnePoller, AtPolls, Bills, Released, Used, Current,
       StaysInside, SettleSteps, RefundSteps, Ended, NoCall
  <2> QED
    BY <1>2, <1>3, <2>1 DEF Hands, OnePoller, Released, Used
<1> QED
  BY <1>4, <1>5, <1>6, <1>7 DEF Hands

(* Neither do deadlines, deposits and steps that touch none of this. *)
LEMMA HandsUntouched ==
  ASSUME Hands, UNCHANGED <<request, job, worker, poller, lock, call>>,
         \A t \in Tasks : task'[t].status = task[t].status, HubInv
  PROVE  Hands'
<1>0. /\ \A w \in Workers : worker[w].pc # "idle" => worker[w].task \in Tasks
      /\ \A p \in Pollers : /\ poller[p].batch \subseteq Copies
                            /\ poller[p].pc \in InHand => Current(p) \in Tasks
  BY DEF HubInv, WorkerType, Handlers, NoHandler, PollType, CopiesNamed, Copies, Current
<1>1. Requests' /\ OneJob'
  BY DEF Hands, Requests, OneJob, Bills, Used
<1>2. OneHandler'
  BY <1>0 DEF Hands, OneHandler, OwnJob, AtWork, Bills
<1>3. OnePoller'
  <2>1. ASSUME NEW p \in Pollers, poller[p].pc # "idle" PROVE AtPolls(p)'
    BY <1>0, <2>1 DEF Hands, OnePoller, AtPolls, Bills, Released, Used, Current, Copies, InHand
  <2> QED
    BY <2>1 DEF Hands, OnePoller, Released, Used
<1> QED
  BY <1>1, <1>2, <1>3 DEF Hands

-----------------------------------------------------------------------------
(* The requests *)

(* The names of callers do not overlap. *)
LEMMA CallersApart ==
  /\ Tasks \subseteq Callers /\ Workers \subseteq Callers /\ Pollers \subseteq Callers
  /\ \A t \in Tasks, c \in Workers \cup Pollers : t # c
  /\ \A w \in Workers, p \in Pollers : w # p
BY PopulationAssumption DEF Callers

(* The shape of what the hands hold *)
LEMMA HandsShape ==
  ASSUME HubInv
  PROVE  /\ \A w \in Workers : worker[w].pc # "idle" =>
              worker[w] \in [pc : WorkerPc \ {"idle"}, task : Tasks, job : JobIds \cup {0}]
         /\ \A w \in Workers : worker[w].pc = "idle" => worker[w] = NoHandler
         /\ \A p \in Pollers : /\ poller[p].batch \subseteq Copies
                               /\ poller[p].pc \in InHand => Current(p) \in Tasks
         /\ \A j \in JobIds : Used(j) => job[j].task \in Tasks
         /\ 0 \notin JobIds
BY DEF HubInv, WorkerType, Handlers, NoHandler, PollType, CopiesNamed, Copies, Current,
       JobOK, JobsNamed, Used, JobIds

(* A request that is not done touches nobody else's task. *)
LEMMA RequestMoves ==
  ASSUME HubInv, Hands, NEW t \in Tasks, NEW s,
         request[t] # "accepted", s # "accepted", SetRequest(t, s),
         UNCHANGED <<job, worker, poller, lock>>,
         task'[t].status \notin Polled,
         \A u \in Tasks \ {t} : task'[u].status = task[u].status,
         \A c \in Callers \ {t} : call'[c] = call[c],
         s = "billing" => Bills(t, t, InitSteps)',
         s # "billing" => call'[t] = NoCall
  PROVE  Hands'
<1>0. request' = [request EXCEPT ![t] = s] /\ request \in [Tasks -> RequestState]
  BY DEF SetRequest, HubInv, ApiType
<1>1. Requests'
  BY <1>0, CallersApart DEF Hands, Requests, Bills
<1>2. OneJob'
  BY <1>0, HandsShape DEF Hands, OneJob, Used
<1>3. \A w \in Workers : OwnJob(w) => worker[w].task # t
  BY <1>0 DEF Hands, OneJob, OwnJob, Used
<1>4. OneHandler'
  <2>1. ASSUME NEW w \in Workers, worker[w].pc # "idle" PROVE OwnJob(w)' /\ AtWork(w)'
    <3>1. OwnJob(w) /\ AtWork(w) /\ worker[w].task \in Tasks /\ worker[w].task # t
      BY <1>3, <2>1, HandsShape DEF Hands, OneHandler
    <3> QED
      BY <3>1, CallersApart DEF OwnJob, AtWork, Bills
  <2> QED
    BY <2>1, CallersApart DEF Hands, OneHandler
<1>5. OnePoller'
  <2>0. \A u \in Tasks : Released(u) => u # t /\ Released(u)'
    BY <1>0 DEF Released, Used
  <2>1. ASSUME NEW p \in Pollers, poller[p].pc # "idle" PROVE AtPolls(p)'
    <3>1. AtPolls(p) /\ call'[p] = call[p]
      BY <2>1, CallersApart DEF Hands, OnePoller
    <3>2. \A r \in poller[p].batch : r.task \in Tasks
      BY HandsShape DEF Copies
    <3>3. \A r \in poller[p].batch :
            Released(r.task)' /\ task'[r.task].status \in Polled \cup {"CANCELLED"}
      BY <2>0, <3>1, <3>2 DEF AtPolls
    <3>4. ASSUME poller[p].pc \in InHand
          PROVE  Released(Current(p))' /\ task'[Current(p)].status = task[Current(p)].status
      <4>1. PICK u \in Tasks : u = Current(p)
        BY <3>4, HandsShape
      <4>2. u # t /\ Released(u)'
        BY <2>0, <3>1, <3>4, <4>1 DEF AtPolls
      <4> QED
        BY <4>1, <4>2 DEF Current, Released, Used
    <3> QED
      BY <3>1, <3>3, <3>4 DEF AtPolls, Bills, Current, InHand
  <2> QED
    BY <2>0, <2>1, CallersApart DEF Hands, OnePoller
<1> QED
  BY <1>1, <1>2, <1>4, <1>5 DEF Hands

(* The job of a request is the first of its task. *)
LEMMA EnqueueHands ==
  ASSUME HubInv, Hands, NEW t \in Tasks, EnqueueTask(t),
         UNCHANGED <<worker, poller, lock>>
  PROVE  Hands'
<1>0. /\ request' = [request EXCEPT ![t] = "accepted"] /\ request \in [Tasks -> RequestState]
      /\ request[t] = "enqueueing" /\ UNCHANGED <<call, task>>
  BY DEF EnqueueTask, SetRequest, HubInv, ApiType, billingVars, storeVars
<1>1. PICK n \in JobIds :
        /\ job[n].state = "unused"
        /\ job' = [job EXCEPT ![n] = [state |-> "waiting", task |-> t, attempts |-> 0]]
  BY AddedJob DEF EnqueueTask
<1>2. /\ \A j \in JobIds \ {n} : job'[j] = job[j]
      /\ job'[n] = [state |-> "waiting", task |-> t, attempts |-> 0]
  BY <1>1 DEF HubInv, JobOK, JobType
<1>3. \A j \in JobIds : Used(j) => job[j].task # t /\ j # n
  BY <1>0, <1>1 DEF Hands, OneJob, Used
<1>4. Requests'
  BY <1>0 DEF Hands, Requests, Bills
<1>5. OneJob'
  BY <1>0, <1>2, <1>3, HandsShape DEF Hands, OneJob, Used
<1>6. OneHandler'
  BY <1>0, <1>1, <1>2 DEF Hands, OneHandler, OwnJob, AtWork, Bills
<1>7. OnePoller'
  <2>0. \A u : Released(u) => u # t
    BY <1>0 DEF Released
  <2>1. \A u : Released(u) /\ u \in Tasks => Released(u)'
    BY <1>0, <1>2, <2>0 DEF Released, Used
  <2>2. ASSUME NEW p \in Pollers, poller[p].pc # "idle" PROVE AtPolls(p)'
    <3>1. AtPolls(p) /\ (\A r \in poller[p].batch : r.task \in Tasks)
          /\ (poller[p].pc \in InHand => Current(p) \in Tasks)
      BY <2>2, HandsShape DEF Hands, OnePoller, Copies
    <3> QED
      BY <1>0, <2>1, <3>1 DEF AtPolls, Bills, Current
  <2> QED
    BY <1>0, <2>1, <2>2 DEF Hands, OnePoller
<1> QED
  BY <1>4, <1>5, <1>6, <1>7 DEF Hands

(* A cancelled task is cancelled in every hand. *)
LEMMA CancelHands ==
  ASSUME HubInv, Hands, NEW t \in Tasks, CancelTask(t),
         UNCHANGED <<worker, poller, lock>>
  PROVE  Hands'
<1>0. /\ UNCHANGED <<call, request>>
      /\ task[t].status \in {"PENDING", "SUBMITTED"}
      /\ task'[t].status = "CANCELLED"
      /\ \A u \in Tasks \ {t} : task'[u].status = task[u].status
  BY DEF CancelTask, UpdateStatus, Cancellable, HubInv, StoreType, TaskDoc, billingVars, apiVars
<1>1. \A j \in JobIds :
        \/ job'[j] = job[j]
        \/ job[j].state = "waiting" /\ job'[j].state = "completed" /\ job'[j].task = job[j].task
  BY DEF CancelTask, WaitingFor, Removed, HubInv, JobOK, JobType
<1>2. Requests' /\ OneJob'
  BY <1>0, <1>1 DEF Hands, Requests, OneJob, Bills, Used
<1>3. OneHandler'
  <2>1. ASSUME NEW w \in Workers, worker[w].pc # "idle" PROVE OwnJob(w)' /\ AtWork(w)'
    <3>1. OwnJob(w) /\ AtWork(w) /\ worker[w].task \in Tasks
      BY <2>1, HandsShape DEF Hands, OneHandler
    <3> QED
      BY <1>0, <1>1, <3>1 DEF OwnJob, AtWork, Bills
  <2> QED
    BY <1>0, <2>1 DEF Hands, OneHandler
<1>4. OnePoller'
  <2>1. \A u : Released(u) => Released(u)'
    BY <1>0, <1>1 DEF Released, Used
  <2>2. ASSUME NEW p \in Pollers, poller[p].pc # "idle" PROVE AtPolls(p)'
    <3>1. AtPolls(p) /\ (\A r \in poller[p].batch : r.task \in Tasks)
          /\ (poller[p].pc \in InHand => Current(p) \in Tasks)
      BY <2>2, HandsShape DEF Hands, OnePoller, Copies
    <3> QED
      BY <1>0, <2>1, <3>1 DEF AtPolls, Bills, Current, Polled, InHand
  <2> QED
    BY <1>0, <2>1, <2>2 DEF Hands, OnePoller, Polled
<1> QED
  BY <1>2, <1>3, <1>4 DEF Hands

(* No request touches another hand's task. *)
LEMMA ApiHands ==
  ASSUME HubInv, Undisturbed, Hands, ApiStep, UNCHANGED <<worker, pollVars>>
  PROVE  Hands'
<1>0. UNCHANGED <<worker, poller, lock>>
  BY DEF pollVars
<1>a. "crash" \notin Environment /\ "storeError" \notin Environment
  BY DEF Undisturbed
<1>1. ASSUME NEW t \in Tasks, BeginCreate(t) PROVE Hands'
  <2>0. call[t] = NoCall /\ \A u \in Tasks : task'[u] = task[u]
    BY <1>1 DEF BeginCreate, Hands, Requests, storeVars
  <2>1. task'[t].status \notin Polled
    BY <1>1, <2>0 DEF BeginCreate, HubInv, NotInserted, Polled
  <2>2. CASE SetRequest(t, "replayed") /\ UNCHANGED call
    BY <1>0, <1>1, <2>0, <2>1, <2>2, RequestMoves DEF BeginCreate
  <2>3. CASE SetRequest(t, "billing") /\ Begin(t, t, "initBilling")
    <3>1. Bills(t, t, InitSteps)' /\ \A c \in Callers \ {t} : call'[c] = call[c]
      BY <2>3, CallRecords, CallersApart DEF Bills, InitSteps
    <3> QED
      BY <1>0, <1>1, <2>0, <2>1, <2>3, <3>1, RequestMoves DEF BeginCreate
  <2> QED
    BY <1>1, <2>2, <2>3 DEF BeginCreate
<1>2. ASSUME NEW t \in Tasks, BillingInitialised(t) PROVE Hands'
  <2>0. call'[t] = NoCall /\ \A c \in Callers \ {t} : call'[c] = call[c]
    BY <1>2, CallersApart DEF BillingInitialised, Forget, HubInv, BillingOK, BillingType
  <2>1. task'[t].status \notin Polled /\ \A u \in Tasks : task'[u] = task[u]
    BY <1>2 DEF BillingInitialised, HubInv, NotInserted, Polled, storeVars
  <2>2. PICK s \in {"inserting", "rejected"} : SetRequest(t, s)
    BY <1>2 DEF BillingInitialised
  <2> QED
    BY <1>0, <1>2, <2>0, <2>1, <2>2, RequestMoves DEF BillingInitialised
<1>3. ASSUME NEW t \in Tasks, InsertTask(t) PROVE Hands'
  <2>0. call'[t] = NoCall /\ UNCHANGED call
    BY <1>3 DEF InsertTask, Hands, Requests, billingVars
  <2>1. /\ task'[t].status = "PENDING"
        /\ \A u \in Tasks \ {t} : task'[u].status = task[u].status
    BY <1>3 DEF InsertTask, HubInv, StoreType, TaskDoc
  <2>2. PICK s \in {"enqueueing", "recording"} : SetRequest(t, s)
    BY <1>3 DEF InsertTask
  <2> QED
    BY <1>0, <1>3, <2>0, <2>1, <2>2, RequestMoves DEF InsertTask, Polled
<1>4. ASSUME NEW t \in Tasks, RecordKey(t) PROVE Hands'
  <2>0. call'[t] = NoCall /\ UNCHANGED <<call, task>>
    BY <1>4 DEF RecordKey, Hands, Requests, billingVars, storeVars
  <2>1. task[t].status \notin Polled
    BY <1>4 DEF RecordKey, Hands, OnePoller, Released
  <2> QED
    BY <1>0, <1>4, <2>0, <2>1, RequestMoves DEF RecordKey
<1>5. ASSUME NEW k \in ApiKeys, CreditWallet(k) PROVE Hands'
  BY <1>0, <1>5, HandsUntouched DEF CreditWallet, storeVars
<1> QED
  BY <1>0, <1>a, <1>1, <1>2, <1>3, <1>4, <1>5, EnqueueHands, CancelHands, NoChanges
  DEF ApiStep, RequestDies

-----------------------------------------------------------------------------
(* The workers *)

(* A task that has a job in work is in no other hand. *)
LEMMA JobInWork ==
  ASSUME HubInv, Hands, NEW w \in Workers, worker[w].pc # "idle", NEW t, t = worker[w].task
  PROVE  /\ OwnJob(w) /\ AtWork(w) /\ t \in Tasks /\ request[t] = "accepted"
         /\ ~Released(t) /\ task[t].status \notin Polled
         /\ \A v \in Workers \ {w} : worker[v].pc # "idle" => worker[v].task # t
         /\ \A p \in Pollers : /\ \A s \in poller[p].batch : s.task # t
                               /\ poller[p].pc \in InHand => Current(p) # t
<1>1. OwnJob(w) /\ AtWork(w) /\ t \in Tasks
  BY HandsShape DEF Hands, OneHandler
<1>2. ~Released(t) /\ request[t] = "accepted"
  BY <1>1 DEF OwnJob, Released, Used, Hands, OneJob
<1>3. \A v \in Workers \ {w} : worker[v].pc # "idle" => worker[v].task # t
  <2>1. ASSUME NEW v \in Workers \ {w}, worker[v].pc # "idle", worker[v].task = t PROVE FALSE
    <3>1. OwnJob(v)
      BY <2>1 DEF Hands, OneHandler
    <3> QED
      BY <1>1, <2>1, <3>1 DEF OwnJob, Used, Hands, OneJob
  <2> QED
    BY <2>1
<1>4. ASSUME NEW p \in Pollers
      PROVE  /\ \A s \in poller[p].batch : s.task # t
             /\ poller[p].pc \in InHand => Current(p) # t
  <2>1. CASE poller[p].pc = "idle"
    BY <2>1 DEF Hands, OnePoller, InHand
  <2>2. CASE poller[p].pc # "idle"
    <3>1. AtPolls(p)
      BY <2>2 DEF Hands, OnePoller
    <3> QED
      BY <1>2, <3>1 DEF AtPolls
  <2> QED
    BY <2>1, <2>2
<1> QED
  BY <1>1, <1>2, <1>3, <1>4 DEF Hands, OnePoller

(* What a worker does to its own task disturbs no poller. *)
LEMMA PollersLeftAlone ==
  ASSUME HubInv, Hands, NEW t \in Tasks, ~Released(t),
         UNCHANGED <<request, poller, lock>>,
         \A p \in Pollers : call'[p] = call[p],
         \A u \in Tasks \ {t} : task'[u].status = task[u].status,
         \A u \in Tasks : Released(u) => Released(u)',
         task'[t].status \in Polled => Released(t)'
  PROVE  OnePoller'
<1>1. ASSUME NEW p \in Pollers, poller[p].pc # "idle" PROVE AtPolls(p)'
  <2>1. AtPolls(p)
    BY <1>1 DEF Hands, OnePoller
  <2>2. ASSUME NEW r \in poller[p].batch
        PROVE  Released(r.task)' /\ task'[r.task].status \in Polled \cup {"CANCELLED"}
    <3>1. PICK u \in Tasks : u = r.task
      BY HandsShape DEF Copies
    <3>2. u # t /\ Released(u)'
      BY <2>1, <3>1 DEF AtPolls
    <3> QED
      BY <2>1, <3>1, <3>2 DEF AtPolls
  <2>3. ASSUME poller[p].pc \in InHand
        PROVE  Released(Current(p))' /\ task'[Current(p)].status = task[Current(p)].status
    <3>1. PICK u \in Tasks : u = Current(p)
      BY <2>3, HandsShape
    <3>2. u # t /\ Released(u)'
      BY <2>1, <2>3, <3>1 DEF AtPolls
    <3> QED
      BY <3>1, <3>2 DEF Current, Released, Used
  <2> QED
    BY <2>1, <2>2, <2>3 DEF AtPolls, Bills, Current, InHand
<1> QED
  BY <1>1 DEF Hands, OnePoller

(* A handler goes on with its job. *)
LEMMA HandlerGoes ==
  ASSUME HubInv, Hands, NEW w \in Workers, worker[w].pc # "idle",
         NEW pc, pc # "idle", WorkerTo(w, pc),
         UNCHANGED <<request, job, poller, lock>>,
         \A c \in Callers \ {w} : call'[c] = call[c],
         \A u \in Tasks \ {worker[w].task} : task'[u].status = task[u].status,
         task'[worker[w].task].status \notin Polled,
         AtWork(w)'
  PROVE  Hands'
<1> DEFINE t == worker[w].task
<1>1. /\ OwnJob(w) /\ t \in Tasks /\ ~Released(t)
      /\ \A v \in Workers \ {w} : worker[v].pc # "idle" => worker[v].task # t
  BY JobInWork
<1>2. /\ worker'[w].pc = pc /\ worker'[w].task = t /\ worker'[w].job = worker[w].job
      /\ \A v \in Workers \ {w} : worker'[v] = worker[v]
  <2>1. worker \in [Workers -> Handlers] /\ worker[w] \in [pc : WorkerPc \ {"idle"}, task : Tasks, job : JobIds \cup {0}]
    BY HandsShape DEF HubInv, WorkerType
  <2> QED
    BY <2>1 DEF WorkerTo
<1>3. Requests' /\ OneJob'
  BY CallersApart DEF Hands, Requests, OneJob, Bills, Used
<1>4. OneHandler'
  <2>1. OwnJob(w)'
    BY <1>1, <1>2 DEF OwnJob
  <2>2. ASSUME NEW v \in Workers \ {w}, worker[v].pc # "idle" PROVE OwnJob(v)' /\ AtWork(v)'
    <3>1. OwnJob(v) /\ AtWork(v) /\ worker[v].task \in Tasks /\ worker[v].task # t
      BY <1>1, <2>2, HandsShape DEF Hands, OneHandler
    <3>2. OwnJob(v)'
      BY <1>2, <3>1 DEF OwnJob
    <3>3. AtWork(v)'
      BY <1>2, <3>1, CallersApart DEF AtWork, Bills
    <3> QED
      BY <3>2, <3>3
  <2>3. \A v \in Workers \ {w} : worker[v].pc = "idle" => call'[v] = NoCall
    BY CallersApart DEF Hands, OneHandler
  <2> QED
    BY <1>2, <2>1, <2>2, <2>3 DEF OneHandler
<1>5. OnePoller'
  <2>1. \A u \in Tasks : Released(u) => Released(u)'
    BY DEF Released, Used
  <2>2. \A p \in Pollers : call'[p] = call[p]
    BY CallersApart
  <2> QED
    BY <1>1, <2>1, <2>2, PollersLeftAlone
<1> QED
  BY <1>3, <1>4, <1>5 DEF Hands

(* A handler ends: its job is completed, or goes back to the queue. *)
LEMMA HandlerEnds ==
  ASSUME HubInv, Hands, NEW w \in Workers, worker[w].pc # "idle",
         worker' = [worker EXCEPT ![w] = NoHandler],
         NEW j, j = worker[w].job,
         \A i \in JobIds \ {j} : job'[i] = job[i],
         job'[j].task = job[j].task, job'[j].state \notin {"unused", "active"},
         UNCHANGED <<request, poller, lock>>,
         \A c \in Callers \ {w} : call'[c] = call[c], call'[w] = NoCall,
         \A u \in Tasks \ {worker[w].task} : task'[u].status = task[u].status,
         task'[worker[w].task].status \in Polled => job'[j].state = "completed"
  PROVE  Hands'
<1> DEFINE t == worker[w].task
<1>1. /\ OwnJob(w) /\ t \in Tasks /\ ~Released(t) /\ request[t] = "accepted"
      /\ \A v \in Workers \ {w} : worker[v].pc # "idle" => worker[v].task # t
  BY JobInWork
<1>2. /\ worker'[w] = NoHandler /\ \A v \in Workers \ {w} : worker'[v] = worker[v]
      /\ j \in JobIds /\ job[j].state = "active" /\ job[j].task = t
  BY <1>1 DEF OwnJob, HubInv, WorkerType
<1>3. Requests'
  BY CallersApart DEF Hands, Requests, Bills
<1>4. OneJob'
  BY <1>2 DEF Hands, OneJob, Used
<1>5. OneHandler'
  <2>1. ASSUME NEW v \in Workers \ {w}, worker[v].pc # "idle" PROVE OwnJob(v)' /\ AtWork(v)'
    <3>1. /\ OwnJob(v) /\ AtWork(v) /\ worker[v].task \in Tasks /\ worker[v].task # t
          /\ worker[v].job # j
      BY <1>1, <1>2, <2>1, HandsShape DEF Hands, OneHandler, OwnJob
    <3>2. OwnJob(v)'
      BY <1>2, <3>1, HandsShape DEF OwnJob, NoHandler
    <3>3. AtWork(v)'
      BY <1>2, <3>1, CallersApart DEF AtWork, Bills
    <3> QED
      BY <3>2, <3>3
  <2>2. \A v \in Workers \ {w} : worker[v].pc = "idle" => call'[v] = NoCall
    BY CallersApart DEF Hands, OneHandler
  <2> QED
    BY <1>2, <2>1, <2>2 DEF OneHandler, NoHandler
<1>6. OnePoller'
  <2>1. \A u \in Tasks : Released(u) => Released(u)'
    BY <1>1, <1>2 DEF Released, Used
  <2>2. \A p \in Pollers : call'[p] = call[p]
    BY CallersApart
  <2>3. PICK u \in Tasks : u = t
    BY <1>1
  <2>4. task'[u].status \in Polled => Released(u)'
    BY <1>1, <1>2, <2>3 DEF Released, Used, Hands, OneJob
  <2>5. ~Released(u) /\ \A v \in Tasks \ {u} : task'[v].status = task[v].status
    BY <1>1, <2>3
  <2> QED
    BY <2>1, <2>2, <2>4, <2>5, PollersLeftAlone
<1> QED
  BY <1>3, <1>4, <1>5, <1>6 DEF Hands

(* Bull moves a job nobody has in work. *)
LEMMA JobMoves ==
  ASSUME HubInv, Hands, NEW j \in JobIds, job[j].state \notin {"unused", "completed"},
         \A w \in Workers : worker[w].job # j,
         \A i \in JobIds \ {j} : job'[i] = job[i],
         job'[j].task = job[j].task, job'[j].state # "unused",
         UNCHANGED <<request, worker, poller, lock, call, task>>
  PROVE  Hands'
<1>1. Requests' /\ OneJob'
  BY DEF Hands, Requests, OneJob, Bills, Used
<1>2. OneHandler'
  <2>1. ASSUME NEW w \in Workers, worker[w].pc # "idle" PROVE OwnJob(w)' /\ AtWork(w)'
    BY <2>1 DEF Hands, OneHandler, OwnJob, AtWork, Bills
  <2> QED
    BY <2>1 DEF Hands, OneHandler
<1>3. OnePoller'
  <2>0. job[j].task \in Tasks /\ ~Released(job[j].task)
    BY HandsShape DEF Used, Released
  <2>1. \A u \in Tasks : Released(u) => Released(u)'
    BY DEF Released, Used
  <2>2. task'[job[j].task].status \notin Polled
    BY <2>0 DEF Hands, OnePoller
  <2> QED
    BY <2>0, <2>1, <2>2, PollersLeftAlone
<1> QED
  BY <1>1, <1>2, <1>3 DEF Hands

(* A job goes into the hands of one handler. *)
LEMMA TakeJobHands ==
  ASSUME HubInv, Hands, NEW w \in Workers, NEW j \in JobIds, TakeJob(w, j),
         UNCHANGED <<request, poller, lock>>
  PROVE  Hands'
<1>0. /\ UNCHANGED <<call, task>> /\ worker[w].pc = "idle" /\ job[j].state = "waiting"
      /\ worker'[w] = [pc |-> "loading", task |-> job[j].task, job |-> j]
      /\ \A v \in Workers \ {w} : worker'[v] = worker[v]
      /\ \A i \in JobIds \ {j} : job'[i] = job[i]
      /\ job'[j].state = "active" /\ job'[j].task = job[j].task
  BY DEF TakeJob, WorkerAt, billingVars, storeVars, HubInv, WorkerType, JobOK, JobType
<1>1. \A v \in Workers : worker[v].job # j
  <2>1. ASSUME NEW v \in Workers PROVE worker[v].job # j
    <3>1. CASE worker[v].pc = "idle"
      BY <3>1, HandsShape DEF NoHandler
    <3>2. CASE worker[v].pc # "idle"
      BY <1>0, <3>2 DEF Hands, OneHandler, OwnJob
    <3> QED
      BY <3>1, <3>2
  <2> QED
    BY <2>1
<1>2. Requests' /\ OneJob'
  BY <1>0 DEF Hands, Requests, OneJob, Bills, Used
<1>3. OneHandler'
  <2>1. OwnJob(w)' /\ AtWork(w)'
    BY <1>0, <1>1 DEF OwnJob, AtWork, Hands, OneHandler
  <2>2. ASSUME NEW v \in Workers \ {w}, worker[v].pc # "idle" PROVE OwnJob(v)' /\ AtWork(v)'
    BY <1>0, <1>1, <2>2 DEF OwnJob, AtWork, Bills, Hands, OneHandler
  <2> QED
    BY <1>0, <2>1, <2>2 DEF Hands, OneHandler
<1>4. OnePoller'
  <2>0. job[j].task \in Tasks /\ ~Released(job[j].task)
    BY <1>0, HandsShape DEF Used, Released
  <2>1. \A u \in Tasks : Released(u) => Released(u)'
    BY <1>0 DEF Released, Used
  <2>2. task'[job[j].task].status \notin Polled
    BY <1>0, <2>0 DEF Hands, OnePoller
  <2> QED
    BY <1>0, <2>0, <2>1, <2>2, PollersLeftAlone
<1> QED
  BY <1>2, <1>3, <1>4 DEF Hands

(* What a return and a throw do to the queue *)
LEMMA EndOfHandler ==
  ASSUME HubInv, Hands, NEW w \in Workers, worker[w].pc # "idle", Return(w) \/ Throw(w)
  PROVE  LET j == worker[w].job IN
         /\ worker' = [worker EXCEPT ![w] = NoHandler]
         /\ \A i \in JobIds \ {j} : job'[i] = job[i]
         /\ job'[j].task = job[j].task /\ job'[j].state \notin {"unused", "active"}
         /\ Return(w) => job'[j].state = "completed"
<1>1. worker[w].job \in JobIds /\ worker[w].job # 0
  BY HandsShape DEF Hands, OneHandler, OwnJob
<1>2. CASE Return(w)
  BY <1>1, <1>2 DEF Return, HubInv, JobOK, JobType
<1>3. CASE Throw(w)
  <2>1. job' = AttemptFailed(job, worker[w].job)
    BY <1>1, <1>3 DEF Throw
  <2>2. /\ job'[worker[w].job].task = job[worker[w].job].task
        /\ job'[worker[w].job].state \in {"delayed", "failed"}
        /\ \A i \in JobIds \ {worker[w].job} : job'[i] = job[i]
    BY <1>1, <2>1 DEF AttemptFailed, HubInv, JobOK, JobType
  <2>3. ~Return(w) \/ job'[worker[w].job].state = "completed"
    BY <1>1 DEF Return, HubInv, JobOK, JobType
  <2> QED
    BY <1>3, <2>2, <2>3 DEF Throw
<1> QED
  BY <1>2, <1>3

(* findOneAndUpdate of one task, filtered on its status *)
LEMMA StatusMoves ==
  ASSUME HubInv, NEW t \in Tasks, NEW from, NEW to, UpdateStatus(t, from, to)
  PROVE  /\ \A u \in Tasks \ {t} : task'[u].status = task[u].status
         /\ task'[t].status = IF task[t].status \in from THEN to ELSE task[t].status
BY DEF UpdateStatus, HubInv, StoreType, TaskDoc

(* No step of a worker reaches for another hand's task. *)
LEMMA WorkerHands ==
  ASSUME HubInv, Undisturbed, Hands, WorkerStep, UNCHANGED <<apiVars, pollVars>>
  PROVE  Hands'
<1>0. UNCHANGED <<request, poller, lock>>
  BY DEF apiVars, pollVars
<1>a. /\ "crash" \notin Environment /\ "storeError" \notin Environment
      /\ "overrun" \notin Environment
  BY DEF Undisturbed
<1>b. ASSUME NEW w \in Workers, worker[w].pc # "idle", Return(w) \/ Throw(w),
             \A c \in Callers \ {w} : call'[c] = call[c], call'[w] = NoCall,
             \A u \in Tasks \ {worker[w].task} : task'[u].status = task[u].status,
             \/ task'[worker[w].task].status = task[worker[w].task].status
             \/ Return(w)
      PROVE  Hands'
  <2>1. task[worker[w].task].status \notin Polled
    BY <1>b, JobInWork
  <2> QED
    BY <1>0, <1>b, <2>1, EndOfHandler, HandlerEnds
<1>1. ASSUME NEW w \in Workers, LoadTask(w) \/ SubmitThrows(w) \/ FailUnroutable(w)
                                \/ Submit(w) \/ SubmitRefused(w) \/ SaveThrows(w)
                                \/ SaveAccepted(w) \/ SaveAnswer(w) \/ FailSubmission(w)
      PROVE  Hands'
  <2>0. worker[w].pc \notin {"idle", "settling", "refunding"}
    BY <1>1 DEF LoadTask, SubmitThrows, FailUnroutable, Submit, SubmitRefused, SaveThrows,
       SaveAccepted, SaveAnswer, FailSubmission, WorkerAt
  <2> DEFINE t == worker[w].task
  <2>1. OwnJob(w) /\ AtWork(w) /\ t \in Tasks /\ call[w] = NoCall /\ task[t].status \notin Polled
    BY <2>0, JobInWork DEF AtWork
  <2>2. \A pc : WorkerTo(w, pc) => worker'[w].pc = pc /\ worker'[w].task = t
    BY WorkerMoves
  <2>3. CASE UNCHANGED <<call, task>> /\ (Return(w) \/ Throw(w))
    BY <1>b, <2>0, <2>1, <2>3
  <2>4. ASSUME UNCHANGED <<call, task, job>>,
               NEW pc \in {"submitting", "unroutable", "accepted", "answered", "fatal"},
               WorkerTo(w, pc), task[t].status \in {"PENDING", "CANCELLED"}
        PROVE  Hands'
    <3>1. AtWork(w)'
      BY <2>1, <2>2, <2>4 DEF AtWork
    <3> QED
      BY <1>0, <2>0, <2>1, <2>4, <3>1, HandlerGoes
  <2>5. CASE LoadTask(w)
    BY <2>3, <2>4, <2>5 DEF LoadTask, billingVars, storeVars
  <2>6. CASE SubmitThrows(w)
    BY <2>3, <2>6 DEF SubmitThrows, billingVars, storeVars
  <2>7. CASE Submit(w) \/ SubmitRefused(w) \/ SaveThrows(w)
    <3>1. task[t].status \in {"PENDING", "CANCELLED"} /\ UNCHANGED <<call, task>>
      BY <1>a, <2>1, <2>7 DEF Submit, SubmitRefused, SaveThrows, WorkerAt, AtWork,
         billingVars, storeVars
    <3>2. \/ Throw(w)
          \/ UNCHANGED job /\ \E pc \in {"accepted", "answered", "fatal"} : WorkerTo(w, pc)
      BY <1>a, <2>7 DEF Submit, SubmitRefused, SaveThrows
    <3> QED
      BY <2>3, <2>4, <3>1, <3>2
  <2>8. CASE FailUnroutable(w) \/ SaveAccepted(w)
    <3>1. Return(w) /\ UNCHANGED call
      BY <2>8 DEF FailUnroutable, SaveAccepted, billingVars
    <3>2. \A u \in Tasks \ {t} : task'[u].status = task[u].status
      BY <2>1, <2>8, StatusMoves DEF FailUnroutable, SaveAccepted
    <3> QED
      BY <1>b, <2>0, <2>1, <3>1, <3>2
  <2>9. CASE SaveAnswer(w) \/ FailSubmission(w)
    <3>1. PICK s \in {"SUCCESS", "FAILED"}, step \in {"settle", "refund"}, pc \in {"settling", "refunding"} :
            /\ UpdateStatus(t, {"PENDING"}, s) /\ Begin(w, t, step) /\ WorkerTo(w, pc)
            /\ \/ s = "SUCCESS" /\ step = "settle" /\ pc = "settling"
               \/ s = "FAILED" /\ step = "refund" /\ pc = "refunding"
      BY <2>9 DEF SaveAnswer, FailSubmission
    <3>2. /\ \A u \in Tasks \ {t} : task'[u].status = task[u].status
          /\ task'[t].status = IF task[t].status = "PENDING" THEN s ELSE task[t].status
      BY <2>1, <3>1, StatusMoves
    <3>3. task[t].status \in {"PENDING", "CANCELLED"}
      BY <2>1, <2>9 DEF SaveAnswer, FailSubmission, WorkerAt, AtWork
    <3>4. /\ \A c \in Callers \ {w} : call'[c] = call[c]
          /\ call'[w].step = step /\ call'[w].task = t
      BY <3>1, CallRecords, CallersApart
    <3>5. AtWork(w)' /\ task'[t].status \notin Polled /\ pc # "idle"
      BY <2>2, <3>1, <3>2, <3>3, <3>4
      DEF AtWork, Bills, SettleSteps, RefundSteps, Polled
    <3> QED
      BY <1>0, <2>0, <2>9, <3>1, <3>2, <3>4, <3>5, HandlerGoes DEF SaveAnswer, FailSubmission
  <2> QED
    BY <1>1, <2>5, <2>6, <2>7, <2>8, <2>9
<1>2. ASSUME NEW w \in Workers, FinishJob(w) PROVE Hands'
  <2>1. /\ call'[w] = NoCall /\ \A c \in Callers \ {w} : call'[c] = call[c]
        /\ worker[w].pc # "idle" /\ Return(w) /\ UNCHANGED task
    BY <1>2, CallersApart
    DEF FinishJob, Forget, HubInv, BillingOK, BillingType, storeVars
  <2> QED
    BY <1>b, <2>1
<1>3. ASSUME NEW j \in JobIds, TakeBack(j) PROVE Hands'
  <2>1. \A w \in Workers : worker[w].job # j
    BY <1>3, <1>a DEF TakeBack, Orphaned
  <2>2. UNCHANGED worker
    BY <1>3, <2>1 DEF TakeBack, HubInv, WorkerType
  <2>3. /\ \A i \in JobIds \ {j} : job'[i] = job[i]
        /\ job'[j].task = job[j].task /\ job'[j].state # "unused" /\ job[j].state = "active"
    BY <1>3 DEF TakeBack, AttemptFailed, HubInv, JobOK, JobType
  <2> QED
    BY <1>0, <1>3, <2>1, <2>2, <2>3, JobMoves DEF TakeBack, billingVars, storeVars
<1>4. ASSUME NEW j \in JobIds, BackoffEnds(j) PROVE Hands'
  <2>1. /\ \A i \in JobIds \ {j} : job'[i] = job[i]
        /\ job'[j].task = job[j].task /\ job'[j].state = "waiting" /\ job[j].state = "delayed"
        /\ UNCHANGED <<worker, call, task>>
    BY <1>4 DEF BackoffEnds, Promote, HubInv, JobOK, JobType, billingVars, storeVars
  <2>2. ASSUME NEW w \in Workers PROVE worker[w].job # j
    <3>1. CASE worker[w].pc = "idle"
      BY <3>1, HandsShape DEF NoHandler
    <3>2. CASE worker[w].pc # "idle"
      BY <2>1, <3>2 DEF Hands, OneHandler, OwnJob
    <3> QED
      BY <3>1, <3>2
  <2> QED
    BY <1>0, <2>1, <2>2, JobMoves
<1> QED
  BY <1>0, <1>a, <1>1, <1>2, <1>3, <1>4, TakeJobHands DEF WorkerStep, WorkerDies

-----------------------------------------------------------------------------
(* The pollers *)

(* The handler with the lock moves on; the others are idle. *)
LEMMA PollerGoes ==
  ASSUME HubInv, Hands, NEW p \in Pollers,
         \A q \in Pollers \ {p} : poller[q].pc = "idle" /\ poller'[q] = poller[q],
         UNCHANGED <<request, job, worker>>,
         \A c \in Callers \ {p} : call'[c] = call[c],
         \A u \in Tasks : task'[u].status = task[u].status \/ task[u].status \in Polled,
         IF poller'[p].pc = "idle" THEN poller'[p].batch = {} /\ call'[p] = NoCall
         ELSE lock' = p /\ AtPolls(p)'
  PROVE  Hands'
<1>1. Requests' /\ OneJob'
  BY CallersApart DEF Hands, Requests, OneJob, Bills, Used
<1>2. OneHandler'
  <2>1. ASSUME NEW w \in Workers, worker[w].pc # "idle" PROVE OwnJob(w)' /\ AtWork(w)'
    <3>1. /\ OwnJob(w) /\ AtWork(w) /\ worker[w].task \in Tasks
          /\ task[worker[w].task].status \notin Polled
      BY <2>1, JobInWork
    <3>2. task'[worker[w].task].status = task[worker[w].task].status
      BY <3>1
    <3> QED
      BY <3>1, <3>2, CallersApart DEF OwnJob, AtWork, Bills
  <2> QED
    BY <2>1, CallersApart DEF Hands, OneHandler
<1>3. OnePoller'
  <2>1. \A t \in Tasks : task'[t].status \in Polled => Released(t)'
    BY DEF Hands, OnePoller, Released, Used
  <2>2. \A q \in Pollers \ {p} : poller'[q].batch = {} /\ call'[q] = NoCall
    BY CallersApart DEF Hands, OnePoller
  <2> QED
    BY <2>1, <2>2 DEF OnePoller
<1> QED
  BY <1>1, <1>2, <1>3 DEF Hands

(* Whoever is not idle has the lock, and the others have not. *)
LEMMA LockHolder ==
  ASSUME HubInv, Hands, NEW p \in Pollers, poller[p].pc # "idle" \/ lock = None
  PROVE  /\ \A q \in Pollers \ {p} : poller[q].pc = "idle"
         /\ poller[p].pc # "idle" => lock = p /\ AtPolls(p)
BY PopulationAssumption DEF Hands, OnePoller

(* A batch holds one copy of each task. *)
LEMMA BatchHands ==
  ASSUME HubInv, Hands, NEW p \in Pollers, FindPollable(p), AtPolls(p), UNCHANGED <<request, job>>
  PROVE  AtPolls(p)'
<1>1. /\ poller'[p].pc = "polling" /\ UNCHANGED <<call, task>>
      /\ poller'[p].batch = {CopyOf(t) : t \in FirstDue(BatchSize)}
      /\ poller[p].pc = "scanning"
  BY DEF FindPollable, ReadBatch, PollerAt, billingVars, storeVars, HubInv, PollType
<1>2. \A s \in poller'[p].batch : \E t \in Tasks : s = CopyOf(t) /\ task[t].status \in Polled
  BY <1>1 DEF FirstDue, Pollable, Polled
<1>3. \A s \in poller'[p].batch : Released(s.task) /\ task[s.task].status \in Polled
  BY <1>2 DEF CopyOf, Hands, OnePoller
<1>4. \A r, s \in poller'[p].batch : r.task = s.task => r = s
  BY <1>2 DEF CopyOf
<1> QED
  BY <1>1, <1>3, <1>4 DEF AtPolls, InHand, Released, Used

(* Off a poller's batch, and into its hand *)
LEMMA WorkOnHands ==
  ASSUME HubInv, Hands, NEW p \in Pollers, AtPolls(p), NEW s \in poller[p].batch,
         NEW pc \in InHand, WorkOn(p, s, pc), UNCHANGED <<request, job>>,
         \A u \in Tasks \ {s.task} : task'[u].status = task[u].status,
         pc = "refunding" =>
           /\ call'[p].task = s.task /\ call'[p].step = "refund"
           /\ task'[s.task].status \in {"FAILED", "TIMEOUT", "CANCELLED"},
         pc # "refunding" =>
           call'[p] = NoCall /\ pc # "settling" /\ task'[s.task].status = task[s.task].status
  PROVE  AtPolls(p)'
<1>1. /\ poller'[p].pc = pc /\ poller'[p].current = s
      /\ poller'[p].batch = poller[p].batch \ {s}
  BY DEF WorkOn, HubInv, PollType
<1>2. \A r \in poller[p].batch :
        r.task \in Tasks /\ Released(r.task) /\ task[r.task].status \in Polled \cup {"CANCELLED"}
  BY HandsShape DEF AtPolls, Copies
<1>3. \A r \in poller'[p].batch : r \in poller[p].batch /\ r.task # s.task
  BY <1>1 DEF AtPolls
<1>4. \A r \in poller'[p].batch :
        Released(r.task)' /\ task'[r.task].status \in Polled \cup {"CANCELLED"}
  BY <1>2, <1>3 DEF Released, Used
<1>5. \A q, r \in poller'[p].batch : q.task = r.task => q = r
  BY <1>3 DEF AtPolls
<1>6. Released(s.task)'
  BY <1>2 DEF Released, Used
<1> QED
  BY <1>1, <1>2, <1>3, <1>4, <1>5, <1>6 DEF AtPolls, Current, InHand, Bills, RefundSteps

(* The hand is emptied, and the batch stays or loses a copy. *)
LEMMA HandEmptied ==
  ASSUME HubInv, Hands, NEW p \in Pollers, AtPolls(p), poller[p].pc # "idle",
         poller'[p].pc \notin InHand, call'[p] = NoCall, UNCHANGED <<request, job>>,
         poller'[p].batch \subseteq poller[p].batch,
         \A u \in Tasks : \/ task'[u].status = task[u].status
                          \/ poller[p].pc \in InHand /\ u = Current(p)
                          \/ task'[u].status \in Polled
  PROVE  AtPolls(p)'
<1>1. \A r \in poller'[p].batch :
        r.task \in Tasks /\ Released(r.task) /\ task[r.task].status \in Polled \cup {"CANCELLED"}
  BY HandsShape DEF AtPolls, Copies
<1>2. poller[p].pc \in InHand => \A r \in poller'[p].batch : r.task # Current(p)
  BY DEF AtPolls
<1>3. \A r \in poller'[p].batch :
        Released(r.task)' /\ task'[r.task].status \in Polled \cup {"CANCELLED"}
  BY <1>1, <1>2 DEF Released, Used
<1> QED
  BY <1>3 DEF AtPolls, InHand

(* A poller that goes on with the task in its hand *)
LEMMA HandKept ==
  ASSUME HubInv, Hands, NEW p \in Pollers, AtPolls(p), poller[p].pc \in InHand,
         NEW pc \in {"settling", "refunding"}, PollerTo(p, pc), UNCHANGED <<request, job>>,
         \A u \in Tasks \ {Current(p)} : task'[u].status = task[u].status,
         call'[p].task = Current(p),
         pc = "refunding" =>
           call'[p].step = "refund" /\ task'[Current(p)].status \in {"FAILED", "CANCELLED"},
         pc = "settling" =>
           call'[p].step = "settle" /\ task'[Current(p)].status \in Polled \cup {"CANCELLED"}
  PROVE  AtPolls(p)'
<1>1. /\ poller'[p].pc = pc /\ poller'[p].current = poller[p].current
      /\ poller'[p].batch = poller[p].batch
  BY DEF PollerTo, HubInv, PollType
<1>2. PICK u \in Tasks : u = Current(p) /\ Released(u)
  BY HandsShape DEF AtPolls
<1>3. \A r \in poller[p].batch :
        r.task \in Tasks \ {u} /\ Released(r.task) /\ task[r.task].status \in Polled \cup {"CANCELLED"}
  BY <1>2, HandsShape DEF AtPolls, Copies
<1>4. \A r \in poller'[p].batch :
        Released(r.task)' /\ task'[r.task].status \in Polled \cup {"CANCELLED"} /\ r.task # u
  BY <1>1, <1>2, <1>3 DEF Released, Used
<1>5. Released(u)'
  BY <1>2 DEF Released, Used
<1>6. \A q, r \in poller'[p].batch : q.task = r.task => q = r
  BY <1>1 DEF AtPolls
<1>7. poller'[p].current.task = u
  BY <1>1, <1>2 DEF Current
<1> QED
  BY <1>1, <1>2, <1>4, <1>5, <1>6, <1>7 DEF AtPolls, Current, Bills, SettleSteps, RefundSteps, InHand

(* No step of a poller reaches for another hand's task. *)
LEMMA PollHands ==
  ASSUME HubInv, Undisturbed, Hands, PollStep, UNCHANGED <<apiVars, job, worker>>
  PROVE  Hands'
<1>0. /\ UNCHANGED <<request, job, worker>>
      /\ poller \in [Pollers -> [pc : PollerPc, batch : SUBSET Copies,
                                 current : Copies \cup {NoCopy}]]
  BY DEF apiVars, HubInv, PollType
<1>a. /\ "crash" \notin Environment /\ "storeError" \notin Environment
      /\ "overrun" \notin Environment
  BY DEF Undisturbed
<1>b. ASSUME NEW p \in Pollers, poller[p].pc # "idle" \/ lock = None,
             \A q \in Pollers \ {p} : poller'[q] = poller[q],
             \A c \in Callers \ {p} : call'[c] = call[c],
             \A u \in Tasks : task'[u].status = task[u].status \/ task[u].status \in Polled,
             IF poller'[p].pc = "idle" THEN poller'[p].batch = {} /\ call'[p] = NoCall
             ELSE lock' = p /\ AtPolls(p)'
      PROVE  Hands'
  BY <1>0, <1>b, LockHolder, PollerGoes
<1>1. ASSUME NEW p \in Pollers, AcquireLock(p) PROVE Hands'
  <2>1. /\ poller'[p].pc = "scanning" /\ poller'[p].batch = {} /\ call'[p] = NoCall
        /\ UNCHANGED <<call, task>> /\ lock' = p /\ lock = None
        /\ \A q \in Pollers \ {p} : poller'[q] = poller[q]
    BY <1>0, <1>1 DEF AcquireLock, PollerTo, PollerAt, Hands, OnePoller, billingVars, storeVars
  <2>2. AtPolls(p)'
    BY <2>1 DEF AtPolls, InHand
  <2> QED
    BY <1>b, <2>1, <2>2
<1>2. ASSUME NEW p \in Pollers, FindPollable(p) PROVE Hands'
  <2>1. /\ poller[p].pc = "scanning" /\ poller'[p].pc = "polling" /\ UNCHANGED <<call, task, lock>>
        /\ \A q \in Pollers \ {p} : poller'[q] = poller[q]
    BY <1>0, <1>2 DEF FindPollable, ReadBatch, PollerAt, billingVars, storeVars
  <2>2. AtPolls(p)' /\ lock' = p
    BY <1>0, <1>2, <2>1, LockHolder, BatchHands
  <2> QED
    BY <1>b, <2>1, <2>2
<1>3. ASSUME NEW p \in Pollers, ReleaseLock(p) PROVE Hands'
  <2>1. /\ poller[p].pc = "polling" /\ poller'[p] = Idle /\ UNCHANGED <<call, task>>
        /\ \A q \in Pollers \ {p} : poller'[q] = poller[q]
    BY <1>0, <1>3 DEF ReleaseLock, Between, PollerAt, billingVars, storeVars
  <2>2. call'[p] = NoCall
    BY <2>1, LockHolder DEF AtPolls
  <2> QED
    BY <1>b, <2>1, <2>2 DEF Idle
<1>4. ASSUME NEW p \in Pollers, NEW s \in poller[p].batch, SkipUntraceable(p, s) \/ DeferPoll(p, s)
      PROVE  Hands'
  <2>1. /\ poller[p].pc = "polling" /\ poller'[p].pc = "polling" /\ UNCHANGED <<call, lock>>
        /\ poller'[p].batch \subseteq poller[p].batch
        /\ \A q \in Pollers \ {p} : poller'[q] = poller[q]
    BY <1>0, <1>4 DEF SkipUntraceable, DeferPoll, Between, PollerAt, billingVars
  <2>2. \A u \in Tasks : task'[u].status = task[u].status
    BY <1>4 DEF SkipUntraceable, DeferPoll, DeferNextPoll, storeVars, HubInv, StoreType, TaskDoc
  <2>3. AtPolls(p) /\ lock' = p /\ call'[p] = NoCall
    BY <2>1, LockHolder DEF AtPolls
  <2>4. AtPolls(p)'
    BY <1>0, <2>1, <2>2, <2>3, HandEmptied DEF InHand
  <2> QED
    BY <1>b, <2>1, <2>2, <2>3, <2>4
<1>5. ASSUME NEW p \in Pollers, NEW s \in poller[p].batch, TimeOut(p, s) PROVE Hands'
  <2>0. s.task \in Tasks /\ poller[p].pc = "polling"
    BY <1>5, HandsShape DEF TimeOut, Between, PollerAt, Copies
  <2>1. AtPolls(p) /\ lock' = p
    BY <1>5, <2>0, LockHolder DEF TimeOut
  <2>2. /\ \A u \in Tasks \ {s.task} : task'[u].status = task[u].status
        /\ task'[s.task].status = IF task[s.task].status \in Polled THEN "TIMEOUT" ELSE task[s.task].status
    BY <1>5, <2>0, StatusMoves DEF TimeOut, Polled
  <2>3. /\ \A c \in Callers \ {p} : call'[c] = call[c]
        /\ call'[p].step = "refund" /\ call'[p].task = s.task
    BY <1>5, CallRecords, CallersApart DEF TimeOut
  <2>4. /\ poller'[p].pc = "refunding" /\ \A q \in Pollers \ {p} : poller'[q] = poller[q]
    BY <1>0, <1>5 DEF TimeOut, WorkOn
  <2>5. task'[s.task].status \in {"FAILED", "TIMEOUT", "CANCELLED"}
    BY <2>1, <2>2 DEF AtPolls
  <2>6. AtPolls(p)'
    <3>1. WorkOn(p, s, "refunding") /\ "refunding" \in InHand
      BY <1>5 DEF TimeOut, InHand
    <3> QED
      BY <1>0, <2>1, <2>2, <2>3, <2>5, <3>1, WorkOnHands
  <2> QED
    BY <1>b, <2>0, <2>1, <2>2, <2>3, <2>4, <2>6
<1>6. ASSUME NEW p \in Pollers, NEW s \in poller[p].batch, Query(p, s) PROVE Hands'
  <2>1. PICK pc \in {"succeeded", "failed", "processing", "retryable", "fatal"} : WorkOn(p, s, pc)
    BY <1>6 DEF Query
  <2>2. /\ poller[p].pc = "polling" /\ poller'[p].pc = pc /\ UNCHANGED <<call, task, lock>>
        /\ \A q \in Pollers \ {p} : poller'[q] = poller[q]
    BY <1>0, <1>6, <2>1 DEF Query, Between, PollerAt, WorkOn, billingVars, storeVars
  <2>3. AtPolls(p) /\ lock' = p /\ call'[p] = NoCall
    BY <2>2, LockHolder DEF AtPolls
  <2>4. AtPolls(p)'
    BY <1>0, <2>1, <2>2, <2>3, WorkOnHands DEF InHand
  <2> QED
    BY <1>b, <2>2, <2>3, <2>4
<1>7. ASSUME NEW p \in Pollers, StillRunning(p) \/ RetryLater(p) PROVE Hands'
  <2>1. /\ poller[p].pc \in {"processing", "retryable"} /\ NextInBatch(p) /\ UNCHANGED <<call, lock>>
    BY <1>7 DEF StillRunning, RetryLater, PollerAt, billingVars
  <2>2. /\ poller'[p].pc = "polling" /\ poller'[p].batch = poller[p].batch
        /\ \A q \in Pollers \ {p} : poller'[q] = poller[q]
    BY <1>0, <2>1 DEF NextInBatch
  <2>3. \A u \in Tasks : \/ task'[u].status = task[u].status
                         \/ /\ task[u].status = "SUBMITTED" /\ task'[u].status = "PROCESSING"
                            /\ u = Current(p)
    <3>1. CASE StillRunning(p)
      BY <3>1 DEF StillRunning, HubInv, StoreType, TaskDoc, Current
    <3>2. CASE RetryLater(p)
      BY <3>2 DEF RetryLater, DeferNextPoll, HubInv, StoreType, TaskDoc
    <3> QED
      BY <1>7, <3>1, <3>2
  <2>4. AtPolls(p) /\ lock' = p /\ call'[p] = NoCall
    BY <2>1, LockHolder DEF AtPolls
  <2>5. AtPolls(p)'
    BY <1>0, <2>1, <2>2, <2>3, <2>4, HandEmptied DEF InHand
  <2> QED
    BY <1>b, <2>1, <2>2, <2>3, <2>4, <2>5 DEF Polled
<1>8. ASSUME NEW p \in Pollers, FailTask(p) \/ BeginSettle(p) PROVE Hands'
  <2>0. poller[p].pc \in {"failed", "fatal", "succeeded"} /\ UNCHANGED lock
    BY <1>8 DEF FailTask, BeginSettle, PollerAt
  <2>1. AtPolls(p) /\ lock' = p /\ Current(p) \in Tasks
    BY <2>0, LockHolder, HandsShape DEF InHand
  <2>2. task[Current(p)].status \in Polled \cup {"CANCELLED"}
    BY <2>0, <2>1 DEF AtPolls, InHand
  <2>3. CASE FailTask(p)
    <3>1. /\ \A u \in Tasks \ {Current(p)} : task'[u].status = task[u].status
          /\ task'[Current(p)].status =
               IF task[Current(p)].status \in Polled THEN "FAILED" ELSE task[Current(p)].status
      BY <2>1, <2>3, StatusMoves DEF FailTask, Polled
    <3>2. /\ \A c \in Callers \ {p} : call'[c] = call[c]
          /\ call'[p].step = "refund" /\ call'[p].task = Current(p)
      BY <2>3, CallRecords, CallersApart DEF FailTask
    <3>3. AtPolls(p)'
      <4>1. PollerTo(p, "refunding") /\ poller[p].pc \in InHand
        BY <2>0, <2>3 DEF FailTask, InHand
      <4> QED
        BY <1>0, <2>1, <2>2, <3>1, <3>2, <4>1, HandKept
    <3>4. poller'[p].pc = "refunding" /\ \A q \in Pollers \ {p} : poller'[q] = poller[q]
      BY <1>0, <2>3 DEF FailTask, PollerTo
    <3>5. \A u \in Tasks : task'[u].status = task[u].status \/ task[u].status \in Polled
      BY <3>1
    <3> QED
      BY <1>b, <2>0, <2>1, <3>2, <3>3, <3>4, <3>5
  <2>4. CASE BeginSettle(p)
    <3>1. UNCHANGED task
      BY <2>4 DEF BeginSettle, storeVars
    <3>2. /\ \A c \in Callers \ {p} : call'[c] = call[c]
          /\ call'[p].step = "settle" /\ call'[p].task = Current(p)
      BY <2>4, CallRecords, CallersApart DEF BeginSettle
    <3>3. AtPolls(p)'
      <4>1. PollerTo(p, "settling") /\ poller[p].pc \in InHand
        BY <2>0, <2>4 DEF BeginSettle, InHand
      <4> QED
        BY <1>0, <2>1, <2>2, <3>1, <3>2, <4>1, HandKept
    <3>4. poller'[p].pc = "settling" /\ \A q \in Pollers \ {p} : poller'[q] = poller[q]
      BY <1>0, <2>4 DEF BeginSettle, PollerTo
    <3> QED
      BY <1>b, <2>0, <2>1, <3>1, <3>2, <3>3, <3>4
  <2> QED
    BY <1>8, <2>3, <2>4
<1>9. ASSUME NEW p \in Pollers, Succeed(p) \/ SettleThrew(p) \/ RefundEnded(p) PROVE Hands'
  <2>0. /\ poller[p].pc \in {"settling", "refunding"} /\ UNCHANGED lock
        /\ Forget(p) /\ NextInBatch(p)
    BY <1>9 DEF Succeed, SettleThrew, RefundEnded, PollerAt
  <2>1. AtPolls(p) /\ lock' = p /\ Current(p) \in Tasks
    BY <2>0, LockHolder, HandsShape DEF InHand
  <2>2. /\ poller'[p].pc = "polling" /\ poller'[p].batch = poller[p].batch
        /\ \A q \in Pollers \ {p} : poller'[q] = poller[q]
    BY <1>0, <2>0 DEF NextInBatch
  <2>3. call'[p] = NoCall /\ \A c \in Callers \ {p} : call'[c] = call[c]
    BY <2>0, CallersApart DEF Forget, HubInv, BillingOK, BillingType
  <2>4. /\ \A u \in Tasks \ {Current(p)} : task'[u].status = task[u].status
        /\ \/ task'[Current(p)].status = task[Current(p)].status
           \/ task[Current(p)].status \in Polled
    BY <1>9, <2>1, StatusMoves DEF Succeed, SettleThrew, RefundEnded, storeVars, Polled
  <2>5. AtPolls(p)'
    BY <1>0, <2>0, <2>1, <2>2, <2>3, <2>4, HandEmptied DEF InHand
  <2>6. \A u \in Tasks : task'[u].status = task[u].status \/ task[u].status \in Polled
    BY <2>4
  <2> QED
    BY <1>b, <2>0, <2>1, <2>2, <2>3, <2>5, <2>6
<1>10. CASE LockLapses
  <2>1. /\ UNCHANGED <<call, task, poller>> /\ lock \in Pollers /\ poller[lock].pc = "idle"
    BY <1>a, <1>10 DEF LockLapses, PollerAt, HubInv, PollType, billingVars, storeVars
  <2>2. \A q \in Pollers : poller[q].pc = "idle"
    BY <2>1 DEF Hands, OnePoller
  <2> QED
    BY <1>0, <2>1, <2>2 DEF Hands, Requests, OneJob, OneHandler, OnePoller, Bills, Used, OwnJob,
       AtWork, Released
<1> QED
  BY <1>a, <1>1, <1>2, <1>3, <1>4, <1>5, <1>6, <1>7, <1>8, <1>9, <1>10
  DEF PollStep, PollThrows, PollerDies

(* At first nothing is in anybody's hands.                                 *)
LEMMA HandsStart == Init => Hands
BY PopulationAssumption
DEF Init, BillingInit, StoreInit, QueueInit, ApiInit, WorkerInit, PollInit, Hands, Requests,
    OneJob, OneHandler, OnePoller, Used, NoHandler, Idle, NoTask, Polled, Callers

(* Every step keeps every task in one hand. *)
LEMMA HandsStep ==
  ASSUME HubInv, Undisturbed, Hands, [Next]_vars
  PROVE  Hands'
<1>1. CASE UNCHANGED vars
  <2>1. /\ UNCHANGED <<request, job, worker, poller, lock, call>>
        /\ \A t \in Tasks : task'[t].status = task[t].status
    BY <1>1 DEF vars, billingVars, storeVars, apiVars, pollVars
  <2> QED
    BY <2>1, HandsUntouched
<1>2. CASE \E c \in Callers :
        BillingStep(c) /\ UNCHANGED <<storeVars, job, apiVars, worker, pollVars>>
  BY <1>2, BillingHands DEF storeVars, apiVars, pollVars
<1>3. CASE TimePasses /\ UNCHANGED <<billingVars, job, apiVars, worker, pollVars>>
  <2>1. UNCHANGED <<request, job, worker, poller, lock, call>>
    BY <1>3 DEF billingVars, apiVars, pollVars
  <2>2. \A t \in Tasks : task'[t].status = task[t].status
    <3>1. ASSUME NEW t \in Tasks, BecomesDue(t) \/ BecomesOverdue(t) \/ ProviderFinishes(t)
          PROVE  \A u \in Tasks : task'[u].status = task[u].status
      BY <3>1 DEF BecomesDue, BecomesOverdue, ProviderFinishes, HubInv, StoreType, TaskDoc
    <3> QED
      BY <1>3, <3>1 DEF TimePasses
  <2> QED
    BY <2>1, <2>2, HandsUntouched
<1> QED
  BY <1>1, <1>2, <1>3, ApiHands, WorkerHands, PollHands DEF Next

-----------------------------------------------------------------------------
(* One billing call at a time *)

(* Whose turn it is to bill for t *)
MayBill(c, t) ==
  \/ c \in Tasks /\ c = t /\ request[t] = "billing"
  \/ c \in Workers /\ worker[c].pc # "idle" /\ worker[c].task = t
  \/ /\ c \in Pollers
     /\ \/ poller[c].pc \in InHand /\ Current(c) = t
        \/ \E s \in poller[c].batch : s.task = t

(* The hands of one task are one hand. *)
LEMMA OneBiller ==
  ASSUME HubInv, Hands, NEW t \in Tasks, NEW c \in Callers, NEW d \in Callers,
         MayBill(c, t), MayBill(d, t)
  PROVE  c = d
<1>1. ASSUME NEW w \in Workers, worker[w].pc # "idle", worker[w].task = t
      PROVE  /\ request[t] = "accepted" /\ \A v \in Workers : MayBill(v, t) => v = w
             /\ \A p \in Pollers : ~MayBill(p, t)
  BY <1>1, JobInWork, CallersApart DEF MayBill
<1>2. \A p \in Pollers : MayBill(p, t) => poller[p].pc # "idle"
  BY CallersApart DEF MayBill, InHand, Hands, OnePoller
<1>3. ASSUME NEW p \in Pollers, MayBill(p, t)
      PROVE  request[t] = "accepted" /\ \A q \in Pollers : MayBill(q, t) => q = p
  <2>1. AtPolls(p) /\ lock = p /\ \A q \in Pollers : MayBill(q, t) => lock = q
    BY <1>2, <1>3, LockHolder
  <2> QED
    BY <1>3, <2>1, CallersApart DEF AtPolls, Released, MayBill
<1> QED
  BY <1>1, <1>3, CallersApart DEF MayBill

(* A call is made by the hand that has its task. *)
LEMMA BillsInHand ==
  ASSUME HubInv, Hands, NEW c \in Callers, call[c].step # "idle"
  PROVE  call[c].task \in Tasks /\ MayBill(c, call[c].task)
<1>1. call[c].task \in Tasks /\ call[c] # NoCall
  BY InsideCall DEF HubInv, BillingOK, NoCall
<1>2. CASE c \in Tasks
  BY <1>1, <1>2 DEF Hands, Requests, Bills, MayBill
<1>3. CASE c \in Workers
  <2>1. worker[c].pc # "idle" /\ AtWork(c)
    BY <1>1, <1>3 DEF Hands, OneHandler
  <2> QED
    BY <1>1, <1>3, <2>1 DEF AtWork, Bills, MayBill
<1>4. CASE c \in Pollers
  <2>1. AtPolls(c)
    BY <1>1, <1>4 DEF Hands, OnePoller
  <2> QED
    BY <1>1, <1>4, <2>1 DEF AtPolls, Bills, MayBill, InHand
<1> QED
  BY <1>2, <1>3, <1>4 DEF Callers

(* Two calls are for two tasks. *)
LEMMA OneCall ==
  ASSUME HubInv, Hands, NEW c \in Callers, NEW d \in Callers \ {c},
         call[c].step # "idle", call[d].step # "idle"
  PROVE  call[c].task # call[d].task
BY BillsInHand, OneBiller

(* Who has a task in hand and no call under way leaves it quiet. *)
LEMMA QuietInHand ==
  ASSUME HubInv, Hands, NEW t \in Tasks,
         \/ request[t] = "new"
         \/ \E c \in Callers : MayBill(c, t) /\ call[c] = NoCall
  PROVE  Quiet(t)
<1> SUFFICES ASSUME NEW d \in Callers, call[d].task = t PROVE FALSE
  BY DEF Quiet
<1>1. call[d].step # "idle" /\ call[d] # NoCall
  BY PopulationAssumption DEF HubInv, BillingOK, BillingType, Calls, NoCall, Steps, Ended
<1>2. MayBill(d, t)
  BY <1>1, BillsInHand
<1>3. request[t] # "new"
  <2>1. CASE d \in Workers
    BY <1>2, <2>1, JobInWork, CallersApart DEF MayBill
  <2>2. CASE d \in Pollers
    <3>1. AtPolls(d)
      BY <1>1, <2>2 DEF Hands, OnePoller
    <3> QED
      BY <1>2, <2>2, <3>1, CallersApart DEF AtPolls, Released, MayBill
  <2> QED
    BY <1>2, <2>1, <2>2 DEF MayBill
<1> QED
  BY <1>1, <1>2, <1>3, OneBiller

(* How the handlers begin and end calls when nothing cuts them short *)
CallsBegin ==
  \/ UNCHANGED call
  \/ \E c \in Callers : Forget(c) /\ call[c].step \in Ended
  \/ \E t \in Tasks : Begin(t, t, "initBilling") /\ request[t] = "new"
  \/ \E c \in Callers, t \in Tasks, s \in {"settle", "refund"} :
       Begin(c, t, s) /\ MayBill(c, t) /\ call[c] = NoCall

(* Nothing else begins a call or ends one.                                 *)
LEMMA CallsBeginStep ==
  ASSUME HubInv, Undisturbed, Hands, ApiStep \/ WorkerStep \/ PollStep
  PROVE  CallsBegin
<1>a. "crash" \notin Environment /\ "storeError" \notin Environment
  BY DEF Undisturbed
<1>1. CASE ApiStep
  <2>1. ASSUME NEW t \in Tasks, BeginCreate(t) \/ BillingInitialised(t) PROVE CallsBegin
    BY <2>1, CallersApart DEF BeginCreate, BillingInitialised, CallsBegin
  <2> QED
    BY <1>1, <1>a, <2>1 DEF ApiStep, InsertTask, RecordKey, EnqueueTask, RequestDies,
       CancelTask, BeginPriority, FindWaiting, RemoveWaiting, AddAgain, ChangeDies,
       CreditWallet, billingVars, CallsBegin
<1>2. CASE WorkerStep
  <2>1. ASSUME NEW w \in Workers, SaveAnswer(w) \/ FailSubmission(w) PROVE CallsBegin
    <3>1. worker[w].pc \in {"answered", "fatal"}
      BY <2>1 DEF SaveAnswer, FailSubmission, WorkerAt
    <3>2. /\ MayBill(w, worker[w].task) /\ call[w] = NoCall
          /\ worker[w].task \in Tasks /\ w \in Callers
      BY <3>1, JobInWork, CallersApart DEF AtWork, MayBill
    <3> QED
      BY <2>1, <3>2 DEF SaveAnswer, FailSubmission, CallsBegin
  <2>2. ASSUME NEW w \in Workers, FinishJob(w) PROVE CallsBegin
    BY <2>2, CallersApart DEF FinishJob, CallsBegin
  <2> QED
    BY <1>2, <1>a, <2>1, <2>2 DEF WorkerStep, TakeJob, TakeBack, BackoffEnds, LoadTask,
       SubmitThrows, FailUnroutable, Submit, SubmitRefused, SaveThrows, SaveAccepted,
       WorkerDies, billingVars, CallsBegin
<1>3. CASE PollStep
  <2>1. ASSUME NEW p \in Pollers, FailTask(p) \/ BeginSettle(p) PROVE CallsBegin
    <3>1. poller[p].pc \in InHand \ {"settling", "refunding"}
      BY <2>1 DEF FailTask, BeginSettle, PollerAt, InHand
    <3>2. /\ MayBill(p, Current(p)) /\ call[p] = NoCall
          /\ Current(p) \in Tasks /\ p \in Callers
      BY <3>1, LockHolder, HandsShape, CallersApart DEF AtPolls, MayBill, InHand
    <3> QED
      BY <2>1, <3>2 DEF FailTask, BeginSettle, CallsBegin
  <2>2. ASSUME NEW p \in Pollers, Succeed(p) \/ SettleThrew(p) \/ RefundEnded(p) PROVE CallsBegin
    BY <2>2, CallersApart DEF Succeed, SettleThrew, RefundEnded, At, Ended, CallsBegin
  <2>3. ASSUME NEW p \in Pollers, \/ AcquireLock(p) \/ FindPollable(p) \/ ReleaseLock(p)
                                  \/ StillRunning(p) \/ RetryLater(p) \/ PollThrows(p)
                                  \/ \E s : SkipUntraceable(p, s) \/ DeferPoll(p, s) \/ Query(p, s)
        PROVE  CallsBegin
    BY <2>3 DEF AcquireLock, FindPollable, ReleaseLock, StillRunning, RetryLater, PollThrows,
       SkipUntraceable, DeferPoll, Query, billingVars, CallsBegin
  <2>4. ASSUME NEW p \in Pollers, NEW s \in poller[p].batch, TimeOut(p, s) PROVE CallsBegin
    <3>1. /\ MayBill(p, s.task) /\ call[p] = NoCall
          /\ s.task \in Tasks /\ p \in Callers
      BY <2>4, LockHolder, HandsShape, CallersApart
      DEF TimeOut, Between, PollerAt, AtPolls, MayBill, Copies
    <3> QED
      BY <2>4, <3>1 DEF TimeOut, CallsBegin
  <2>5. CASE LockLapses
    BY <2>5 DEF LockLapses, billingVars, CallsBegin
  <2> QED
    BY <1>3, <1>a, <2>1, <2>2, <2>3, <2>4, <2>5 DEF PollStep, PollerDies
<1> QED
  BY <1>1, <1>2, <1>3

-----------------------------------------------------------------------------
(* Sums set aside, counted coin by coin *)

(* The coins the tasks of client k have set aside, h[t] of them for t *)
CoinsOf(h, k) == {x \in Tasks \X Nat : Owner[x[1]] = k /\ x[2] < h[x[1]]}

(* a more coins for t are a more coins for its owner. *)
LEMMA MoreCoins ==
  ASSUME NEW h \in [Tasks -> Int], NEW g \in [Tasks -> Int], NEW t \in Tasks, NEW a \in Nat,
         h[t] \in Nat, g[t] = h[t] + a, \A u \in Tasks \ {t} : g[u] = h[u],
         IsFiniteSet(CoinsOf(h, Owner[t]))
  PROVE  /\ IsFiniteSet(CoinsOf(g, Owner[t]))
         /\ Cardinality(CoinsOf(g, Owner[t])) = Cardinality(CoinsOf(h, Owner[t])) + a
<1> DEFINE k == Owner[t]
           pile == {t} \X (h[t] .. (h[t] + a - 1))
<1>1. IsFiniteSet(pile) /\ Cardinality(pile) = a
  <2>1. IsFiniteSet({t}) /\ Cardinality({t}) = 1
    BY FS_Singleton
  <2>2. IsFiniteSet(h[t] .. (h[t] + a - 1)) /\ Cardinality(h[t] .. (h[t] + a - 1)) = a
    <3>1. h[t] \in Int /\ h[t] + a - 1 \in Int
      OBVIOUS
    <3>2. a = IF h[t] > h[t] + a - 1 THEN 0 ELSE h[t] + a - 1 - h[t] + 1
      OBVIOUS
    <3> QED
      BY <3>1, <3>2, FS_Interval
  <2>3. 1 * a = a
    OBVIOUS
  <2> QED
    BY <2>1, <2>2, <2>3, FS_Product
<1>2. CoinsOf(g, k) = CoinsOf(h, k) \cup pile
  <2>1. ASSUME NEW x PROVE x \in CoinsOf(g, k) <=> x \in CoinsOf(h, k) \cup pile
    <3>1. CASE x \in Tasks \X Nat
      <4>1. CASE x[1] = t
        <5>1. x \in pile <=> x[2] \in h[t] .. (h[t] + a - 1)
          BY <3>1, <4>1
        <5> QED
          BY <3>1, <4>1, <5>1 DEF CoinsOf
      <4>2. CASE x[1] # t
        BY <3>1, <4>2 DEF CoinsOf
      <4> QED
        BY <4>1, <4>2
    <3>2. CASE x \notin Tasks \X Nat
      BY <3>2 DEF CoinsOf
    <3> QED
      BY <3>1, <3>2
  <2> QED
    BY <2>1
<1>3. CoinsOf(h, k) \cap pile = {}
  BY DEF CoinsOf
<1>4. Cardinality(CoinsOf(h, k) \cap pile) = 0
  BY <1>3, FS_EmptySet
<1>5. Cardinality(CoinsOf(h, k)) \in Nat
  BY FS_CardinalityType
<1>6. /\ IsFiniteSet(CoinsOf(h, k) \cup pile)
      /\ Cardinality(CoinsOf(h, k) \cup pile)
           = Cardinality(CoinsOf(h, k)) + Cardinality(pile) - Cardinality(CoinsOf(h, k) \cap pile)
  BY <1>1, FS_Union
<1> HIDE DEF pile
<1> QED
  BY <1>1, <1>2, <1>4, <1>5, <1>6

(* The coins of other clients are not affected. *)
LEMMA OtherCoins ==
  ASSUME NEW h \in [Tasks -> Int], NEW g \in [Tasks -> Int], NEW t \in Tasks,
         \A u \in Tasks \ {t} : g[u] = h[u], NEW k, k # Owner[t]
  PROVE  CoinsOf(g, k) = CoinsOf(h, k)
BY DEF CoinsOf

(* Nor are those of the owner when coins for t are taken away. *)
LEMMA FewerCoins ==
  ASSUME NEW h \in [Tasks -> Int], NEW g \in [Tasks -> Int], NEW t \in Tasks, NEW a \in Nat,
         h[t] \in Nat, g[t] = h[t] + a, \A u \in Tasks \ {t} : g[u] = h[u],
         IsFiniteSet(CoinsOf(g, Owner[t]))
  PROVE  /\ IsFiniteSet(CoinsOf(h, Owner[t]))
         /\ Cardinality(CoinsOf(h, Owner[t])) \in Nat
         /\ Cardinality(CoinsOf(g, Owner[t])) = Cardinality(CoinsOf(h, Owner[t])) + a
<1>1. CoinsOf(h, Owner[t]) \subseteq CoinsOf(g, Owner[t])
  BY DEF CoinsOf
<1>2. IsFiniteSet(CoinsOf(h, Owner[t])) /\ Cardinality(CoinsOf(h, Owner[t])) \in Nat
  BY <1>1, FS_Subset, FS_CardinalityType
<1> QED
  BY <1>2, MoreCoins

-----------------------------------------------------------------------------
(* Where the estimate of a task is *)

(* What is frozen for t while a call for it stands at this step *)
HoldOf(t, step) ==
  IF step \in {"debit", "markFailed", "markSettled", "markRefunded"} THEN 0
  ELSE IF step = "markPreDeducted" \/ record[t] = "pre_deducted" THEN EstimatedCost[t] ELSE 0

(* The money of the task caller c bills for *)
MoneyInHand(c) ==
  LET t == call[c].task IN
  /\ held[t] = HoldOf(t, call[c].step)
  /\ call[c].step = "initBilling" => record[t] = "none"
  /\ call[c].step \in {"freeze", "markPreDeducted"} => record[t] = "estimated" /\ IsInternal(t)
  /\ call[c].step \in {"release", "refundRelease"} => record[t] = "pre_deducted"

MoneyOf(t) ==
  /\ record[t] = "pre_deducted" => IsInternal(t)
  /\ request[t] = "new" => record[t] = "none"
  /\ held[t] > 0 => wallet[Owner[t]].open

Holding ==
  /\ HoldMatchesRecord
  /\ \A c \in Callers : call[c].step # "idle" => MoneyInHand(c)
  /\ \A t \in Tasks : MoneyOf(t)

(* Every wallet has frozen what its tasks have set aside. *)
Backed ==
  \A k \in ApiKeys : /\ IsFiniteSet(CoinsOf(held, k))
                     /\ wallet[k].frozen = Cardinality(CoinsOf(held, k))

(* With no negative estimate no wallet is in the red. *)
LEMMA InTheBlack ==
  ASSUME HubInv, Undisturbed
  PROVE  /\ \A t \in Tasks : EstimatedCost[t] \in Nat
         /\ \A k \in ApiKeys : /\ wallet[k].balance \in Nat /\ wallet[k].frozen \in Nat
                               /\ wallet[k].open \in BOOLEAN
<1>1. \A t \in Tasks : EstimatedCost[t] \in Nat
  BY MoneyAssumption DEF Undisturbed
<1>2. \A k \in ApiKeys : EstimatesCount(k)
  BY <1>1 DEF EstimatesCount
<1>3. \A k \in ApiKeys : wallet[k] \in [open : BOOLEAN, balance : Int, frozen : Int]
  BY DEF HubInv, BillingOK, BillingType, WalletType
<1>4. \A k \in ApiKeys : 0 <= wallet[k].frozen /\ wallet[k].frozen <= wallet[k].balance
  BY <1>2 DEF HubInv, BillingOK, NeverOverdrawn
<1> QED
  BY <1>1, <1>3, <1>4

(* A release finds what it releases in the wallet. *)
LEMMA ReleaseCovered ==
  ASSUME HubInv, Backed, NEW t \in Tasks, held[t] = EstimatedCost[t], MoneyOf(t),
         held[t] > 0
  PROVE  Unfreezes(Owner[t], EstimatedCost[t])
<1> DEFINE k == Owner[t]
           h == [held EXCEPT ![t] = 0]
<1>1. k \in ApiKeys /\ EstimatedCost[t] \in Nat /\ held \in [Tasks -> Int]
  BY PopulationAssumption, MoneyAssumption DEF HubInv, BillingOK, BillingType
<1>2. /\ h \in [Tasks -> Int] /\ h[t] \in Nat /\ held[t] = h[t] + EstimatedCost[t]
      /\ \A u \in Tasks \ {t} : held[u] = h[u]
  BY <1>1
<1>3. IsFiniteSet(CoinsOf(held, k)) /\ wallet[k].frozen = Cardinality(CoinsOf(held, k))
  BY <1>1 DEF Backed
<1>4. /\ Cardinality(CoinsOf(h, k)) \in Nat
      /\ Cardinality(CoinsOf(held, k)) = Cardinality(CoinsOf(h, k)) + EstimatedCost[t]
  <2> HIDE DEF h
  <2> QED
    BY <1>1, <1>2, <1>3, FewerCoins
<1>5. wallet[k].frozen >= EstimatedCost[t]
  BY <1>1, <1>3, <1>4
<1> QED
  BY <1>5 DEF Unfreezes, MoneyOf

(* What one await of a call does to the money of its task, and to no other *)
AwaitMoney(c, t) ==
  /\ call'[c].task = t /\ call'[c].step \in Steps
  /\ \A u \in Tasks \ {t} : record'[u] = record[u] /\ held'[u] = held[u]
  /\ MoneyInHand(c)'
  /\ record'[t] = "pre_deducted" => IsInternal(t)
  /\ \A k \in ApiKeys : wallet'[k].open = wallet[k].open
  /\ \A k \in ApiKeys \ {Owner[t]} : wallet'[k].frozen = wallet[k].frozen
  /\ held[t] \in Nat /\ held'[t] \in Nat
  /\ wallet'[Owner[t]].frozen = wallet[Owner[t]].frozen + (held'[t] - held[t])
  /\ held'[t] > 0 => wallet[Owner[t]].open

(* Where the money of t is after each await of a call for it.              *)
LEMMA AwaitsMoney ==
  ASSUME HubInv, Undisturbed, Holding, Backed, NEW c \in Callers, BillingStep(c),
         NEW t \in Tasks, call[c].task = t
  PROVE  AwaitMoney(c, t)
<1> DEFINE k == Owner[t]
           a == EstimatedCost[t]
<1>1. /\ k \in ApiKeys /\ a \in Nat /\ held \in [Tasks -> Int]
      /\ record \in [Tasks -> RecordStatus] /\ wallet \in WalletType /\ call \in [Callers -> Calls]
      /\ Key(c) = k /\ (Internal(c) <=> IsInternal(t))
  BY PopulationAssumption, InTheBlack DEF HubInv, BillingOK, BillingType, Key, Internal, IsInternal
<1>2. call[c].step \in Steps /\ "idle" \notin Steps /\ "storeError" \notin Environment
  BY <1>1, CallsStayInside DEF Calls, NoCall, Steps, Ended, Undisturbed
<1>3. MoneyInHand(c) /\ MoneyOf(t)
  BY <1>2 DEF Holding
<1>4. held[t] \in Nat
  BY <1>1, <1>3 DEF MoneyInHand, HoldOf
<1>5. ASSUME NEW s \in Steps, Continue(c, s)
      PROVE  call'[c].step = s /\ call'[c].task = t
  BY <1>1, <1>2, <1>5 DEF Continue, Calls, NoCall
<1>6. ASSUME NEW s \in Steps, Continue(c, s), UNCHANGED <<wallet, held>>,
             \A u \in Tasks \ {t} : record'[u] = record[u],
             record'[t] = "pre_deducted" => IsInternal(t), MoneyInHand(c)'
      PROVE  AwaitMoney(c, t)
  <2>1. call'[c].step = s /\ call'[c].task = t
    BY <1>5, <1>6
  <2>2. wallet[k].frozen \in Nat
    BY <1>1, InTheBlack
  <2> QED
    BY <1>1, <1>3, <1>4, <1>6, <2>1, <2>2 DEF AwaitMoney, MoneyOf
<1>7. CASE CreateRecord(c)
  <2>1. PICK s \in {"threw", "freeze", "returned"} :
          /\ Continue(c, s) /\ UNCHANGED <<wallet, held, debits>>
          /\ s = "freeze" => IsInternal(t) /\ record'[t] = "estimated"
    BY <1>1, <1>7 DEF CreateRecord, IsInternal
  <2>2. /\ record[t] = "none" /\ held[t] = 0
        /\ record'[t] \in {"none", "estimated"} /\ \A u \in Tasks \ {t} : record'[u] = record[u]
    BY <1>1, <1>3, <1>7 DEF CreateRecord, At, MoneyInHand, HoldOf
  <2>3. s \in Steps /\ call'[c].step = s /\ call'[c].task = t
    BY <1>5, <2>1 DEF Steps, Ended
  <2>4. MoneyInHand(c)'
    BY <2>1, <2>2, <2>3 DEF MoneyInHand, HoldOf
  <2> QED
    BY <1>6, <2>1, <2>2, <2>3, <2>4
<1>8. CASE FreezeEstimate(c)
  <2>1. /\ record[t] = "estimated" /\ IsInternal(t) /\ held[t] = 0 /\ UNCHANGED record
    BY <1>3, <1>8 DEF FreezeEstimate, At, MoneyInHand, HoldOf
  <2>2. CASE Continue(c, "refused") /\ UNCHANGED <<wallet, held>>
    <3>1. call'[c].step = "refused" /\ call'[c].task = t /\ "refused" \in Steps
      BY <1>5, <2>2 DEF Steps, Ended
    <3>2. MoneyInHand(c)'
      BY <2>1, <2>2, <3>1 DEF MoneyInHand, HoldOf
    <3> QED
      BY <1>6, <2>1, <2>2, <3>1, <3>2
  <2>3. CASE /\ Continue(c, "markPreDeducted") /\ Freeze(k, a)
             /\ held' = [held EXCEPT ![t] = @ + a]
    <3>1. call'[c].step = "markPreDeducted" /\ call'[c].task = t /\ "markPreDeducted" \in Steps
      BY <1>5, <2>3 DEF Steps, Ended
    <3>2. held'[t] = a /\ \A u \in Tasks \ {t} : held'[u] = held[u]
      BY <1>1, <2>1, <2>3
    <3>3. MoneyInHand(c)'
      BY <2>1, <3>1, <3>2 DEF MoneyInHand, HoldOf, IsInternal
    <3>4. /\ wallet[k].open /\ wallet[k].frozen \in Nat /\ wallet'[k].frozen = wallet[k].frozen + a
          /\ \A i \in ApiKeys : wallet'[i].open = wallet[i].open
          /\ \A i \in ApiKeys \ {k} : wallet'[i].frozen = wallet[i].frozen
      BY <1>1, <2>3, InTheBlack DEF Freeze, Covers, WalletType
    <3> QED
      BY <1>1, <2>1, <3>1, <3>2, <3>3, <3>4 DEF AwaitMoney
  <2> QED
    BY <1>1, <1>8, <2>2, <2>3 DEF FreezeEstimate
<1>9. CASE MarkPreDeducted(c)
  <2>1. /\ record[t] = "estimated" /\ IsInternal(t) /\ held[t] = a
        /\ Continue(c, "returned") /\ UNCHANGED <<wallet, held>>
    BY <1>3, <1>9 DEF MarkPreDeducted, At, MoneyInHand, HoldOf
  <2>2. record'[t] = "pre_deducted" /\ \A u \in Tasks \ {t} : record'[u] = record[u]
    BY <1>1, <1>9, <2>1 DEF MarkPreDeducted, MoveRecord
  <2>3. "returned" \in Steps /\ call'[c].step = "returned" /\ call'[c].task = t
    BY <1>5, <2>1 DEF Steps, Ended
  <2>4. MoneyInHand(c)'
    BY <2>1, <2>2, <2>3 DEF MoneyInHand, HoldOf
  <2> QED
    BY <1>6, <2>1, <2>2, <2>3, <2>4
<1>10. CASE ReadForSettle(c) \/ ReadForRefund(c)
  <2>1. PICK s \in {"returned", "markSettled", "release", "debit", "refundRelease", "markRefunded"} :
          /\ Continue(c, s) /\ UNCHANGED <<wallet, record, held>>
          /\ s \in {"release", "refundRelease"} => record[t] = "pre_deducted"
          /\ s \in {"markSettled", "debit", "markRefunded"} => record[t] # "pre_deducted"
    BY <1>1, <1>3, <1>10 DEF ReadForSettle, ReadForRefund, MoneyOf
  <2>2. held[t] = IF record[t] = "pre_deducted" THEN a ELSE 0
    BY <1>3, <1>10 DEF ReadForSettle, ReadForRefund, At, MoneyInHand, HoldOf
  <2>3. s \in Steps /\ call'[c].step = s /\ call'[c].task = t
    BY <1>5, <2>1 DEF Steps, Ended
  <2>4. MoneyInHand(c)'
    BY <2>1, <2>2, <2>3 DEF MoneyInHand, HoldOf
  <2>5. record'[t] = "pre_deducted" => IsInternal(t)
    BY <1>3, <2>1 DEF MoneyOf
  <2> QED
    BY <1>6, <2>1, <2>3, <2>4, <2>5
<1>11. CASE ReleaseForSettle(c) \/ ReleaseForRefund(c)
  <2>1. PICK s \in {"debit", "markRefunded"} :
          /\ Continue(c, s) /\ UnfreezeFor(c) /\ UNCHANGED record
    BY <1>11 DEF ReleaseForSettle, ReleaseForRefund
  <2>2. record[t] = "pre_deducted" /\ held[t] = a
    BY <1>3, <1>11 DEF ReleaseForSettle, ReleaseForRefund, At, MoneyInHand, HoldOf
  <2>3. s \in Steps /\ call'[c].step = s /\ call'[c].task = t
    BY <1>5, <2>1 DEF Steps, Ended
  <2>4. wallet[k] \in [open : BOOLEAN, balance : Int, frozen : Int] /\ wallet[k].frozen \in Nat
    BY <1>1, InTheBlack DEF WalletType
  <2>5. /\ held'[t] = 0 /\ \A u \in Tasks \ {t} : held'[u] = held[u]
        /\ wallet'[k].frozen = wallet[k].frozen - a
        /\ \A i \in ApiKeys : wallet'[i].open = wallet[i].open
        /\ \A i \in ApiKeys \ {k} : wallet'[i].frozen = wallet[i].frozen
    <3>1. CASE Unfreezes(k, a)
      BY <1>1, <2>1, <2>2, <2>4, <3>1 DEF UnfreezeFor, Unfreeze, WalletType
    <3>2. CASE ~Unfreezes(k, a)
      <4>1. a = 0
        BY <1>1, <1>3, <2>2, <3>2, ReleaseCovered
      <4> QED
        BY <1>1, <2>1, <2>2, <2>4, <3>2, <4>1 DEF UnfreezeFor, Unfreeze
    <3> QED
      BY <3>1, <3>2
  <2>6. MoneyInHand(c)'
    BY <2>1, <2>3, <2>5 DEF MoneyInHand, HoldOf
  <2> QED
    BY <1>1, <1>3, <2>1, <2>2, <2>3, <2>4, <2>5, <2>6 DEF AwaitMoney, MoneyOf
<1>12. CASE DebitActual(c)
  <2>1. PICK s \in {"markSettled", "markFailed"} : Continue(c, s) /\ UNCHANGED <<record, held>>
    BY <1>12 DEF DebitActual
  <2>2. held[t] = 0
    BY <1>3, <1>12 DEF DebitActual, At, MoneyInHand, HoldOf
  <2>3. s \in Steps /\ call'[c].step = s /\ call'[c].task = t
    BY <1>5, <2>1 DEF Steps, Ended
  <2>4. MoneyInHand(c)'
    BY <2>1, <2>2, <2>3 DEF MoneyInHand, HoldOf
  <2>5. \A i \in ApiKeys : /\ wallet'[i].open = wallet[i].open /\ wallet[i].frozen \in Nat
                           /\ wallet'[i].frozen = wallet[i].frozen
    BY <1>1, <1>12, InTheBlack DEF DebitActual, Debit, WalletType
  <2> QED
    BY <1>1, <1>3, <2>1, <2>2, <2>3, <2>4, <2>5 DEF AwaitMoney, MoneyOf
<1>13. CASE MarkFailed(c) \/ MarkSettled(c) \/ MarkRefunded(c)
  <2>1. PICK s \in {"threw", "returned"} : Continue(c, s) /\ UNCHANGED <<wallet, held>>
    BY <1>13 DEF MarkFailed, MarkSettled, MarkRefunded
  <2>2. held[t] = 0
    BY <1>3, <1>13 DEF MarkFailed, MarkSettled, MarkRefunded, At, MoneyInHand, HoldOf
  <2>3. record'[t] # "pre_deducted" /\ \A u \in Tasks \ {t} : record'[u] = record[u]
    BY <1>1, <1>13 DEF MarkFailed, MarkSettled, MarkRefunded, MoveRecord, Live
  <2>4. s \in Steps /\ call'[c].step = s /\ call'[c].task = t
    BY <1>5, <2>1 DEF Steps, Ended
  <2>5. MoneyInHand(c)'
    BY <2>1, <2>2, <2>3, <2>4 DEF MoneyInHand, HoldOf
  <2> QED
    BY <1>6, <2>1, <2>3, <2>4, <2>5
<1> QED
  BY <1>2, <1>7, <1>8, <1>9, <1>10, <1>11, <1>12, <1>13 DEF BillingStep, GiveUpRelease, CallThrows

(* An await moves the money of its own task, out of or into its wallet. *)
LEMMA BillingHolding ==
  ASSUME HubInv, Undisturbed, Hands, Holding, Backed, NEW c \in Callers, BillingStep(c),
         UNCHANGED request, held' \in [Tasks -> Int]
  PROVE  Holding' /\ Backed'
<1>1. call[c].step # "idle" /\ call[c].task \in Tasks /\ MayBill(c, call[c].task)
  <2>1. call[c].step # "idle"
    BY CallsStayInside DEF HubInv, BillingOK, BillingType, Calls, NoCall, Steps, Ended
  <2> QED
    BY <2>1, BillsInHand
<1>2. PICK t \in Tasks : call[c].task = t
  BY <1>1
<1>3. AwaitMoney(c, t)
  BY <1>2, AwaitsMoney
<1>4. /\ \A d \in Callers \ {c} : call'[d] = call[d]
      /\ \A d \in Callers \ {c} : call[d].step # "idle" => call[d].task \in Tasks \ {t}
      /\ request[t] # "new"
  BY <1>1, <1>2, CallsStayInside, OneCall, BillsInHand, QuietInHand DEF Quiet
<1>5. HoldMatchesRecord'
  <2>1. ASSUME NEW u \in Tasks, Quiet(u)' PROVE u # t /\ Quiet(u)
    BY <1>2, <1>3, <1>4, <2>1 DEF Quiet, AwaitMoney
  <2> QED
    BY <1>3, <2>1 DEF AwaitMoney, Holding, HoldMatchesRecord
<1>6. ASSUME NEW d \in Callers, call'[d].step # "idle" PROVE MoneyInHand(d)'
  <2>1. CASE d = c
    BY <1>3, <2>1 DEF AwaitMoney
  <2>2. CASE d # c
    BY <1>3, <1>4, <1>6, <2>2 DEF AwaitMoney, Holding, MoneyInHand, HoldOf, IsInternal
  <2> QED
    BY <2>1, <2>2
<1>7. ASSUME NEW u \in Tasks PROVE MoneyOf(u)'
  <2>1. Owner[u] \in ApiKeys /\ MoneyOf(u)
    BY PopulationAssumption DEF Holding
  <2> QED
    BY <1>3, <1>4, <2>1 DEF AwaitMoney, MoneyOf, IsInternal
<1>8. ASSUME NEW k \in ApiKeys
      PROVE  IsFiniteSet(CoinsOf(held, k))' /\ wallet'[k].frozen = Cardinality(CoinsOf(held, k))'
  <2>1. /\ held \in [Tasks -> Int]
        /\ wallet[k].frozen \in Nat /\ held[t] \in Nat /\ held'[t] \in Nat
        /\ \A u \in Tasks \ {t} : held'[u] = held[u] /\ held[u] = held'[u]
        /\ IsFiniteSet(CoinsOf(held, k)) /\ wallet[k].frozen = Cardinality(CoinsOf(held, k))
    BY <1>3, InTheBlack DEF AwaitMoney, Backed, HubInv, BillingOK, BillingType
  <2>2. CASE k # Owner[t]
    <3>1. CoinsOf(held', k) = CoinsOf(held, k)
      BY <2>1, <2>2, OtherCoins
    <3> QED
      BY <1>3, <2>1, <2>2, <3>1 DEF AwaitMoney, CoinsOf
  <2>3. CASE k = Owner[t] /\ held'[t] >= held[t]
    <3>1. PICK a \in Nat : held'[t] = held[t] + a
      <4>1. /\ held'[t] - held[t] \in Nat
            /\ held'[t] = held[t] + (held'[t] - held[t])
        BY <2>1, <2>3
      <4> QED
        BY <4>1
    <3>2. /\ IsFiniteSet(CoinsOf(held', k))
          /\ Cardinality(CoinsOf(held', k)) = Cardinality(CoinsOf(held, k)) + a
      BY <2>1, <2>3, <3>1, MoreCoins
    <3>3. wallet'[k].frozen = wallet[k].frozen + a
      BY <1>3, <2>1, <2>3, <3>1 DEF AwaitMoney
    <3> QED
      BY <2>1, <3>2, <3>3 DEF CoinsOf
  <2>4. CASE k = Owner[t] /\ held'[t] < held[t]
    <3>1. PICK a \in Nat : held[t] = held'[t] + a
      <4>1. /\ held[t] - held'[t] \in Nat
            /\ held[t] = held'[t] + (held[t] - held'[t])
        BY <2>1, <2>4
      <4> QED
        BY <4>1
    <3>2. /\ IsFiniteSet(CoinsOf(held', k)) /\ Cardinality(CoinsOf(held', k)) \in Nat
          /\ Cardinality(CoinsOf(held, k)) = Cardinality(CoinsOf(held', k)) + a
      BY <2>1, <2>4, <3>1, FewerCoins
    <3>3. wallet'[k].frozen = wallet[k].frozen - a
      BY <1>3, <2>1, <2>4, <3>1 DEF AwaitMoney
    <3> QED
      BY <2>1, <3>2, <3>3 DEF CoinsOf
  <2> QED
    BY <2>1, <2>2, <2>3, <2>4
<1> QED
  BY <1>5, <1>6, <1>7, <1>8 DEF Holding, Backed

(* Nothing outside the adapter sets money aside or writes a record, and    *)
(* only a deposit reaches a wallet.                                        *)
LEMMA HandlersMoney ==
  ASSUME ApiStep \/ WorkerStep \/ PollStep
  PROVE  /\ UNCHANGED <<record, held, debits>>
         /\ UNCHANGED wallet \/ \E k \in ApiKeys : CreditWallet(k)
<1>1. CASE ApiStep
  <2>1. ASSUME NEW t \in Tasks,
               \/ BeginCreate(t) \/ BillingInitialised(t) \/ RequestDies(t) \/ InsertTask(t)
               \/ RecordKey(t) \/ EnqueueTask(t) \/ CancelTask(t) \/ BeginPriority(t) \/ FindWaiting(t)
               \/ RemoveWaiting(t) \/ AddAgain(t) \/ ChangeDies(t)
        PROVE  UNCHANGED <<wallet, record, held, debits>>
    BY <2>1 DEF BeginCreate, BillingInitialised, RequestDies, InsertTask, RecordKey,
       EnqueueTask, CancelTask, BeginPriority, FindWaiting, RemoveWaiting, AddAgain,
       ChangeDies, billingVars
  <2>2. \A k \in ApiKeys : CreditWallet(k) => UNCHANGED <<record, held, debits>>
    BY DEF CreditWallet
  <2> QED
    BY <1>1, <2>1, <2>2 DEF ApiStep
<1> QED
  BY <1>1, HandlersSpare

(* A request that is new has done nothing. *)
LEMMA NewRequests ==
  ASSUME HubInv, [Next]_vars, NEW t \in Tasks, request'[t] = "new"
  PROVE  request[t] = "new"
<1>1. request \in [Tasks -> RequestState]
  BY DEF HubInv, ApiType
<1>2. CASE ApiStep
  BY <1>1, <1>2 DEF ApiStep, BeginCreate, BillingInitialised, RequestDies, InsertTask, RecordKey,
     EnqueueTask, CancelTask, BeginPriority, FindWaiting, RemoveWaiting, AddAgain,
     ChangeDies, CreditWallet, SetRequest, apiVars
<1> QED
  BY <1>2 DEF Next, vars, apiVars

(* The handlers begin a call with the money where the record says it is,   *)
(* and end it there.                                                       *)
LEMMA HandlersHolding ==
  ASSUME HubInv, Undisturbed, Hands, Holding, Backed, [Next]_vars,
         ApiStep \/ WorkerStep \/ PollStep
  PROVE  Holding' /\ Backed'
<1>1. UNCHANGED <<record, held>> /\ (UNCHANGED wallet \/ \E k \in ApiKeys : CreditWallet(k))
  BY HandlersMoney
<1>2. \A k \in ApiKeys : wallet'[k].frozen = wallet[k].frozen /\ (wallet[k].open => wallet'[k].open)
  <2>1. ASSUME NEW i \in ApiKeys, CreditWallet(i)
        PROVE  \A k \in ApiKeys : /\ wallet'[k].frozen = wallet[k].frozen
                                  /\ wallet[k].open => wallet'[k].open
    <3>1. PICK a : wallet' = [wallet EXCEPT ![i] =
             [open |-> TRUE, balance |-> wallet[i].balance + a, frozen |-> wallet[i].frozen]]
      BY <2>1 DEF CreditWallet, Credit
    <3> QED
      BY <3>1 DEF HubInv, BillingOK, BillingType, WalletType
  <2> QED
    BY <1>1, <2>1
<1>3. call \in [Callers -> Calls] /\ "idle" \notin Steps /\ CallsBegin
  BY CallsBeginStep DEF HubInv, BillingOK, BillingType, Steps, Ended
<1>4. Backed'
  BY <1>1, <1>2 DEF Backed, CoinsOf
<1>5. \A t \in Tasks : MoneyOf(t)'
  <2> TAKE t \in Tasks
  <2>1. Owner[t] \in ApiKeys /\ MoneyOf(t)
    BY PopulationAssumption DEF Holding
  <2> QED
    BY <1>1, <1>2, <2>1, NewRequests DEF MoneyOf, IsInternal
<1>6. CASE UNCHANGED call
  <2>1. HoldMatchesRecord'
    BY <1>1, <1>6 DEF Holding, HoldMatchesRecord, Quiet
  <2>2. ASSUME NEW d \in Callers, call'[d].step # "idle" PROVE MoneyInHand(d)'
    BY <1>1, <1>6, <2>2 DEF Holding, MoneyInHand, HoldOf, IsInternal
  <2> QED
    BY <1>4, <1>5, <2>1, <2>2 DEF Holding
<1>7. ASSUME NEW c \in Callers, Forget(c), call[c].step \in Ended
      PROVE  Holding' /\ Backed'
  <2>1. call'[c] = NoCall /\ \A d \in Callers \ {c} : call'[d] = call[d]
    BY <1>3, <1>7 DEF Forget
  <2>2. PICK t \in Tasks : call[c].task = t
    BY <1>3, <1>7 DEF Calls, NoCall, Ended
  <2>3. held[t] = IF record[t] = "pre_deducted" THEN EstimatedCost[t] ELSE 0
    BY <1>7, <2>2 DEF Holding, MoneyInHand, HoldOf, Ended
  <2>4. ASSUME NEW u \in Tasks, Quiet(u)' PROVE Quiet(u) \/ u = t
    BY <2>1, <2>2, <2>4 DEF Quiet
  <2>5. HoldMatchesRecord'
    BY <1>1, <2>3, <2>4 DEF Holding, HoldMatchesRecord
  <2>6. ASSUME NEW d \in Callers, call'[d].step # "idle" PROVE MoneyInHand(d)'
    BY <1>1, <2>1, <2>6 DEF Holding, MoneyInHand, HoldOf, IsInternal, NoCall
  <2> QED
    BY <1>4, <1>5, <2>5, <2>6 DEF Holding
<1>8. ASSUME NEW c \in Callers, NEW t \in Tasks, NEW s \in {"initBilling", "settle", "refund"},
             Begin(c, t, s), Quiet(t), call[c] = NoCall, s = "initBilling" => record[t] = "none"
      PROVE  Holding' /\ Backed'
  <2>1. call'[c] = [step |-> s, task |-> t] /\ \A d \in Callers \ {c} : call'[d] = call[d]
    BY <1>3, <1>8 DEF Begin
  <2>2. held[t] = IF record[t] = "pre_deducted" THEN EstimatedCost[t] ELSE 0
    BY <1>8 DEF Holding, HoldMatchesRecord
  <2>3. HoldMatchesRecord'
    <3>1. ASSUME NEW u \in Tasks, Quiet(u)' PROVE Quiet(u)
      BY <1>8, <2>1, <3>1, PopulationAssumption DEF Quiet, NoCall
    <3> QED
      BY <1>1, <3>1 DEF Holding, HoldMatchesRecord
  <2>4. ASSUME NEW d \in Callers, call'[d].step # "idle" PROVE MoneyInHand(d)'
    <3>1. CASE d = c
      BY <1>1, <1>8, <2>1, <2>2, <3>1 DEF MoneyInHand, HoldOf
    <3>2. CASE d # c
      BY <1>1, <2>1, <2>4, <3>2 DEF Holding, MoneyInHand, HoldOf, IsInternal
    <3> QED
      BY <3>1, <3>2
  <2> QED
    BY <1>4, <1>5, <2>3, <2>4 DEF Holding
<1>9. ASSUME NEW t \in Tasks, Begin(t, t, "initBilling"), request[t] = "new"
      PROVE  Holding' /\ Backed'
  <2>1. Quiet(t) /\ record[t] = "none" /\ call[t] = NoCall
    BY <1>9, QuietInHand DEF Holding, MoneyOf, Hands, Requests
  <2> QED
    BY <1>8, <1>9, <2>1, CallersApart
<1>10. ASSUME NEW c \in Callers, NEW t \in Tasks, NEW s \in {"settle", "refund"},
              Begin(c, t, s), MayBill(c, t), call[c] = NoCall
       PROVE  Holding' /\ Backed'
  BY <1>8, <1>10, QuietInHand
<1> QED
  BY <1>3, <1>6, <1>7, <1>9, <1>10 DEF CallsBegin

Fund == Hands /\ Holding /\ Backed

(* At first nothing is set aside.                                          *)
LEMMA FundStart == Init => Fund
<1> SUFFICES ASSUME Init PROVE Fund
  OBVIOUS
<1>1. /\ record = [t \in Tasks |-> "none"] /\ held = [t \in Tasks |-> 0]
      /\ call = [c \in Callers |-> NoCall]
      /\ \A k \in ApiKeys : wallet[k].frozen = 0
  BY DEF Init, BillingInit, WalletInit
<1>2. ASSUME NEW k \in ApiKeys PROVE CoinsOf(held, k) = {}
  <2>1. ASSUME NEW x \in CoinsOf(held, k) PROVE FALSE
    <3>1. x[1] \in Tasks /\ x[2] \in Nat /\ x[2] < held[x[1]]
      BY <2>1 DEF CoinsOf
    <3> QED
      BY <1>1, <3>1
  <2> QED
    BY <2>1
<1>3. Backed
  BY <1>1, <1>2, FS_EmptySet DEF Backed
<1>4. Holding
  BY <1>1 DEF Holding, HoldMatchesRecord, MoneyOf, NoCall
<1> QED
  BY <1>3, <1>4, HandsStart DEF Fund

(* Every step leaves the money where the hands and the records say. *)
LEMMA FundStep ==
  ASSUME HubInv, HubInv', Undisturbed, Fund, [Next]_vars
  PROVE  Fund'
<1>1. Hands'
  BY HandsStep DEF Fund
<1>2. ASSUME UNCHANGED <<billingVars, request>> PROVE Holding' /\ Backed'
  <2>1. UNCHANGED <<wallet, record, call, held, request>>
    BY <1>2 DEF billingVars
  <2>2. Backed'
    BY <2>1 DEF Fund, Backed, CoinsOf
  <2>3. HoldMatchesRecord'
    BY <2>1 DEF Fund, Holding, HoldMatchesRecord, Quiet
  <2>4. \A c \in Callers : call'[c].step # "idle" => MoneyInHand(c)'
    BY <2>1 DEF Fund, Holding, MoneyInHand, HoldOf, IsInternal
  <2>5. \A t \in Tasks : MoneyOf(t)'
    BY <2>1 DEF Fund, Holding, MoneyOf, IsInternal
  <2> QED
    BY <2>2, <2>3, <2>4, <2>5 DEF Holding
<1>3. CASE ApiStep \/ WorkerStep \/ PollStep
  BY <1>1, <1>3, HandlersHolding DEF Fund
<1>4. ASSUME NEW c \in Callers, BillingStep(c), UNCHANGED apiVars
      PROVE  Holding' /\ Backed'
  BY <1>4, BillingHolding DEF Fund, apiVars, HubInv, BillingOK, BillingType
<1> QED
  BY <1>1, <1>2, <1>3, <1>4 DEF Fund, Next, vars, apiVars

(* billing.adapter.ts: while no process dies, no store throws, no handler  *)
(* outlives its lease and no task has a negative estimate, what is frozen  *)
(* for a task no call is at work on is its estimate if its record says     *)
(* pre_deducted, and nothing otherwise: no release is lost, none is made   *)
(* twice, and none finds the wallet short, whatever other tasks of the     *)
(* client do meanwhile.                                                    *)
THEOREM HoldsMatchRecords == ASSUME Undisturbed PROVE Spec => []HoldMatchesRecord
<1>1. HubInv /\ HubInv' /\ Fund /\ [Next]_vars => Fund'
  BY FundStep
<1>2. Fund => HoldMatchesRecord
  BY DEF Fund, Holding
<1> QED
  BY <1>1, <1>2, FundStart, HubInvariant, PTL DEF Spec

-----------------------------------------------------------------------------
(* How the money of a task ends *)

Finished == {"SUCCESS", "FAILED", "TIMEOUT"}

(* A cron handler has debited t and is about to say so. *)
PaysNow(p, t) ==
  poller[p].pc = "settling" /\ call[p].task = t /\ call[p].step \in {"markSettled", "returned"}

Paid(t) ==
  \/ task[t].status \in {"SUCCESS", "CANCELLED"}
  \/ \E p \in Pollers : PaysNow(p, t)

Closed ==
  /\ \A w \in Workers : worker[w].pc # "unroutable"
  /\ \A c \in Workers \cup Pollers :
       call[c].step \in Ended => record[call[c].task] # "pre_deducted"
  /\ \A t \in Tasks : task[t].status \in Finished /\ Quiet(t) => record[t] # "pre_deducted"
  /\ \A t \in Tasks : debits[t] > 0 => Paid(t)

(* The calls of workers and cron handlers settle or refund. *)
LEMMA HandlerCalls ==
  ASSUME HubInv, Hands, NEW c \in Workers \cup Pollers
  PROVE  call[c].step \in SettleSteps \cup RefundSteps \cup {"idle"}
<1>1. CASE c \in Workers
  BY <1>1 DEF Hands, OneHandler, AtWork, Bills, NoCall
<1>2. CASE c \in Pollers
  BY <1>2 DEF Hands, OnePoller, AtPolls, Bills, NoCall
<1> QED
  BY <1>1, <1>2

(* A call that comes to its end leaves nothing set aside. *)
LEMMA EndsClosed ==
  ASSUME HubInv, Undisturbed, Hands, NEW c \in Workers \cup Pollers, BillingStep(c),
         NEW t \in Tasks, call[c].task = t, call'[c].step \in Ended
  PROVE  record'[t] # "pre_deducted"
<1>1. /\ record \in [Tasks -> RecordStatus] /\ call \in [Callers -> Calls] /\ c \in Callers
      /\ call[c].step \notin {"initBilling", "freeze", "markPreDeducted", "idle"}
      /\ "storeError" \notin Environment
  BY HandlerCalls, CallersApart, CallsStayInside
  DEF HubInv, BillingOK, BillingType, SettleSteps, RefundSteps, Ended, Calls, NoCall, Steps,
      Undisturbed
<1>2. \A s : Continue(c, s) => call'[c].step = s
  BY <1>1 DEF Continue, Calls, NoCall
<1>3. CASE ReadForSettle(c) \/ ReadForRefund(c)
  BY <1>1, <1>2, <1>3 DEF ReadForSettle, ReadForRefund, Ended
<1>4. CASE MarkFailed(c) \/ MarkSettled(c) \/ MarkRefunded(c)
  BY <1>1, <1>4 DEF MarkFailed, MarkSettled, MarkRefunded, MoveRecord, Live
<1>5. CASE ReleaseForSettle(c) \/ ReleaseForRefund(c) \/ DebitActual(c)
  BY <1>2, <1>5 DEF ReleaseForSettle, ReleaseForRefund, DebitActual, Ended
<1> QED
  BY <1>1, <1>3, <1>4, <1>5
  DEF BillingStep, CreateRecord, FreezeEstimate, MarkPreDeducted, GiveUpRelease, CallThrows, At

(* A debit is followed by the mark on the record. *)
LEMMA DebitsMark ==
  ASSUME HubInv, Hands, NEW c \in Callers, BillingStep(c), NEW t \in Tasks, debits'[t] > 0
  PROVE  \/ debits[t] > 0
         \/ call[c].task = t /\ call[c].step = "debit" /\ call'[c].step = "markSettled"
<1>1. call \in [Callers -> Calls] /\ debits \in [Tasks -> Nat] /\ call[c].step # "idle"
  BY CallsStayInside DEF HubInv, BillingOK, BillingType, Calls, NoCall, Steps, Ended
<1>2. CASE DebitActual(c)
  BY <1>1, <1>2 DEF DebitActual, At, Continue, Calls, NoCall
<1>3. CASE UNCHANGED debits
  BY <1>3
<1> QED
  BY <1>2, <1>3
  DEF BillingStep, CreateRecord, FreezeEstimate, MarkPreDeducted, ReadForSettle,
      ReleaseForSettle, MarkFailed, MarkSettled, ReadForRefund, ReleaseForRefund,
      GiveUpRelease, MarkRefunded, CallThrows

(* An end state is the last one. *)
LEMMA EndStays ==
  ASSUME HubInv, [Next]_vars, NEW t \in Tasks, task[t].status \in Terminal
  PROVE  task'[t].status = task[t].status
<1>1. CASE Next
  <2>1. /\ Rank(task[t].status) = 4 /\ task[t].status # "absent"
        /\ Advances(t) \/ task[t].status = "absent"
    BY <1>1, HubStep DEF Rank, Terminal
  <2>2. Rank(task'[t].status) > 4 => FALSE
    <3>1. task'[t].status \in TaskStatus
      BY <1>1, HubStep DEF HubInv, StoreType, TaskDoc
    <3> QED
      BY <3>1 DEF Rank, Terminal, TaskStatus, Open
  <2> QED
    BY <2>1, <2>2 DEF Advances
<1>2. CASE UNCHANGED vars
  BY <1>2 DEF vars, storeVars
<1> QED
  BY <1>1, <1>2

(* A cron handler that has debited goes on to report the success. *)
LEMMA PaymentGoesOn ==
  ASSUME HubInv, Undisturbed, PollStep, NEW p \in Pollers, NEW t \in Tasks, PaysNow(p, t)
  PROVE  Succeed(p) \/ PaysNow(p, t)'
<1>1. poller \in [Pollers -> [pc : PollerPc, batch : SUBSET Copies,
                              current : Copies \cup {NoCopy}]] /\ call \in [Callers -> Calls]
      /\ "crash" \notin Environment /\ "storeError" \notin Environment
  BY DEF HubInv, BillingOK, BillingType, PollType, Undisturbed
<1>2. ASSUME NEW q \in Pollers \ {p},
             \/ AcquireLock(q) \/ FindPollable(q) \/ ReleaseLock(q) \/ StillRunning(q)
             \/ RetryLater(q) \/ FailTask(q) \/ BeginSettle(q) \/ Succeed(q)
             \/ SettleThrew(q) \/ RefundEnded(q) \/ PollThrows(q)
             \/ \E s \in poller[q].batch :
                  SkipUntraceable(q, s) \/ TimeOut(q, s) \/ DeferPoll(q, s) \/ Query(q, s)
      PROVE  poller'[p] = poller[p] /\ call'[p] = call[p]
  <2>1. CASE \/ AcquireLock(q) \/ FindPollable(q) \/ ReleaseLock(q) \/ StillRunning(q)
             \/ RetryLater(q) \/ PollThrows(q)
    BY <1>1, <2>1 DEF AcquireLock, FindPollable, ReadBatch, ReleaseLock, StillRunning,
       RetryLater, PollThrows, PollerTo, NextInBatch, billingVars
  <2>2. CASE FailTask(q) \/ BeginSettle(q) \/ Succeed(q) \/ SettleThrew(q) \/ RefundEnded(q)
    BY <1>1, <2>2, CallersApart DEF FailTask, BeginSettle, Succeed, SettleThrew, RefundEnded,
       PollerTo, NextInBatch, Begin, Forget
  <2>3. ASSUME NEW s, SkipUntraceable(q, s) \/ TimeOut(q, s) \/ DeferPoll(q, s) \/ Query(q, s)
        PROVE  poller'[p] = poller[p] /\ call'[p] = call[p]
    BY <1>1, <2>3, CallersApart DEF SkipUntraceable, TimeOut, DeferPoll, Query, WorkOn, Begin,
       billingVars
  <2> QED
    BY <1>2, <2>1, <2>2, <2>3
<1>3. poller[p].pc = "settling" /\ call[p].step \in {"markSettled", "returned"}
  BY DEF PaysNow
<1>4. /\ ~AcquireLock(p) /\ ~FindPollable(p) /\ ~ReleaseLock(p) /\ ~StillRunning(p)
      /\ ~RetryLater(p) /\ ~FailTask(p) /\ ~BeginSettle(p) /\ ~SettleThrew(p)
      /\ ~RefundEnded(p) /\ ~PollThrows(p)
      /\ \A s : ~SkipUntraceable(p, s) /\ ~TimeOut(p, s) /\ ~DeferPoll(p, s) /\ ~Query(p, s)
  BY <1>1, <1>3 DEF AcquireLock, FindPollable, ReleaseLock, StillRunning, RetryLater, FailTask,
     BeginSettle, SettleThrew, RefundEnded, PollThrows, SkipUntraceable, TimeOut, DeferPoll,
     Query, Between, PollerAt, At
<1>5. CASE LockLapses
  BY <1>5 DEF LockLapses, billingVars, PaysNow
<1>6. \A q \in Pollers : ~PollerDies(q) /\ ~PollThrows(q)
  BY <1>1 DEF PollerDies, PollThrows
<1>7. ASSUME poller'[p] = poller[p] /\ call'[p] = call[p] PROVE PaysNow(p, t)'
  BY <1>7 DEF PaysNow
<1> QED
  BY <1>2, <1>4, <1>5, <1>6, <1>7 DEF PollStep

(* A task ends by itself in the hand of the caller that then bills for it, *)
(* or that has billed for it.                                              *)
LEMMA TasksFinish ==
  ASSUME HubInv, Undisturbed, Hands, \A w \in Workers : worker[w].pc # "unroutable",
         [Next]_vars, NEW t \in Tasks,
         task'[t].status \in Finished, task[t].status \notin Finished
  PROVE  \/ \E c \in Callers : call'[c].task = t
         \/ \E p \in Pollers : Succeed(p) /\ call[p].task = t
<1>1. /\ task \in [Tasks -> TaskDoc] /\ call \in [Callers -> Calls]
      /\ "absent" \notin Finished /\ "PENDING" \notin Finished /\ "CANCELLED" \notin Finished
      /\ "SUBMITTED" \notin Finished /\ "PROCESSING" \notin Finished
      /\ task'[t].status # task[t].status
  BY DEF HubInv, BillingOK, BillingType, StoreType, Finished
<1>2. CASE ApiStep
  <2>1. ASSUME NEW u \in Tasks, InsertTask(u) PROVE FALSE
    BY <1>1, <2>1 DEF InsertTask, TaskDoc
  <2>2. ASSUME NEW u \in Tasks, CancelTask(u) PROVE FALSE
    BY <1>1, <2>2 DEF CancelTask, UpdateStatus, TaskDoc
  <2>3. ASSUME NEW u \in Tasks, \/ BeginCreate(u) \/ BillingInitialised(u) \/ RequestDies(u)
                                \/ RecordKey(u) \/ EnqueueTask(u) \/ BeginPriority(u) \/ FindWaiting(u)
                                \/ RemoveWaiting(u) \/ AddAgain(u) \/ ChangeDies(u)
        PROVE  FALSE
    BY <1>1, <2>3 DEF BeginCreate, BillingInitialised, RequestDies, RecordKey, EnqueueTask,
       BeginPriority, FindWaiting, RemoveWaiting, AddAgain, ChangeDies, storeVars
  <2>4. ASSUME NEW k \in ApiKeys, CreditWallet(k) PROVE FALSE
    BY <1>1, <2>4 DEF CreditWallet, storeVars
  <2> QED
    BY <1>2, <2>1, <2>2, <2>3, <2>4 DEF ApiStep
<1>3. CASE WorkerStep
  <2>1. ASSUME NEW w \in Workers, SaveAnswer(w) \/ FailSubmission(w)
        PROVE  \E c \in Callers : call'[c].task = t
    <3>1. worker[w].task = t
      BY <1>1, <2>1 DEF SaveAnswer, FailSubmission, UpdateStatus
    <3> QED
      BY <1>1, <2>1, <3>1, CallersApart DEF SaveAnswer, FailSubmission, Begin
  <2>2. ASSUME NEW w \in Workers, SaveAccepted(w) PROVE FALSE
    BY <1>1, <2>2 DEF SaveAccepted, UpdateStatus, TaskDoc
  <2>3. \A w \in Workers : ~FailUnroutable(w)
    BY DEF FailUnroutable, WorkerAt
  <2>4. ASSUME UNCHANGED task PROVE FALSE
    BY <1>1, <2>4
  <2> QED
    BY <1>3, <2>1, <2>2, <2>3, <2>4 DEF WorkerStep, TakeJob, TakeBack, BackoffEnds, LoadTask,
       SubmitThrows, Submit, SubmitRefused, SaveThrows, FinishJob, WorkerDies, storeVars
<1>4. CASE PollStep
  <2>1. ASSUME NEW p \in Pollers, FailTask(p) PROVE \E c \in Callers : call'[c].task = t
    <3>1. Current(p) = t
      BY <1>1, <2>1 DEF FailTask, UpdateStatus
    <3> QED
      BY <1>1, <2>1, <3>1, CallersApart DEF FailTask, Begin
  <2>2. ASSUME NEW p \in Pollers, NEW s, TimeOut(p, s) PROVE \E c \in Callers : call'[c].task = t
    <3>1. s.task = t
      BY <1>1, <2>2 DEF TimeOut, UpdateStatus
    <3> QED
      BY <1>1, <2>2, <3>1, CallersApart DEF TimeOut, Begin
  <2>3. ASSUME NEW p \in Pollers, Succeed(p) PROVE call[p].task = t
    <3>1. Current(p) = t
      BY <1>1, <2>3 DEF Succeed, UpdateStatus
    <3>2. poller[p].pc = "settling" /\ AtPolls(p)
      BY <2>3 DEF Succeed, PollerAt, Hands, OnePoller
    <3> QED
      BY <3>1, <3>2 DEF AtPolls, Bills
  <2>4. ASSUME NEW p \in Pollers, StillRunning(p) PROVE FALSE
    <3>1. task'[t].status = task[t].status \/ task'[t].status = "PROCESSING"
      BY <1>1, <2>4 DEF StillRunning, TaskDoc
    <3> QED
      BY <1>1, <3>1
  <2>5. ASSUME NEW p \in Pollers, NEW s, RetryLater(p) \/ DeferPoll(p, s) PROVE FALSE
    BY <1>1, <2>5 DEF RetryLater, DeferPoll, DeferNextPoll, TaskDoc
  <2>6. ASSUME NEW p \in Pollers, \/ AcquireLock(p) \/ FindPollable(p) \/ ReleaseLock(p)
                                  \/ BeginSettle(p) \/ SettleThrew(p) \/ RefundEnded(p)
                                  \/ PollThrows(p) \/ PollerDies(p)
                                  \/ \E s : SkipUntraceable(p, s) \/ Query(p, s)
        PROVE  FALSE
    BY <1>1, <2>6 DEF AcquireLock, FindPollable, ReleaseLock, BeginSettle, SettleThrew,
       RefundEnded, PollThrows, PollerDies, SkipUntraceable, Query, storeVars
  <2>7. ~LockLapses
    BY <1>1 DEF LockLapses, storeVars
  <2> QED
    BY <1>4, <2>1, <2>2, <2>3, <2>4, <2>5, <2>6, <2>7 DEF PollStep
<1>5. ASSUME TimePasses PROVE FALSE
  BY <1>1, <1>5 DEF TimePasses, BecomesDue, BecomesOverdue, ProviderFinishes, TaskDoc
<1> QED
  BY <1>1, <1>2, <1>3, <1>4, <1>5 DEF Next, vars, storeVars

(* At first no task has ended.                                             *)
LEMMA ClosedStart == Init => Closed
<1> SUFFICES ASSUME Init PROVE Closed
  OBVIOUS
<1>1. /\ \A t \in Tasks : debits[t] = 0 /\ record[t] = "none"
      /\ \A c \in Workers \cup Pollers : call[c].step = "idle"
      /\ \A w \in Workers : worker[w].pc = "idle"
  BY CallersApart DEF Init, BillingInit, WorkerInit, NoCall, NoHandler
<1> QED
  BY <1>1 DEF Closed, Ended

(* The handlers' part: no payment is forgotten, and nobody turns from a    *)
(* task that ended before its billing did.                                 *)
LEMMA HandlersClose ==
  ASSUME HubInv, Undisturbed, Hands, Closed, Tasks \subseteq Routed, [Next]_vars,
         \/ ApiStep /\ UNCHANGED <<worker, pollVars>>
         \/ WorkerStep /\ UNCHANGED <<apiVars, pollVars>>
         \/ PollStep /\ UNCHANGED <<apiVars, job, worker>>
  PROVE  Closed'
<1>1. /\ UNCHANGED <<record, debits>> /\ call \in [Callers -> Calls] /\ CallsBegin
      /\ "idle" \notin Ended /\ "initBilling" \notin Ended
      /\ "settle" \notin Ended /\ "refund" \notin Ended
  BY HandlersMoney, CallsBeginStep DEF HubInv, BillingOK, BillingType, Ended
<1>2. ASSUME NEW w \in Workers PROVE worker'[w].pc # "unroutable"
  <2>1. /\ worker \in [Workers -> Handlers] /\ worker[w].pc # "unroutable"
        /\ \A v \in Workers : worker[v].pc = "loading" => worker[v].task \in Routed
        /\ NoHandler.pc # "unroutable"
    BY HandsShape DEF HubInv, WorkerType, Closed, NoHandler
  <2>2. ASSUME NEW v \in Workers, NEW j, TakeJob(v, j) PROVE worker'[w].pc # "unroutable"
    BY <2>1, <2>2 DEF TakeJob
  <2>3. ASSUME NEW v \in Workers, \/ SubmitThrows(v) \/ FailUnroutable(v)
                                  \/ SaveAccepted(v) \/ FinishJob(v) \/ WorkerDies(v)
        PROVE  worker'[w].pc # "unroutable"
    BY <2>1, <2>3 DEF SubmitThrows, FailUnroutable, SaveAccepted, FinishJob, WorkerDies,
       Return, Throw
  <2>4. ASSUME NEW v \in Workers, \/ SubmitRefused(v) \/ SaveThrows(v) \/ SaveAnswer(v)
                                  \/ FailSubmission(v) \/ LoadTask(v) \/ Submit(v)
        PROVE  worker'[w].pc # "unroutable"
    <3>1. \/ \E pc \in WorkerPc \ {"unroutable"} : WorkerTo(v, pc)
          \/ worker' = [worker EXCEPT ![v] = NoHandler]
      BY <2>1, <2>4 DEF SubmitRefused, SaveThrows, SaveAnswer, FailSubmission, LoadTask, Submit,
         Return, Throw, WorkerAt, WorkerPc
    <3>2. ASSUME NEW pc \in WorkerPc \ {"unroutable"}, WorkerTo(v, pc)
          PROVE  worker'[w].pc # "unroutable"
      <4>1. CASE w = v
        BY <2>1, <3>2, <4>1 DEF WorkerTo, Handlers, NoHandler
      <4>2. CASE w # v
        BY <2>1, <3>2, <4>2 DEF WorkerTo
      <4> QED
        BY <4>1, <4>2
    <3> QED
      BY <2>1, <3>1, <3>2
  <2>5. ASSUME NEW j \in JobIds, TakeBack(j) PROVE worker'[w].pc # "unroutable"
    <3>1. worker'[w] = worker[w] \/ worker'[w] = [worker[w] EXCEPT !.job = 0]
      BY <2>5 DEF TakeBack
    <3>2. CASE worker[w] = NoHandler
      BY <2>1, <3>1, <3>2 DEF NoHandler
    <3>3. CASE worker[w] \in [pc : WorkerPc \ {"idle"}, task : Tasks, job : JobIds \cup {0}]
      BY <2>1, <3>1, <3>3
    <3> QED
      BY <2>1, <3>2, <3>3 DEF Handlers
  <2>6. ASSUME UNCHANGED worker PROVE worker'[w].pc # "unroutable"
    BY <2>1, <2>6
  <2> QED
    BY <2>2, <2>3, <2>4, <2>5, <2>6 DEF WorkerStep, BackoffEnds
<1>3. \A c \in Callers : call'[c].step \in Ended => call'[c] = call[c]
  BY <1>1, CallersApart DEF CallsBegin, Begin, Forget, NoCall
<1>4. ASSUME NEW t \in Tasks, task'[t].status \in Finished, Quiet(t)'
      PROVE  record[t] # "pre_deducted"
  <2>1. CASE task[t].status \notin Finished
    <3>1. PICK p \in Pollers : Succeed(p) /\ call[p].task = t
      BY <1>4, <2>1, TasksFinish DEF Closed, Quiet
    <3> QED
      BY <3>1 DEF Succeed, At, Ended, Closed
  <2>2. ASSUME task[t].status \in Finished, NEW c \in Callers, call[c].task = t
        PROVE  record[t] # "pre_deducted"
    <3>1. call[c] # NoCall /\ call'[c].task # t
      BY <1>4, <2>2, PopulationAssumption DEF Quiet, NoCall
    <3>2. call[c].step \in Ended
      BY <1>1, <3>1, <2>2, CallersApart DEF CallsBegin, Begin, Forget, Hands, Requests
    <3>3. CASE c \in Tasks
      <4>1. request[c] = "billing" /\ c = t
        BY <2>2, <3>1, <3>3 DEF Hands, Requests, Bills
      <4> QED
        BY <2>2, <4>1 DEF HubInv, NotInserted, Finished
    <3> QED
      BY <2>2, <3>2, <3>3 DEF Closed, Callers
  <2> QED
    BY <2>1, <2>2 DEF Quiet, Closed
<1>5. ASSUME NEW t \in Tasks, debits[t] > 0 PROVE Paid(t)'
  <2>1. CASE task[t].status \in {"SUCCESS", "CANCELLED"}
    BY <2>1, EndStays DEF Paid, Terminal
  <2>2. ASSUME NEW p \in Pollers, PaysNow(p, t) PROVE Paid(t)'
    <3>1. CASE PollStep /\ Succeed(p)
      <4>1. AtPolls(p) /\ poller[p].pc = "settling"
        BY <3>1 DEF Succeed, PollerAt, Hands, OnePoller
      <4>2. Current(p) = t /\ task[t].status \in Polled \cup {"CANCELLED"}
        BY <2>2, <4>1 DEF AtPolls, Bills, PaysNow, InHand
      <4>3. task'[t].status \in {"SUCCESS", "CANCELLED"}
        BY <3>1, <4>2, StatusMoves DEF Succeed, Polled
      <4> QED
        BY <4>3 DEF Paid
    <3>2. CASE PollStep /\ ~Succeed(p)
      BY <2>2, <3>2, PaymentGoesOn DEF Paid
    <3>3. CASE (ApiStep \/ WorkerStep) /\ UNCHANGED pollVars
      <4>1. call'[p] = call[p]
        BY <1>1, <3>3, ApiCalls, WorkerCalls, CallersApart DEF Begin, Forget
      <4> QED
        BY <2>2, <3>3, <4>1 DEF PaysNow, Paid, pollVars
    <3> QED
      BY <3>1, <3>2, <3>3
  <2> QED
    BY <1>5, <2>1, <2>2 DEF Closed, Paid
<1> QED
  BY <1>1, <1>2, <1>3, <1>4, <1>5, CallersApart DEF Closed

(* The adapter's part: a call ends with nothing set aside, and who debits  *)
(* is about to report the success or has reported it.                      *)
LEMMA BillingCloses ==
  ASSUME HubInv, Undisturbed, Hands, Holding, Backed, Closed, NEW c \in Callers, BillingStep(c),
         UNCHANGED <<storeVars, job, apiVars, worker, pollVars>>
  PROVE  Closed'
<1>1. call[c].step # "idle" /\ call[c].task \in Tasks
  <2>1. call[c].step # "idle"
    BY CallsStayInside DEF HubInv, BillingOK, BillingType, Calls, NoCall, Steps, Ended
  <2> QED
    BY <2>1, BillsInHand
<1>2. PICK t \in Tasks : call[c].task = t
  BY <1>1
<1>3. /\ AwaitMoney(c, t) /\ UNCHANGED <<task, worker, poller>>
      /\ \A d \in Callers \ {c} : call'[d] = call[d]
      /\ \A d \in Callers \ {c} : call[d].step # "idle" => call[d].task \in Tasks \ {t}
      /\ "idle" \notin Ended
  BY <1>1, <1>2, AwaitsMoney, CallsStayInside, OneCall, BillsInHand
  DEF storeVars, pollVars, Ended
<1>4. ASSUME NEW d \in Workers \cup Pollers, call'[d].step \in Ended
      PROVE  record'[call'[d].task] # "pre_deducted"
  <2>1. CASE d = c
    BY <1>2, <1>3, <1>4, <2>1, EndsClosed DEF AwaitMoney
  <2>2. CASE d # c
    BY <1>3, <1>4, <2>2, CallersApart DEF AwaitMoney, Closed
  <2> QED
    BY <2>1, <2>2
<1>5. ASSUME NEW u \in Tasks, task'[u].status \in Finished, Quiet(u)'
      PROVE  record'[u] # "pre_deducted"
  <2>1. u # t /\ Quiet(u)
    BY <1>2, <1>3, <1>5 DEF Quiet, AwaitMoney
  <2> QED
    BY <1>3, <1>5, <2>1 DEF AwaitMoney, Closed
<1>6. ASSUME NEW u \in Tasks, debits'[u] > 0 PROVE Paid(u)'
  <2>1. CASE debits[u] > 0
    <3>1. CASE task[u].status \in {"SUCCESS", "CANCELLED"}
      BY <1>3, <3>1 DEF Paid
    <3>2. ASSUME NEW p \in Pollers, PaysNow(p, u) PROVE Paid(u)'
      <4>1. CASE p # c
        BY <1>3, <3>2, <4>1, CallersApart DEF PaysNow, Paid
      <4>2. CASE p = c
        <5>1. call[c].step = "markSettled" /\ Continue(c, "returned") /\ u = t
          BY <1>2, <3>2, <4>2 DEF PaysNow, Undisturbed, BillingStep, CreateRecord, FreezeEstimate,
             MarkPreDeducted, ReadForSettle, ReleaseForSettle, DebitActual, MarkFailed, MarkSettled,
             ReadForRefund, ReleaseForRefund, GiveUpRelease, MarkRefunded, CallThrows, At, Ended
        <5>2. call'[c].step = "returned" /\ call'[c].task = u
          BY <1>3, <5>1 DEF Continue, AwaitMoney, HubInv, BillingOK, BillingType
        <5> QED
          BY <1>3, <3>2, <4>2, <5>2 DEF PaysNow, Paid
      <4> QED
        BY <4>1, <4>2
    <3> QED
      BY <2>1, <3>1, <3>2 DEF Closed, Paid
  <2>2. CASE /\ call[c].task = u /\ call[c].step = "debit" /\ call'[c].step = "markSettled"
    <3>1. CASE c \in Tasks
      BY <2>2, <3>1 DEF Hands, Requests, Bills, InitSteps, Ended, NoCall
    <3>2. CASE c \in Workers
      <4>1. worker[c].pc = "settling" /\ worker[c].task = u
            /\ task[u].status \in {"SUCCESS", "CANCELLED"}
        BY <2>2, <3>2 DEF Hands, OneHandler, AtWork, Bills, RefundSteps, Ended, NoCall
      <4> QED
        BY <1>3, <4>1 DEF Paid
    <3>3. CASE c \in Pollers
      <4>1. poller[c].pc = "settling"
        BY <2>2, <3>3 DEF Hands, OnePoller, AtPolls, Bills, RefundSteps, Ended, NoCall
      <4> QED
        BY <1>2, <1>3, <2>2, <3>3, <4>1 DEF PaysNow, Paid, AwaitMoney
    <3> QED
      BY <3>1, <3>2, <3>3 DEF Callers
  <2> QED
    BY <1>6, <2>1, <2>2, DebitsMark
<1> QED
  BY <1>3, <1>4, <1>5, <1>6 DEF Closed

(* Every step keeps what is said of the tasks that ended.                  *)
LEMMA ClosedStep ==
  ASSUME HubInv, Undisturbed, Fund, Closed, Tasks \subseteq Routed, [Next]_vars
  PROVE  Closed'
<1>1. ASSUME NEW c \in Callers, BillingStep(c),
             UNCHANGED <<storeVars, job, apiVars, worker, pollVars>>
      PROVE  Closed'
  BY <1>1, BillingCloses DEF Fund
<1>2. ASSUME UNCHANGED <<billingVars, worker, poller>>,
             \A t \in Tasks : task'[t].status = task[t].status
      PROVE  Closed'
  <2>1. UNCHANGED <<record, call, debits>>
    BY <1>2 DEF billingVars
  <2>2. \A t \in Tasks : (Quiet(t)' <=> Quiet(t)) /\ (Paid(t) => Paid(t)')
    BY <1>2, <2>1 DEF Quiet, Paid, PaysNow
  <2> QED
    BY <1>2, <2>1, <2>2 DEF Closed
<1>3. TimePasses => \A t \in Tasks : task'[t].status = task[t].status
  BY DEF TimePasses, BecomesDue, BecomesOverdue, ProviderFinishes, HubInv, StoreType, TaskDoc
<1>4. CASE UNCHANGED vars
  BY <1>2, <1>4 DEF vars, storeVars, pollVars
<1> QED
  BY <1>1, <1>2, <1>3, <1>4, HandlersClose DEF Fund, Next, pollVars

(* feature-queue.processor.ts and polling.service.ts: while nothing is cut *)
(* short, every provider has an adapter and no estimate is negative, a     *)
(* task that ended by itself has nothing frozen once its handler is done,  *)
(* and one that failed or timed out was not debited, whatever the client   *)
(* cancels meanwhile.                                                      *)
THEOREM EndsAreClosed ==
  ASSUME Undisturbed, Tasks \subseteq Routed PROVE Spec => []EndedTasksAreClosed
<1>1. HubInv /\ HubInv' /\ Fund /\ Closed /\ [Next]_vars => Fund' /\ Closed'
  BY FundStep, ClosedStep
<1>2. Init => Fund /\ Closed
  BY FundStart, ClosedStart
<1>3. ASSUME HubInv, Fund, Closed PROVE EndedTasksAreClosed
  <2> SUFFICES ASSUME NEW t \in Tasks
               PROVE  /\ Quiet(t) /\ task[t].status \in Finished => held[t] = 0
                      /\ task[t].status \in {"FAILED", "TIMEOUT"} => debits[t] = 0
    BY DEF EndedTasksAreClosed, Finished
  <2>1. ASSUME Quiet(t), task[t].status \in Finished PROVE held[t] = 0
    BY <1>3, <2>1 DEF Closed, Fund, Holding, HoldMatchesRecord
  <2>2. ASSUME task[t].status \in {"FAILED", "TIMEOUT"} PROVE ~(debits[t] > 0)
    <3>1. ASSUME NEW p \in Pollers, PaysNow(p, t) PROVE FALSE
      <4>1. AtPolls(p) /\ poller[p].pc = "settling"
        BY <1>3, <3>1 DEF PaysNow, Fund, Hands, OnePoller
      <4>2. Current(p) = t /\ task[t].status \in Polled \cup {"CANCELLED"}
        BY <3>1, <4>1 DEF AtPolls, Bills, PaysNow, InHand
      <4> QED
        BY <2>2, <4>2 DEF Polled
    <3> QED
      BY <1>3, <2>2, <3>1 DEF Closed, Paid
  <2>3. debits[t] \in Nat
    BY <1>3 DEF HubInv, BillingOK, BillingType
  <2> QED
    BY <2>1, <2>2, <2>3
<1> QED
  BY <1>1, <1>2, <1>3, HubInvariant, PTL DEF Spec

-----------------------------------------------------------------------------

(***************************************************************************)
(* The escrow.  The calls of billing, one await after another and          *)
(* interleaved with everything else, implement the contract of Escrow.     *)
(*                                                                         *)
(* The deal of a task is read off its record, its debits and the call that *)
(* is at work on it.  By Fund there is one such call at most, so that each *)
(* await changes one deal or none, by a move the contract has.  That the   *)
(* move is allowed - no second charge, no refund of what was charged, no   *)
(* second deposit - is what Books says: a task that is charged or refunded *)
(* is only in hands that are about to let go of it, and so never billed    *)
(* again.                                                                  *)
(***************************************************************************)

(* What the records say while the escrow is kept *)

(* Nothing is left to bill for t. *)
Over(t) == debits[t] > 0 \/ record[t] = "refunded"

(* Whoever still has a task in hand that is over is about to let go of it. *)
LetsGo(t) ==
  /\ request[t] = "accepted"
  /\ \A j \in JobIds : Used(j) /\ job[j].task = t /\ job[j].state # "completed" =>
       \E w \in Workers : worker[w].pc # "idle" /\ worker[w].job = j
  /\ \A c \in Callers : MayBill(c, t) => Bills(c, t, {"markSettled", "returned"})
  /\ task[t].status \in Polled => \E p \in Pollers : PaysNow(p, t)

OverHands == \A t \in Tasks : Over(t) => LetsGo(t)

(* The estimate of a prepaid task is frozen before its request goes on. *)
Secured ==
  \A t \in Tasks : IsInternal(t) /\ t \in Prepaid /\ record[t] = "estimated" =>
    \/ request[t] = "billing" /\ call[t].step \in {"freeze", "markPreDeducted", "refused"}
    \/ request[t] = "rejected"

(* What a call is about to do fits the record it has read and the task.    *)
Stepwise ==
  \A c \in Callers :
    LET t == call[c].task IN
    /\ call[c].step \in {"release", "debit", "markSettled", "markFailed", "refundRelease",
                         "markRefunded"} => record[t] # "none"
    /\ call[c].step \in {"freeze", "markPreDeducted"} => t \in Prepaid
    /\ call[c].step = "markSettled" /\ Internal(c) => debits[t] > 0

(* A settled record of an internal client was debited.                     *)
Paying == \A t \in Tasks : IsInternal(t) /\ record[t] = "settled" => debits[t] > 0

Books == Spared /\ OverHands /\ Secured /\ Stepwise /\ Paying

-----------------------------------------------------------------------------
(* The deals *)

OnlyCall(c, t) == call[c].task = t /\ \A d \in Callers \ {c} : call[d].task # t

(* What is promised about t when c makes the only call for it *)
DealIn(c, t) ==
  CASE ~IsInternal(t) -> "none"
    [] IsInternal(t) /\ debits[t] > 0 -> "charged"
    [] /\ IsInternal(t) /\ debits[t] = 0
       /\ \/ call[c].step = "markPreDeducted"
          \/ /\ record[t] = "pre_deducted"
             /\ call[c].step \notin {"debit", "markFailed", "markRefunded"}
       -> "reserved"
    [] OTHER ->
         CASE record[t] = "refunded" -> "waived"
           [] record[t] = "failed" -> "owed"
           [] record[t] = "pre_deducted" ->
                IF call[c].step = "markRefunded" THEN "waived" ELSE "owed"
           [] record[t] = "estimated" /\ t \notin Prepaid -> "unsecured"
           [] OTHER -> "none"

(* The only call for t and the records determine its deal.                 *)
LEMMA DealInCall ==
  ASSUME NEW t \in Tasks, NEW c \in Callers
  PROVE  /\ OnlyCall(c, t) => DealOf(t) = DealIn(c, t)
         /\ OnlyCall(c, t)' => DealOf(t)' = DealIn(c, t)'
<1>1. ASSUME OnlyCall(c, t) PROVE DealOf(t) = DealIn(c, t)
  <2>1. \A S : InCall(t, S) <=> call[c].step \in S
    BY <1>1 DEF OnlyCall, InCall
  <2>2. /\ InCall(t, {"markPreDeducted"}) <=> call[c].step = "markPreDeducted"
        /\ InCall(t, {"markRefunded"}) <=> call[c].step = "markRefunded"
        /\ InCall(t, {"debit", "markFailed", "markRefunded"})
             <=> call[c].step \in {"debit", "markFailed", "markRefunded"}
    BY <2>1
  <2> QED
    BY <2>2 DEF DealOf, DealIn, IsReserved
<1>2. ASSUME OnlyCall(c, t)' PROVE DealOf(t)' = DealIn(c, t)'
  <2>1. /\ InCall(t, {"markPreDeducted"})' <=> call'[c].step = "markPreDeducted"
        /\ InCall(t, {"markRefunded"})' <=> call'[c].step = "markRefunded"
        /\ InCall(t, {"debit", "markFailed", "markRefunded"})'
             <=> call'[c].step \in {"debit", "markFailed", "markRefunded"}
    BY <1>2 DEF OnlyCall, InCall
  <2> QED
    BY <2>1 DEF DealOf, DealIn, IsReserved, IsInternal
<1> QED
  BY <1>1, <1>2

(* A deal changes with the record, the debits, or a call at these steps. *)
Telling == {"markPreDeducted", "debit", "markFailed", "markRefunded"}

(* Nothing else changes a deal.                                            *)
LEMMA DealsKept ==
  ASSUME NEW t \in Tasks, record'[t] = record[t], debits'[t] = debits[t],
         \A c \in Callers : \/ call'[c] = call[c]
                            \/ ~Bills(c, t, Telling) /\ ~Bills(c, t, Telling)'
  PROVE  DealOf(t)' = DealOf(t)
<1>1. ASSUME NEW c \in Callers, NEW s \in Telling
      PROVE  call'[c].task = t /\ call'[c].step = s <=> call[c].task = t /\ call[c].step = s
  BY <1>1 DEF Bills
<1>2. InCall(t, {"markPreDeducted"})' <=> InCall(t, {"markPreDeducted"})
  BY <1>1 DEF InCall, Telling
<1>3. InCall(t, {"markRefunded"})' <=> InCall(t, {"markRefunded"})
  BY <1>1 DEF InCall, Telling
<1>4. InCall(t, {"debit", "markFailed", "markRefunded"})'
        <=> InCall(t, {"debit", "markFailed", "markRefunded"})
  BY <1>1 DEF InCall, Telling
<1> QED
  BY <1>2, <1>3, <1>4 DEF DealOf, IsReserved, IsInternal

(* The handlers outside the adapter change no deal: a call they begin or   *)
(* end stands before its first write, or after its last.                   *)
LEMMA HandlersDeals ==
  ASSUME HubInv, Undisturbed, Hands, ApiStep \/ WorkerStep \/ PollStep, NEW t \in Tasks
  PROVE  DealOf(t)' = DealOf(t)
<1>1. /\ UNCHANGED <<record, debits>> /\ CallsBegin /\ call \in [Callers -> Calls]
      /\ Telling \cap (Ended \cup {"idle", "initBilling", "settle", "refund"}) = {}
  BY HandlersMoney, CallsBeginStep DEF HubInv, BillingOK, BillingType, Telling, Ended
<1>2. ASSUME NEW c \in Callers, call'[c] # call[c]
      PROVE  ~Bills(c, t, Telling) /\ ~Bills(c, t, Telling)'
  <2>1. /\ call[c].step \in Ended \cup {"idle"}
        /\ call'[c].step \in {"idle", "initBilling", "settle", "refund"}
    BY <1>1, <1>2, CallersApart DEF CallsBegin, Begin, Forget, NoCall, Hands, Requests
  <2> QED
    BY <1>1, <2>1 DEF Bills
<1> QED
  BY <1>1, <1>2, DealsKept

(* The escrow's account and deal, as the wallet and the records show them *)
Account == [k \in ApiKeys |-> [total |-> wallet[k].balance, aside |-> wallet[k].frozen]]
Deal == [t \in Tasks |-> DealOf(t)]

(* The wallet of the owner of t gets a on top of its frozen amount *)
Freezes(t, a) ==
  \A k \in ApiKeys :
    /\ wallet'[k].balance = wallet[k].balance
    /\ wallet'[k].frozen = IF k = Owner[t] THEN wallet[k].frozen + a ELSE wallet[k].frozen

Charges(t) ==
  \A k \in ApiKeys :
    /\ wallet'[k].frozen = wallet[k].frozen
    /\ wallet'[k].balance = IF k = Owner[t] THEN wallet[k].balance - ActualCost[t]
                            ELSE wallet[k].balance

(* What a step does to the deal of t, and the move of the escrow it is *)
LEMMA EscrowMoves ==
  ASSUME wallet \in WalletType, NEW t \in Tasks,
         \A u \in Tasks \ {t} : DealOf(u)' = DealOf(u),
         \/ UNCHANGED wallet /\ DealOf(t)' = DealOf(t)
         \/ /\ DealOf(t) = "none" /\ DealOf(t)' = "reserved"
            /\ Covers(Owner[t], EstimatedCost[t]) /\ Freezes(t, EstimatedCost[t])
         \/ DealOf(t) = "none" /\ DealOf(t)' = "unsecured" /\ UNCHANGED wallet
         \/ /\ DealOf(t) = "reserved" /\ DealOf(t)' \in {"owed", "waived"}
            /\ Freezes(t, -EstimatedCost[t])
         \/ /\ DealOf(t) \in {"owed", "unsecured"} /\ DealOf(t)' = "charged"
            /\ Covers(Owner[t], ActualCost[t]) /\ Charges(t)
         \/ DealOf(t) = "unsecured" /\ DealOf(t)' \in {"owed", "waived"} /\ UNCHANGED wallet
  PROVE  Contract!EscrowNext \/ UNCHANGED <<Account, Deal>>
<1> DEFINE k == Owner[t]
           a == EstimatedCost[t]
<1>1. /\ k \in ApiKeys /\ a \in Int /\ ActualCost[t] \in Int
      /\ \A i \in ApiKeys : wallet[i].balance \in Int /\ wallet[i].frozen \in Int
  BY PopulationAssumption, MoneyAssumption DEF WalletType
<1>2. Deal' = [Deal EXCEPT ![t] = DealOf(t)'] /\ Deal[t] = DealOf(t)
  BY DEF Deal
<1>3. UNCHANGED wallet => Account' = Account
  BY DEF Account
<1>4. CASE UNCHANGED wallet /\ DealOf(t)' = DealOf(t)
  BY <1>2, <1>3, <1>4 DEF Deal
<1>5. CASE /\ DealOf(t) = "none" /\ DealOf(t)' = "reserved"
           /\ Covers(k, a) /\ Freezes(t, a)
  <2>1. Account' = [Account EXCEPT ![k].aside = @ + a]
    BY <1>1, <1>5 DEF Freezes, Account
  <2>2. Account[k].total - Account[k].aside >= a
    BY <1>1, <1>5 DEF Account, Covers, Available
  <2>3. Contract!Reserve(t)
    BY <1>2, <1>5, <2>1, <2>2 DEF Contract!Reserve, Contract!Agree, Contract!Free, Account, Deal
  <2> QED
    BY <2>3 DEF Contract!EscrowNext
<1>6. CASE DealOf(t) = "none" /\ DealOf(t)' = "unsecured" /\ UNCHANGED wallet
  BY <1>2, <1>3, <1>6 DEF Contract!OpenUnsecured, Contract!Agree, Contract!EscrowNext, Account, Deal
<1>7. CASE /\ DealOf(t) = "reserved" /\ DealOf(t)' \in {"owed", "waived"}
           /\ Freezes(t, -a)
  <2>1. Account' = [Account EXCEPT ![k].aside = @ - a]
    BY <1>1, <1>7 DEF Freezes, Account
  <2>2. Contract!GiveBack(t)
    BY <1>2, <1>7, <2>1 DEF Contract!GiveBack, Contract!Agree, Account, Deal
  <2> QED
    BY <2>2 DEF Contract!EscrowNext
<1>8. CASE /\ DealOf(t) \in {"owed", "unsecured"} /\ DealOf(t)' = "charged"
           /\ Covers(k, ActualCost[t]) /\ Charges(t)
  <2>1. Account' = [Account EXCEPT ![k].total = @ - ActualCost[t]]
    BY <1>1, <1>8 DEF Charges, Account
  <2>2. Account[k].total - Account[k].aside >= ActualCost[t]
    BY <1>1, <1>8 DEF Account, Covers, Available
  <2>3. Contract!Charge(t)
    BY <1>2, <1>8, <2>1, <2>2 DEF Contract!Charge, Contract!Agree, Contract!Free, Account, Deal
  <2> QED
    BY <2>3 DEF Contract!EscrowNext
<1>9. CASE DealOf(t) = "unsecured" /\ DealOf(t)' \in {"owed", "waived"} /\ UNCHANGED wallet
  BY <1>2, <1>3, <1>9 DEF Contract!Resolve, Contract!Agree, Contract!EscrowNext, Account, Deal
<1> QED
  BY <1>4, <1>5, <1>6, <1>7, <1>8, <1>9

(* Workers and cron handlers bill accepted tasks only.                     *)
LEMMA AcceptedInHand ==
  ASSUME HubInv, Hands, NEW c \in Workers \cup Pollers, NEW t \in Tasks, MayBill(c, t)
  PROVE  request[t] = "accepted"
<1>1. CASE c \in Workers
  BY <1>1, JobInWork, CallersApart DEF MayBill
<1>2. CASE c \in Pollers
  <2>1. poller[c].pc # "idle" /\ AtPolls(c)
    BY <1>2, CallersApart DEF MayBill, InHand, Hands, OnePoller
  <2> QED
    BY <1>2, <2>1, CallersApart DEF AtPolls, Released, MayBill
<1> QED
  BY <1>1, <1>2

(* A deposit *)
LEMMA DepositMoves ==
  ASSUME HubInv, NEW k \in ApiKeys, CreditWallet(k), \A t \in Tasks : DealOf(t)' = DealOf(t)
  PROVE  Contract!EscrowNext
<1>1. PICK a \in Credits : wallet' = [wallet EXCEPT ![k] =
             [open |-> TRUE, balance |-> wallet[k].balance + a, frozen |-> wallet[k].frozen]]
  BY DEF CreditWallet, Credit
<1>2. Account' = [Account EXCEPT ![k].total = @ + a]
  BY <1>1 DEF Account, HubInv, BillingOK, BillingType, WalletType
<1>3. Deal' = Deal
  BY DEF Deal
<1>4. Contract!Deposit(k)
  BY <1>2, <1>3 DEF Contract!Deposit, Account, Deal
<1> QED
  BY <1>4 DEF Contract!EscrowNext

(* One await of a call for t is one move of the escrow, or none. *)
LEMMA BillingDeals ==
  ASSUME HubInv, HubInv', Undisturbed, Fund, Books, NEW c \in Callers, BillingStep(c)
  PROVE  Contract!EscrowNext \/ UNCHANGED <<Account, Deal>>
<1>1. call[c].step \notin Ended \cup {"idle"} /\ call[c].task \in Tasks /\ MayBill(c, call[c].task)
  <2>1. call[c].step # "idle"
    BY CallsStayInside DEF HubInv, BillingOK, BillingType, Calls, NoCall, Steps, Ended
  <2>2. call[c].step \notin Ended
    BY DEF BillingStep, CreateRecord, FreezeEstimate, MarkPreDeducted, ReadForSettle,
         ReleaseForSettle, DebitActual, MarkFailed, MarkSettled, ReadForRefund,
         ReleaseForRefund, GiveUpRelease, MarkRefunded, CallThrows, At, Ended
  <2> QED
    BY <2>1, <2>2, BillsInHand DEF Fund
<1>2. PICK t \in Tasks : call[c].task = t
  BY <1>1
<1> DEFINE k == Owner[t]
           a == EstimatedCost[t]
<1>3. /\ k \in ApiKeys /\ a \in Nat /\ Key(c) = k /\ (Internal(c) <=> IsInternal(t))
      /\ record \in [Tasks -> RecordStatus] /\ wallet \in WalletType /\ wallet' \in WalletType
      /\ call \in [Callers -> Calls] /\ debits \in [Tasks -> Nat] /\ held \in [Tasks -> Int]
      /\ "storeError" \notin Environment
  BY <1>2, PopulationAssumption, InTheBlack
  DEF HubInv, BillingOK, BillingType, Key, Internal, IsInternal, Undisturbed
<1>4. AwaitMoney(c, t)
  BY <1>2, AwaitsMoney DEF Fund
<1>5. /\ \A d \in Callers \ {c} : call'[d] = call[d] /\ call[d].task # t
      /\ OnlyCall(c, t) /\ OnlyCall(c, t)'
  <2>1. \A d \in Callers \ {c} : call'[d] = call[d] /\ call[d].task # t
    <3>1. ASSUME NEW d \in Callers \ {c} PROVE call[d].task # t
      <4>1. CASE call[d].step = "idle"
        BY <1>3, <4>1, PopulationAssumption DEF Calls, NoCall, Steps, Ended
      <4>2. CASE call[d].step # "idle"
        BY <1>1, <1>2, <4>2, OneCall DEF Fund
      <4> QED
        BY <4>1, <4>2
    <3> QED
      BY <3>1, CallsStayInside
  <2> QED
    BY <1>2, <1>4, <2>1 DEF OnlyCall, AwaitMoney
<1>6. DealOf(t) = DealIn(c, t) /\ DealOf(t)' = DealIn(c, t)'
  BY <1>5, DealInCall
<1>7. ASSUME NEW u \in Tasks \ {t}, debits'[u] = debits[u] PROVE DealOf(u)' = DealOf(u)
  <2>1. record'[u] = record[u]
    BY <1>4 DEF AwaitMoney
  <2>2. \A d \in Callers : \/ call'[d] = call[d]
                           \/ ~Bills(d, u, Telling) /\ ~Bills(d, u, Telling)'
    BY <1>2, <1>4, <1>5 DEF Bills, AwaitMoney
  <2> QED
    BY <1>7, <2>1, <2>2, DealsKept
<1>8. \A u \in Tasks \ {t} : debits'[u] = debits[u]
  BY <1>2, <1>3 DEF BillingStep, CreateRecord, FreezeEstimate, MarkPreDeducted, ReadForSettle,
         ReleaseForSettle, DebitActual, MarkFailed, MarkSettled, ReadForRefund,
         ReleaseForRefund, GiveUpRelease, MarkRefunded, CallThrows
<1>9. \A u \in Tasks \ {t} : DealOf(u)' = DealOf(u)
  BY <1>7, <1>8
<1>10. CASE ~IsInternal(t)
  <2>1. \A i \in ApiKeys : wallet'[i] = wallet[i]
    BY <1>3, <1>10, WalletInHand DEF Books, Spared, WalletCallsInternal
  <2>2. UNCHANGED wallet
    BY <1>3, <2>1 DEF WalletType
  <2>3. DealOf(t)' = DealOf(t)
    BY <1>6, <1>10 DEF DealIn, IsInternal
  <2> QED
    BY <1>3, <1>9, <2>2, <2>3, EscrowMoves
<1>11. CASE IsInternal(t)
  <2>1. MoneyInHand(c) /\ Fund /\ IsInternal(t)'
    BY <1>1, <1>11 DEF Fund, Holding, IsInternal
  <2>2. call[c].step # "markSettled" => debits[t] = 0 /\ record[t] # "refunded" /\ record[t] # "settled"
    <3>1. Bills(c, t, {"markSettled", "returned"}) => call[c].step = "markSettled"
      BY <1>1 DEF Bills, Ended
    <3> QED
      BY <1>1, <1>2, <1>3, <1>11, <3>1 DEF Books, OverHands, LetsGo, Over, Paying
  <2>3. record[t] = "estimated" /\ call[c].step \notin {"initBilling", "freeze", "markPreDeducted"}
          => t \notin Prepaid
    <3>1. c \in Tasks => call[c].step \in {"initBilling", "freeze", "markPreDeducted"}
      BY <1>1 DEF Fund, Hands, Requests, Bills, InitSteps, NoCall
    <3>2. c \notin Tasks => request[t] = "accepted"
      BY <1>1, <1>2, AcceptedInHand DEF Fund, Callers
    <3> QED
      BY <1>11, <3>1, <3>2 DEF Books, Secured
  <2>4. ASSUME UNCHANGED wallet,
               \/ DealIn(c, t)' = DealIn(c, t)
               \/ DealIn(c, t) = "none" /\ DealIn(c, t)' = "unsecured"
               \/ DealIn(c, t) = "unsecured" /\ DealIn(c, t)' \in {"owed", "waived"}
        PROVE  Contract!EscrowNext \/ UNCHANGED <<Account, Deal>>
    BY <1>3, <1>6, <1>9, <2>4, EscrowMoves
  <2>5. \A s : Continue(c, s) => call'[c].step = s
    BY <1>1, <1>3 DEF Continue, Calls, NoCall
  <2>6. CASE CreateRecord(c)
    <3>1. record[t] = "none" /\ debits[t] = 0 /\ call[c].step = "initBilling"
      BY <1>2, <2>1, <2>2, <2>6 DEF MoneyInHand, CreateRecord, At
    <3>2. /\ record'[t] = "estimated" /\ debits'[t] = 0 /\ UNCHANGED wallet
          /\ call'[c].step = IF t \in Prepaid THEN "freeze" ELSE "returned"
      BY <1>2, <1>3, <1>11, <2>5, <2>6, <3>1 DEF CreateRecord, IsInternal
    <3> QED
      BY <2>4, <3>1, <3>2 DEF DealIn, IsInternal
  <2>7. CASE FreezeEstimate(c)
    <3>1. record[t] = "estimated" /\ debits[t] = 0 /\ call[c].step = "freeze" /\ t \in Prepaid
      BY <1>2, <2>1, <2>2, <2>7 DEF MoneyInHand, FreezeEstimate, At, Books, Stepwise
    <3>2. UNCHANGED <<record, debits>> /\ DealIn(c, t) = "none"
      BY <2>7, <3>1 DEF FreezeEstimate, DealIn
    <3>3. CASE UNCHANGED wallet /\ Continue(c, "refused")
      BY <2>4, <2>5, <3>1, <3>2, <3>3 DEF DealIn, IsInternal
    <3>4. CASE Freeze(k, a) /\ Continue(c, "markPreDeducted")
      <4>1. DealOf(t) = "none" /\ DealOf(t)' = "reserved"
        BY <1>6, <2>1, <2>5, <3>1, <3>2, <3>4 DEF DealIn
      <4>2. Covers(k, a) /\ Freezes(t, a)
        BY <1>3, <3>4 DEF Freeze, Freezes, WalletType
      <4> QED
        BY <1>3, <1>9, <4>1, <4>2, EscrowMoves
    <3> QED
      BY <1>2, <1>3, <2>7, <3>3, <3>4 DEF FreezeEstimate
  <2>8. CASE MarkPreDeducted(c)
    <3>1. record[t] = "estimated" /\ debits[t] = 0 /\ call[c].step = "markPreDeducted"
      BY <1>2, <2>1, <2>2, <2>8 DEF MoneyInHand, MarkPreDeducted, At
    <3>2. /\ record'[t] = "pre_deducted" /\ debits'[t] = 0 /\ call'[c].step = "returned"
          /\ UNCHANGED wallet
      BY <1>2, <1>3, <2>5, <2>8, <3>1 DEF MarkPreDeducted, MoveRecord
    <3> QED
      BY <2>4, <3>1, <3>2 DEF DealIn, IsInternal
  <2>9. CASE ReadForSettle(c) \/ ReadForRefund(c)
    <3>1. debits[t] = 0 /\ call[c].step \in {"settle", "refund"} /\ UNCHANGED <<wallet, record, debits>>
      BY <1>2, <2>2, <2>9 DEF ReadForSettle, ReadForRefund, At
    <3>2. \/ record[t] = "none" /\ call'[c].step = "returned"
          \/ record[t] = "pre_deducted" /\ call'[c].step \in {"release", "refundRelease"}
          \/ record[t] \notin {"none", "pre_deducted"} /\ call'[c].step \in {"debit", "markRefunded"}
      BY <1>2, <1>3, <1>11, <2>5, <2>9 DEF ReadForSettle, ReadForRefund
    <3> QED
      BY <2>4, <3>1, <3>2 DEF DealIn, IsInternal
  <2>10. CASE ReleaseForSettle(c) \/ ReleaseForRefund(c)
    <3>1. /\ record[t] = "pre_deducted" /\ debits[t] = 0 /\ UNCHANGED <<record, debits>>
          /\ call[c].step \in {"release", "refundRelease"} /\ call'[c].step \in {"debit", "markRefunded"}
      BY <1>2, <2>1, <2>2, <2>5, <2>10 DEF MoneyInHand, ReleaseForSettle, ReleaseForRefund, At
    <3>2. DealOf(t) = "reserved" /\ DealOf(t)' \in {"owed", "waived"}
      BY <1>6, <2>1, <3>1 DEF DealIn
    <3>3. held[t] = a /\ held'[t] = 0
      BY <1>2, <1>4, <2>1, <3>1 DEF MoneyInHand, HoldOf, AwaitMoney
    <3>4. \A i \in ApiKeys : wallet'[i].balance = wallet[i].balance
      BY <1>3, <2>10 DEF ReleaseForSettle, ReleaseForRefund, UnfreezeFor, Unfreeze, WalletType
    <3>5. Freezes(t, -a)
      <4>1. wallet[k].frozen \in Nat
        BY <1>3, InTheBlack
      <4> QED
        BY <1>3, <1>4, <3>3, <3>4, <4>1 DEF Freezes, AwaitMoney
    <3> QED
      BY <1>3, <1>9, <3>2, <3>5, EscrowMoves
  <2>11. CASE DebitActual(c)
    <3>1. /\ debits[t] = 0 /\ call[c].step = "debit" /\ UNCHANGED record
          /\ record[t] \in {"estimated", "pre_deducted", "failed"}
          /\ record[t] = "estimated" => t \notin Prepaid
      BY <1>2, <1>3, <2>2, <2>3, <2>11 DEF DebitActual, At, Books, Stepwise, RecordStatus
    <3>2. CASE Debit(k, ActualCost[t]) /\ debits'[t] = 1
      <4>1. DealOf(t) \in {"owed", "unsecured"} /\ DealOf(t)' = "charged"
        BY <1>6, <2>1, <3>1, <3>2 DEF DealIn
      <4>2. Covers(k, ActualCost[t]) /\ Charges(t)
        BY <1>3, <3>2 DEF Debit, Charges, WalletType
      <4> QED
        BY <1>3, <1>9, <4>1, <4>2, EscrowMoves
    <3>3. CASE UNCHANGED <<wallet, debits>> /\ Continue(c, "markFailed")
      BY <2>4, <2>5, <3>1, <3>3 DEF DealIn, IsInternal
    <3> QED
      BY <1>2, <1>3, <2>11, <3>1, <3>2, <3>3 DEF DebitActual
  <2>12. CASE MarkFailed(c)
    <3>1. /\ debits[t] = 0 /\ call[c].step = "markFailed"
          /\ record[t] \in {"estimated", "pre_deducted", "failed"}
          /\ record[t] = "estimated" => t \notin Prepaid
      BY <1>2, <1>3, <2>2, <2>3, <2>12 DEF MarkFailed, At, Books, Stepwise, RecordStatus
    <3>2. record'[t] = "failed" /\ debits'[t] = 0 /\ call'[c].step = "threw" /\ UNCHANGED wallet
      BY <1>2, <1>3, <2>5, <2>12, <3>1 DEF MarkFailed
    <3> QED
      BY <2>4, <3>1, <3>2 DEF DealIn, IsInternal
  <2>13. CASE MarkSettled(c)
    <3>1. debits[t] > 0 /\ UNCHANGED <<wallet, debits>>
      BY <1>2, <1>3, <1>11, <2>13 DEF MarkSettled, At, Books, Stepwise
    <3> QED
      BY <2>4, <3>1 DEF DealIn, IsInternal
  <2>14. CASE MarkRefunded(c)
    <3>1. /\ debits[t] = 0 /\ call[c].step = "markRefunded"
          /\ record[t] \in {"estimated", "pre_deducted", "failed"}
          /\ record[t] = "estimated" => t \notin Prepaid
      BY <1>2, <1>3, <2>2, <2>3, <2>14 DEF MarkRefunded, At, Books, Stepwise, RecordStatus
    <3>2. /\ record'[t] = IF record[t] = "failed" THEN "failed" ELSE "refunded"
          /\ debits'[t] = 0 /\ call'[c].step = "returned" /\ UNCHANGED wallet
      BY <1>2, <1>3, <2>5, <2>14, <3>1 DEF MarkRefunded, MoveRecord, Live
    <3> QED
      BY <2>4, <3>1, <3>2 DEF DealIn, IsInternal
  <2> QED
    BY <1>3, <2>6, <2>7, <2>8, <2>9, <2>10, <2>11, <2>12, <2>13, <2>14
    DEF BillingStep, GiveUpRelease, CallThrows
<1> QED
  BY <1>10, <1>11

-----------------------------------------------------------------------------
(* The books are kept. *)

(* At first nothing is written in them.                                    *)
LEMMA BooksStart == Init => Books
<1> SUFFICES ASSUME Init PROVE Books
  OBVIOUS
<1>1. /\ \A t \in Tasks : debits[t] = 0 /\ record[t] = "none"
      /\ \A c \in Callers : call[c] = NoCall
  BY DEF Init, BillingInit
<1> QED
  BY <1>1, SparedStart DEF Books, OverHands, Over, Secured, Stepwise, Paying, NoCall

(* What an await of a call does to the record and the debits of its task *)
LEMMA AwaitRecords ==
  ASSUME HubInv, Undisturbed, Fund, Books, NEW c \in Callers, BillingStep(c),
         NEW t \in Tasks, call[c].task = t
  PROVE  /\ \A u \in Tasks \ {t} : record'[u] = record[u] /\ debits'[u] = debits[u]
         /\ record[t] # "none" => record'[t] # "none"
         /\ debits'[t] >= debits[t]
         /\ debits'[t] > debits[t] => call[c].step = "debit" /\ call'[c].step = "markSettled"
         /\ record'[t] = "refunded" =>
              \/ record[t] = "refunded"
              \/ call[c].step = "markRefunded" /\ call'[c].step = "returned"
         /\ call[c].step \in InitSteps => record'[t] \notin {"refunded", "settled"}
         /\ IsInternal(t) /\ record'[t] = "settled" => debits'[t] > 0
         /\ record'[t] = "estimated" /\ IsInternal(t) /\ t \in Prepaid =>
              record[t] = "estimated" \/ call'[c].step = "freeze"
<1>1. /\ record \in [Tasks -> RecordStatus] /\ debits \in [Tasks -> Nat]
      /\ call \in [Callers -> Calls] /\ call[c].step \notin Ended \cup {"idle"}
      /\ (Internal(c) <=> IsInternal(t)) /\ "storeError" \notin Environment
  <2>1. call[c].step # "idle"
    BY CallsStayInside DEF HubInv, BillingOK, BillingType, Calls, NoCall, Steps, Ended
  <2>2. call[c].step \notin Ended
    BY DEF BillingStep, CreateRecord, FreezeEstimate, MarkPreDeducted, ReadForSettle,
         ReleaseForSettle, DebitActual, MarkFailed, MarkSettled, ReadForRefund,
         ReleaseForRefund, GiveUpRelease, MarkRefunded, CallThrows, At, Ended
  <2> QED
    BY <2>1, <2>2 DEF HubInv, BillingOK, BillingType, Internal, IsInternal, Key, Undisturbed
<1>2. \A s : Continue(c, s) => call'[c].step = s
  BY <1>1 DEF Continue, Calls, NoCall
<1>3. MoneyInHand(c) /\ (call[c].step = "markSettled" /\ IsInternal(t) => debits[t] > 0)
      /\ (IsInternal(t) /\ record[t] = "settled" => debits[t] > 0)
  BY <1>1 DEF Fund, Holding, Books, Stepwise, Paying
<1>4. CASE CreateRecord(c)
  <2>1. record[t] = "none" /\ record'[t] \in {"none", "estimated"} /\ UNCHANGED debits
    BY <1>1, <1>3, <1>4 DEF CreateRecord, At, MoneyInHand
  <2>2. \A u \in Tasks \ {t} : record'[u] = record[u]
    BY <1>1, <1>4 DEF CreateRecord
  <2>3. IsInternal(t) /\ t \in Prepaid => call'[c].step = "freeze"
    BY <1>1, <1>2, <1>4 DEF CreateRecord, IsInternal, Key
  <2> QED
    BY <1>1, <2>1, <2>2, <2>3
<1>5. CASE MarkPreDeducted(c)
  BY <1>1, <1>3, <1>5 DEF MarkPreDeducted, At, MoneyInHand, MoveRecord
<1>6. CASE FreezeEstimate(c)
  BY <1>1, <1>3, <1>6 DEF FreezeEstimate, At, MoneyInHand
<1>7. CASE DebitActual(c)
  <2>1. UNCHANGED record /\ call[c].step = "debit" /\ call[c].step \notin InitSteps
    BY <1>1, <1>7 DEF DebitActual, At, InitSteps, Ended
  <2>2. \/ UNCHANGED debits
        \/ debits' = [debits EXCEPT ![t] = @ + 1] /\ call'[c].step = "markSettled"
    BY <1>2, <1>7 DEF DebitActual
  <2> QED
    BY <1>1, <1>3, <2>1, <2>2
<1>8. CASE ReadForSettle(c) \/ ReadForRefund(c) \/ ReleaseForSettle(c) \/ ReleaseForRefund(c)
  <2>1. UNCHANGED <<record, debits>> /\ call[c].step \notin InitSteps
    BY <1>1, <1>8 DEF ReadForSettle, ReadForRefund, ReleaseForSettle, ReleaseForRefund, At,
       InitSteps, Ended
  <2> QED
    BY <1>1, <1>3, <2>1
<1>9. CASE MarkFailed(c)
  BY <1>1, <1>9 DEF MarkFailed, At, InitSteps, Ended
<1>10. CASE MarkSettled(c) \/ MarkRefunded(c)
  <2>1. /\ UNCHANGED debits /\ call[c].step \in {"markSettled", "markRefunded"}
        /\ \A u \in Tasks \ {t} : record'[u] = record[u]
        /\ call'[c].step = "returned"
    BY <1>1, <1>2, <1>10 DEF MarkSettled, MarkRefunded, At, MoveRecord
  <2>2. \/ record'[t] = record[t]
        \/ record'[t] = "settled" /\ call[c].step = "markSettled"
        \/ record'[t] = "refunded" /\ call[c].step = "markRefunded"
    BY <1>1, <1>10 DEF MarkSettled, MarkRefunded, At, MoveRecord
  <2>3. record[t] # "none" => record'[t] # "none"
    BY <2>2
  <2> QED
    BY <1>1, <1>3, <2>1, <2>2, <2>3 DEF InitSteps, Ended
<1> QED
  BY <1>1, <1>4, <1>5, <1>6, <1>7, <1>8, <1>9, <1>10 DEF BillingStep, GiveUpRelease, CallThrows

(* An await keeps the books.  The one that charges or refunds t leaves its *)
(* call one step from the end, and no other hand holds t.                  *)
LEMMA BillingBooks ==
  ASSUME HubInv, Undisturbed, Fund, Books, NEW c \in Callers, BillingStep(c),
         UNCHANGED <<storeVars, job, apiVars, worker, pollVars>>
  PROVE  OverHands' /\ Secured' /\ Stepwise' /\ Paying'
<1>1. call[c].step \notin Ended \cup {"idle"} /\ call[c].task \in Tasks /\ MayBill(c, call[c].task)
  <2>1. call[c].step # "idle"
    BY CallsStayInside DEF HubInv, BillingOK, BillingType, Calls, NoCall, Steps, Ended
  <2>2. call[c].step \notin Ended
    BY DEF BillingStep, CreateRecord, FreezeEstimate, MarkPreDeducted, ReadForSettle,
         ReleaseForSettle, DebitActual, MarkFailed, MarkSettled, ReadForRefund,
         ReleaseForRefund, GiveUpRelease, MarkRefunded, CallThrows, At, Ended
  <2> QED
    BY <2>1, <2>2, BillsInHand DEF Fund
<1>2. PICK t \in Tasks : call[c].task = t
  BY <1>1
<1>3. /\ UNCHANGED <<task, job, request, worker, poller>>
      /\ debits \in [Tasks -> Nat] /\ call \in [Callers -> Calls]
      /\ (Internal(c) <=> IsInternal(t)) /\ "storeError" \notin Environment
      /\ \A s : Continue(c, s) => call'[c].step = s
  BY <1>1, <1>2 DEF storeVars, apiVars, pollVars, HubInv, BillingOK, BillingType,
     Internal, IsInternal, Key, Undisturbed, Continue, Calls, NoCall
<1>4. /\ \A d \in Callers \ {c} : call'[d] = call[d]
      /\ \A d \in Callers \ {c} : call[d].step # "idle" => call[d].task \in Tasks \ {t}
      /\ call'[c].task = t /\ StaysInside(c)
  BY <1>1, <1>2, CallsStayInside, OneCall, BillsInHand DEF Fund, StaysInside
<1>5. /\ \A u \in Tasks \ {t} : record'[u] = record[u] /\ debits'[u] = debits[u]
      /\ record[t] # "none" => record'[t] # "none"
      /\ debits'[t] >= debits[t]
      /\ debits'[t] > debits[t] => call[c].step = "debit" /\ call'[c].step = "markSettled"
      /\ record'[t] = "refunded" =>
           \/ record[t] = "refunded"
           \/ call[c].step = "markRefunded" /\ call'[c].step = "returned"
      /\ call[c].step \in InitSteps => record'[t] \notin {"refunded", "settled"}
      /\ IsInternal(t) /\ record'[t] = "settled" => debits'[t] > 0
      /\ record'[t] = "estimated" /\ IsInternal(t) /\ t \in Prepaid =>
           record[t] = "estimated" \/ call'[c].step = "freeze"
  BY <1>2, AwaitRecords
<1>6. Paying'
  <2> SUFFICES ASSUME NEW u \in Tasks, IsInternal(u)', record'[u] = "settled"
               PROVE  debits'[u] > 0
    BY DEF Paying
  <2>1. IsInternal(u)
    BY DEF IsInternal
  <2> QED
    BY <1>5, <2>1 DEF Books, Paying
<1>7. Stepwise'
  <2>1. ASSUME NEW d \in Callers \ {c}
        PROVE  /\ call'[d] = call[d]
               /\ call[d].step # "idle" => /\ record'[call[d].task] = record[call[d].task]
                                           /\ debits'[call[d].task] = debits[call[d].task]
    BY <1>4, <1>5, <2>1
  <2>2. ASSUME NEW d \in Callers \ {c}
        PROVE  /\ call'[d].step \in {"release", "debit", "markSettled", "markFailed", "refundRelease",
                         "markRefunded"} => record'[call'[d].task] # "none"
               /\ call'[d].step \in {"freeze", "markPreDeducted"} => call'[d].task \in Prepaid
               /\ call'[d].step = "markSettled" /\ Internal(d)' => debits'[call'[d].task] > 0
    <3>1. Internal(d)' <=> Internal(d)
      BY <2>1, <2>2 DEF Internal, Key
    <3> QED
      BY <2>1, <2>2, <3>1 DEF Books, Stepwise
  <2>3. call'[c].step \in {"release", "debit", "markSettled", "markFailed", "refundRelease",
                         "markRefunded"} => record'[t] # "none"
    <3>1. CASE \/ CreateRecord(c) \/ FreezeEstimate(c) \/ MarkPreDeducted(c)
               \/ MarkFailed(c) \/ MarkSettled(c) \/ MarkRefunded(c)
      BY <1>3, <3>1 DEF CreateRecord, FreezeEstimate, MarkPreDeducted, MarkFailed, MarkSettled,
         MarkRefunded
    <3>2. CASE ReadForSettle(c) \/ ReadForRefund(c)
      BY <1>2, <1>3, <1>5, <3>2 DEF ReadForSettle, ReadForRefund
    <3>3. CASE ReleaseForSettle(c) \/ ReleaseForRefund(c) \/ DebitActual(c)
      BY <1>2, <1>5, <3>3 DEF ReleaseForSettle, ReleaseForRefund, DebitActual, At, Books, Stepwise
    <3> QED
      BY <1>3, <3>1, <3>2, <3>3 DEF BillingStep, GiveUpRelease, CallThrows
  <2>4. call'[c].step \in {"freeze", "markPreDeducted"} => t \in Prepaid
    <3>1. CASE CreateRecord(c)
      BY <1>2, <1>3, <3>1 DEF CreateRecord
    <3>2. CASE FreezeEstimate(c)
      BY <1>2, <3>2 DEF FreezeEstimate, At, Books, Stepwise
    <3>3. CASE \/ MarkPreDeducted(c) \/ ReadForSettle(c) \/ ReadForRefund(c) \/ ReleaseForSettle(c)
               \/ ReleaseForRefund(c) \/ DebitActual(c) \/ MarkFailed(c) \/ MarkSettled(c)
               \/ MarkRefunded(c)
      BY <1>3, <3>3 DEF MarkPreDeducted, ReadForSettle, ReadForRefund, ReleaseForSettle,
         ReleaseForRefund, DebitActual, MarkFailed, MarkSettled, MarkRefunded
    <3> QED
      BY <1>3, <3>1, <3>2, <3>3 DEF BillingStep, GiveUpRelease, CallThrows
  <2>5. call'[c].step = "markSettled" /\ IsInternal(t) => debits'[t] > 0
    <3>1. CASE ReadForSettle(c)
      BY <1>3, <3>1 DEF ReadForSettle
    <3>2. CASE DebitActual(c)
      BY <1>2, <1>3, <3>2 DEF DebitActual
    <3>3. CASE \/ CreateRecord(c) \/ FreezeEstimate(c) \/ MarkPreDeducted(c) \/ ReadForRefund(c)
               \/ ReleaseForSettle(c) \/ ReleaseForRefund(c) \/ MarkFailed(c) \/ MarkSettled(c)
               \/ MarkRefunded(c)
      BY <1>3, <3>3 DEF CreateRecord, FreezeEstimate, MarkPreDeducted, ReadForRefund,
         ReleaseForSettle, ReleaseForRefund, MarkFailed, MarkSettled, MarkRefunded
    <3> QED
      BY <1>3, <3>1, <3>2, <3>3 DEF BillingStep, GiveUpRelease, CallThrows
  <2>6. Internal(c)' <=> IsInternal(t)
    BY <1>4 DEF Internal, IsInternal, Key
  <2> QED
    BY <1>4, <2>2, <2>3, <2>4, <2>5, <2>6 DEF Stepwise
<1>8. Secured'
  <2> SUFFICES ASSUME NEW u \in Tasks, IsInternal(u), u \in Prepaid, record'[u] = "estimated"
               PROVE  \/ /\ request'[u] = "billing"
                         /\ call'[u].step \in {"freeze", "markPreDeducted", "refused"}
                      \/ request'[u] = "rejected"
    BY DEF Secured, IsInternal
  <2>1. CASE u # t
    <3>1. record[u] = "estimated"
      BY <1>5, <2>1
    <3>2. CASE request[u] = "rejected"
      BY <1>3, <3>2
    <3>3. CASE request[u] = "billing" /\ call[u].step \in {"freeze", "markPreDeducted", "refused"}
      <4>1. call[u].task = u
        BY <3>3 DEF Fund, Hands, Requests, Bills
      <4>2. u # c
        BY <1>2, <2>1, <4>1
      <4> QED
        BY <1>3, <1>4, <3>3, <4>2, CallersApart
    <3> QED
      BY <3>1, <3>2, <3>3 DEF Books, Secured
  <2>2. CASE u = t
    <3>1. c \in Tasks => c = t /\ request[t] = "billing"
      BY <1>1, <1>2, CallersApart DEF MayBill
    <3>2. c \notin Tasks => request[t] = "accepted"
      BY <1>1, <1>2, AcceptedInHand DEF Fund, Callers
    <3>3. CASE record[t] = "estimated"
      <4>1. c = t /\ call[c].step \in {"freeze", "markPreDeducted"} /\ request[t] = "billing"
        BY <1>1, <2>2, <3>1, <3>2, <3>3 DEF Books, Secured, Ended
      <4>2. ~MarkPreDeducted(c)
        BY <1>2, <2>2, <3>3 DEF MarkPreDeducted, MoveRecord, HubInv, BillingOK, BillingType
      <4>3. CASE FreezeEstimate(c)
        BY <1>3, <2>2, <4>1, <4>3 DEF FreezeEstimate
      <4> QED
        BY <1>3, <4>1, <4>2, <4>3 DEF BillingStep, CreateRecord, ReadForSettle,
         ReleaseForSettle, DebitActual, MarkFailed, MarkSettled, ReadForRefund,
         ReleaseForRefund, GiveUpRelease, MarkRefunded, CallThrows, At
    <3>4. CASE record[t] # "estimated"
      <4>1. call'[c].step = "freeze"
        BY <1>5, <2>2, <3>4
      <4>2. c \in Tasks
        <5>1. CreateRecord(c)
          BY <1>3, <4>1 DEF BillingStep, FreezeEstimate, MarkPreDeducted, ReadForSettle,
             ReleaseForSettle, DebitActual, MarkFailed, MarkSettled, ReadForRefund,
             ReleaseForRefund, GiveUpRelease, MarkRefunded, CallThrows
        <5>2. call[c].step = "initBilling"
          BY <5>1 DEF CreateRecord, At
        <5> QED
          BY <5>2, HandlerCalls DEF Fund, Callers, SettleSteps, RefundSteps, Ended
      <4> QED
        BY <1>3, <2>2, <3>1, <4>1, <4>2
    <3> QED
      BY <3>3, <3>4
  <2> QED
    BY <2>1, <2>2
<1>9. OverHands'
  <2> SUFFICES ASSUME NEW u \in Tasks, Over(u)'
      PROVE  /\ request'[u] = "accepted"
             /\ \A j \in JobIds : Used(j)' /\ job'[j].task = u /\ job'[j].state # "completed" =>
                  \E w \in Workers : worker'[w].pc # "idle" /\ worker'[w].job = j
             /\ \A d \in Callers : MayBill(d, u)' => Bills(d, u, {"markSettled", "returned"})'
             /\ task'[u].status \in Polled => \E p \in Pollers : PaysNow(p, u)'
    BY DEF OverHands, LetsGo
  <2>1. \A d \in Callers : MayBill(d, u)' <=> MayBill(d, u)
    BY <1>3 DEF MayBill, Current
  <2>2. CASE u # t
    <3>1. Over(u)
      BY <1>5, <2>2 DEF Over
    <3>2. \A d \in Callers : Bills(d, u, {"markSettled", "returned"}) =>
                              Bills(d, u, {"markSettled", "returned"})'
      BY <1>2, <1>4, <2>2 DEF Bills
    <3>3. \A p \in Pollers : PaysNow(p, u) => PaysNow(p, u)'
      BY <1>2, <1>3, <1>4, <2>2, CallersApart DEF PaysNow
    <3> QED
      BY <1>3, <2>1, <3>1, <3>2, <3>3 DEF Books, OverHands, LetsGo, Used
  <2>3. CASE u = t
    <3>1. \A d \in Callers : MayBill(d, t) => d = c
      BY <1>1, <1>2, OneBiller DEF Fund
    <3>2. CASE Over(t)
      <4>1. call[c].step = "markSettled"
        BY <1>1, <1>2, <3>2 DEF Books, OverHands, LetsGo, Bills, Ended
      <4>2. call'[c].step = "returned"
        BY <1>3, <4>1 DEF BillingStep, CreateRecord, FreezeEstimate, MarkPreDeducted, ReadForSettle,
         ReleaseForSettle, DebitActual, MarkFailed, MarkSettled, ReadForRefund,
         ReleaseForRefund, GiveUpRelease, MarkRefunded, CallThrows, At
      <4>3. \A p \in Pollers : PaysNow(p, t) => PaysNow(p, t)'
        BY <1>3, <1>4, <4>2, CallersApart DEF PaysNow
      <4> QED
        BY <1>3, <1>4, <2>1, <2>3, <3>1, <3>2, <4>2, <4>3 DEF Books, OverHands, LetsGo, Used, Bills
    <3>3. CASE ~Over(t)
      <4>1. \/ call[c].step = "debit" /\ call'[c].step = "markSettled"
            \/ call[c].step = "markRefunded" /\ call'[c].step = "returned"
        <5>1. debits[t] \in Nat /\ debits'[t] > 0 => debits[t] > 0 \/ debits'[t] > debits[t]
          BY <1>3
        <5> QED
          BY <1>3, <1>5, <2>3, <3>3, <5>1 DEF Over
      <4>2. c \notin Tasks
        BY <1>1, <4>1 DEF Fund, Hands, Requests, Bills, InitSteps, Ended, NoCall
      <4>3. request[t] = "accepted"
        BY <1>1, <1>2, <4>2, AcceptedInHand DEF Fund, Callers
      <4>4. Bills(c, t, {"markSettled", "returned"})'
        BY <1>4, <4>1 DEF Bills
      <4>5. CASE c \in Workers
        <5>1. worker[c].pc # "idle" /\ worker[c].task = t /\ OwnJob(c) /\ AtWork(c)
          BY <1>1, <1>2, <4>5, CallersApart DEF MayBill, Fund, Hands, OneHandler
        <5>2. \A j \in JobIds : Used(j) /\ job[j].task = t => worker[c].job = j
          BY <5>1 DEF OwnJob, Fund, Hands, OneJob, Used
        <5>3. task[t].status \notin Polled
          BY <1>1, <4>1, <5>1 DEF AtWork, Bills, NoCall, Polled
        <5> QED
          BY <1>3, <2>1, <2>3, <3>1, <4>3, <4>4, <4>5, <5>1, <5>2, <5>3 DEF Used
      <4>6. CASE c \in Pollers
        <5>1. poller[c].pc # "idle" /\ AtPolls(c)
          BY <1>1, <4>6 DEF Fund, Hands, OnePoller, NoCall
        <5>2. poller[c].pc \in {"settling", "refunding"} /\ Current(c) = t
          BY <1>1, <1>2, <5>1 DEF AtPolls, Bills, NoCall
        <5>3. Released(t)
          BY <5>1, <5>2 DEF AtPolls, InHand
        <5>4. CASE poller[c].pc = "settling"
          <6>1. call'[c].step = "markSettled"
            BY <4>1, <5>1, <5>4 DEF AtPolls, Bills, SettleSteps, Ended
          <6> QED
            BY <1>3, <1>4, <2>1, <2>3, <3>1, <4>3, <4>4, <4>6, <5>3, <5>4, <6>1
            DEF Used, Released, PaysNow
        <5>5. CASE poller[c].pc = "refunding"
          <6>1. task[t].status \notin Polled
            BY <5>1, <5>2, <5>5 DEF AtPolls, Polled
          <6> QED
            BY <1>3, <2>1, <2>3, <3>1, <4>3, <4>4, <5>3, <6>1 DEF Used, Released
        <5> QED
          BY <5>2, <5>4, <5>5
      <4> QED
        BY <4>2, <4>5, <4>6 DEF Callers
    <3> QED
      BY <3>2, <3>3
  <2> QED
    BY <2>2, <2>3
<1> QED
  BY <1>6, <1>7, <1>8, <1>9

(* What is left to do in the hands of a task that is over *)
LEMMA LastHands ==
  ASSUME HubInv, Hands, NEW t \in Tasks, LetsGo(t)
  PROVE  /\ \A w \in Workers : worker[w].pc # "idle" /\ worker[w].task = t =>
              worker[w].pc \in {"settling", "refunding"}
         /\ \A p \in Pollers : MayBill(p, t) =>
              /\ poller[p].pc \in {"settling", "refunding"} /\ Current(p) = t
              /\ \A s \in poller[p].batch : s.task # t
         /\ \A j \in JobIds : Used(j) /\ job[j].task = t =>
              \/ job[j].state = "completed"
              \/ /\ job[j].state = "active"
                 /\ \E w \in Workers : worker[w].pc # "idle" /\ worker[w].job = j
         /\ \A w \in Workers : worker[w].pc # "idle" =>
              worker[w].job \in JobIds /\ job[worker[w].job].task = worker[w].task
<1>1. ASSUME NEW c \in Workers \cup Pollers, MayBill(c, t) PROVE call[c] # NoCall
  BY <1>1, CallersApart, PopulationAssumption DEF LetsGo, Bills, NoCall
<1>2. \A w \in Workers : worker[w].pc # "idle" /\ worker[w].task = t =>
        worker[w].pc \in {"settling", "refunding"}
  BY <1>1, CallersApart DEF MayBill, Hands, OneHandler, AtWork
<1>3. ASSUME NEW p \in Pollers, MayBill(p, t)
      PROVE  /\ poller[p].pc \in {"settling", "refunding"} /\ Current(p) = t
             /\ \A s \in poller[p].batch : s.task # t
  <2>1. poller[p].pc # "idle" /\ AtPolls(p)
    BY <1>1, <1>3 DEF Hands, OnePoller
  <2>2. poller[p].pc \in {"settling", "refunding"} /\ call[p].task = Current(p)
    BY <1>1, <1>3, <2>1 DEF AtPolls, Bills
  <2>3. Current(p) = t
    BY <1>3, <2>2, CallersApart DEF LetsGo, Bills
  <2> QED
    BY <2>1, <2>2, <2>3 DEF AtPolls, InHand
<1>4. \A w \in Workers : worker[w].pc # "idle" =>
        /\ worker[w].job \in JobIds /\ job[worker[w].job].task = worker[w].task
        /\ job[worker[w].job].state = "active"
  BY DEF Hands, OneHandler, OwnJob
<1> QED
  BY <1>2, <1>3, <1>4 DEF LetsGo

(* Who lets go of t goes on to let go: no request, worker or cron handler  *)
(* takes up a task that is over.                                           *)
LEMMA ApiLetsGo ==
  ASSUME HubInv, HubInv', Undisturbed, Hands, NEW t \in Tasks, LetsGo(t),
         ApiStep, UNCHANGED <<worker, pollVars>>
  PROVE  LetsGo(t)'
<1>1. /\ UNCHANGED <<worker, poller>> /\ "reprioritise" \notin Environment
      /\ request \in [Tasks -> RequestState] /\ request[t] = "accepted"
      /\ \A c \in Workers \cup Pollers : call'[c] = call[c]
  BY ApiCalls, CallersApart
  DEF pollVars, Undisturbed, HubInv, ApiType, LetsGo, Begin, Forget, BillingOK, BillingType
<1>2. request'[t] = "accepted"
  BY <1>1 DEF ApiStep, BeginCreate, BillingInitialised, InsertTask, RecordKey, EnqueueTask,
     RequestDies, CancelTask, BeginPriority, FindWaiting, RemoveWaiting, AddAgain,
     ChangeDies, CreditWallet, SetRequest, apiVars
<1>3. task'[t].status \in Polled => task[t].status \in Polled
  <2>1. ASSUME NEW u \in Tasks, InsertTask(u) PROVE task'[t].status = task[t].status
    BY <1>1, <2>1 DEF InsertTask
  <2>2. ASSUME NEW u \in Tasks, CancelTask(u)
        PROVE  task'[t].status \in Polled => task[t].status \in Polled
    BY <2>2, StatusMoves DEF CancelTask, Polled
  <2> QED
    BY <2>1, <2>2 DEF ApiStep, BeginCreate, BillingInitialised, RecordKey, EnqueueTask,
       RequestDies, BeginPriority, FindWaiting, RemoveWaiting, AddAgain, ChangeDies,
       CreditWallet, storeVars
<1>4. \A j \in JobIds : Used(j)' /\ job'[j].task = t /\ job'[j].state # "completed" =>
        Used(j) /\ job[j].task = t /\ job[j].state # "completed"
  <2>1. ASSUME NEW u \in Tasks, EnqueueTask(u)
        PROVE  \A j \in JobIds : job'[j].task = t => job'[j] = job[j]
    <3>1. u # t
      BY <1>1, <2>1 DEF EnqueueTask
    <3>2. PICK n \in JobIds :
            job' = [job EXCEPT ![n] = [state |-> "waiting", task |-> u, attempts |-> 0]]
      BY <2>1, AddedJob DEF EnqueueTask
    <3> QED
      BY <3>1, <3>2 DEF HubInv, JobOK, JobType
  <2>2. ASSUME NEW u \in Tasks, CancelTask(u)
        PROVE  \A j \in JobIds : job'[j] = job[j] \/ job'[j].state = "completed"
    BY <2>2 DEF CancelTask, WaitingFor, Removed, HubInv, JobOK, JobType
  <2>3. CASE UNCHANGED job
    BY <2>3 DEF Used
  <2> QED
    BY <1>1, <2>1, <2>2, <2>3, NoChanges DEF ApiStep, BeginCreate, BillingInitialised,
       InsertTask, RecordKey, RequestDies, CreditWallet, Used
<1>5. ASSUME NEW c \in Callers, MayBill(c, t)' PROVE MayBill(c, t) /\ c \in Workers \cup Pollers
  BY <1>1, <1>2, <1>5 DEF MayBill, Callers, Current
<1> QED
  BY <1>1, <1>2, <1>3, <1>4, <1>5 DEF LetsGo, Bills, PaysNow

(* A worker takes up a task with its job, and the job of t is in a hand.   *)
LEMMA WorkerLetsGo ==
  ASSUME HubInv, HubInv', Undisturbed, Hands, NEW t \in Tasks, LetsGo(t),
         WorkerStep, UNCHANGED <<apiVars, pollVars>>
  PROVE  LetsGo(t)'
<1>1. /\ UNCHANGED <<request, poller>> /\ worker \in [Workers -> Handlers]
      /\ "crash" \notin Environment /\ "overrun" \notin Environment
      /\ \A w \in Workers : worker[w].pc # "idle" /\ worker[w].task = t =>
           worker[w].pc \in {"settling", "refunding"}
      /\ \A j \in JobIds : Used(j) /\ job[j].task = t =>
           \/ job[j].state = "completed"
           \/ /\ job[j].state = "active"
              /\ \E w \in Workers : worker[w].pc # "idle" /\ worker[w].job = j
      /\ \A w \in Workers : worker[w].pc # "idle" =>
           worker[w].job \in JobIds /\ job[worker[w].job].task = worker[w].task
  BY LastHands DEF apiVars, pollVars, HubInv, WorkerType, Undisturbed
<1> DEFINE Rest == /\ \A w \in Workers : worker'[w].pc # "idle" /\ worker'[w].task = t =>
                        /\ worker[w].pc # "idle" /\ worker[w].task = t
                        /\ worker'[w] = worker[w] /\ call'[w] = call[w]
                   /\ \A j \in JobIds : Used(j)' /\ job'[j].task = t /\ job'[j].state # "completed" =>
                        /\ Used(j) /\ job[j].task = t /\ job[j].state # "completed"
                        /\ \A w \in Workers : worker[w].job = j => worker'[w] = worker[w]
                   /\ task'[t].status \in Polled => task[t].status \in Polled
                   /\ \A c \in Callers \ Workers : call'[c] = call[c]
<1>2. Rest
  <2>1. ASSUME NEW w \in Workers, NEW j \in JobIds, TakeJob(w, j) PROVE Rest
    <3>1. /\ job[j].task # t /\ UNCHANGED <<task, call>> /\ WorkerAt(w, "idle")
          /\ job' = [job EXCEPT ![j].state = "active"]
          /\ worker' = [worker EXCEPT ![w] = [pc |-> "loading", task |-> job[j].task, job |-> j]]
      BY <1>1, <2>1 DEF TakeJob, Used, billingVars, storeVars
    <3>2. /\ \A i \in JobIds \ {j} : job'[i] = job[i]
          /\ job'[j].task # t
          /\ \A v \in Workers \ {w} : worker'[v] = worker[v]
          /\ worker'[w].task # t
      BY <1>1, <3>1 DEF HubInv, JobOK, JobType
    <3>3. \A i \in JobIds : worker[w].job # i
      <4>1. worker[w].job = 0
        BY <1>1, <3>1 DEF WorkerAt, Handlers, NoHandler
      <4> QED
        BY <4>1, QueueAssumption DEF JobIds
    <3> QED
      BY <3>1, <3>2, <3>3 DEF Used
  <2>2. ASSUME NEW j \in JobIds, TakeBack(j) \/ BackoffEnds(j) PROVE Rest
    <3>1. UNCHANGED <<task, call>> /\ job[j].task # t
      BY <1>1, <2>2 DEF TakeBack, BackoffEnds, Promote, Orphaned, Used, billingVars, storeVars
    <3>2. \A v \in Workers : worker'[v] = worker[v]
      BY <1>1, <2>2 DEF TakeBack, BackoffEnds, Orphaned
    <3>3. (\A i \in JobIds \ {j} : job'[i] = job[i]) /\ job'[j].task = job[j].task
      BY <2>2 DEF TakeBack, BackoffEnds, Promote, AttemptFailed, HubInv, JobOK, JobType
    <3> QED
      BY <3>1, <3>2, <3>3 DEF Used
  <2>3. ASSUME NEW w \in Workers, FinishJob(w) PROVE Rest
    <3>1. /\ worker[w].pc # "idle" /\ UNCHANGED task /\ Forget(w) /\ Return(w)
          /\ worker[w].job \in JobIds
      BY <1>1, <2>3 DEF FinishJob, storeVars
    <3>2. /\ worker' = [worker EXCEPT ![w] = NoHandler]
          /\ \A i \in JobIds \ {worker[w].job} : job'[i] = job[i]
          /\ job'[worker[w].job].state = "completed"
      BY <3>1, EndOfHandler
    <3>3. /\ worker'[w].pc = "idle" /\ \A v \in Workers \ {w} : worker'[v] = worker[v]
          /\ \A c \in Callers \ {w} : call'[c] = call[c]
      BY <1>1, <3>1, <3>2 DEF Forget, NoHandler, HubInv, BillingOK, BillingType
    <3> QED
      BY <3>1, <3>2, <3>3, CallersApart DEF Used
  <2>4. ASSUME NEW w \in Workers, worker[w].pc \notin {"idle", "settling", "refunding"},
               \A c \in Callers \ {w} : call'[c] = call[c],
               task'[t].status = task[t].status \/ worker[w].task = t,
               \/ \E pc : WorkerTo(w, pc) /\ UNCHANGED job
               \/ Return(w) \/ Throw(w)
        PROVE  Rest
    <3>1. worker[w].task # t /\ worker[w].job \in JobIds /\ job[worker[w].job].task # t
      BY <1>1, <2>4
    <3>2. /\ \A v \in Workers \ {w} : worker'[v] = worker[v]
          /\ worker'[w].pc # "idle" => worker'[w].task # t
      <4>1. CASE Return(w) \/ Throw(w)
        BY <1>1, <2>4, <4>1 DEF Return, Throw, NoHandler
      <4>2. ASSUME NEW pc, WorkerTo(w, pc)
            PROVE  worker'[w].task = worker[w].task /\ \A v \in Workers \ {w} : worker'[v] = worker[v]
        BY <1>1, <2>4, <4>2 DEF WorkerTo, Handlers, NoHandler
      <4> QED
        BY <2>4, <3>1, <4>1, <4>2
    <3>3. /\ \A i \in JobIds \ {worker[w].job} : job'[i] = job[i]
          /\ job'[worker[w].job].task # t
      BY <2>4, <3>1, EndOfHandler
    <3> QED
      BY <2>4, <3>1, <3>2, <3>3, CallersApart DEF Used
  <2>5. ASSUME NEW w \in Workers, \/ LoadTask(w) \/ SubmitThrows(w) \/ Submit(w) \/ SubmitRefused(w)
                                  \/ SaveThrows(w)
        PROVE  Rest
    <3>1. UNCHANGED <<task, call>> /\ worker[w].pc \notin {"idle", "settling", "refunding"}
      BY <2>5 DEF LoadTask, SubmitThrows, Submit, SubmitRefused, SaveThrows, WorkerAt, storeVars, billingVars
    <3>2. (\E pc : WorkerTo(w, pc) /\ UNCHANGED job) \/ Return(w) \/ Throw(w)
      BY <2>5 DEF LoadTask, SubmitThrows, Submit, SubmitRefused, SaveThrows
    <3> QED
      BY <2>4, <3>1, <3>2
  <2>6. ASSUME NEW w \in Workers, FailUnroutable(w) \/ SaveAccepted(w) PROVE Rest
    <3>1. UNCHANGED call /\ worker[w].pc \notin {"idle", "settling", "refunding"} /\ Return(w)
      BY <2>6 DEF FailUnroutable, SaveAccepted, WorkerAt, billingVars
    <3>2. task'[t].status = task[t].status \/ worker[w].task = t
      BY <2>6 DEF FailUnroutable, SaveAccepted, UpdateStatus, HubInv, StoreType
    <3> QED
      BY <2>4, <3>1, <3>2
  <2>7. ASSUME NEW w \in Workers, SaveAnswer(w) \/ FailSubmission(w) PROVE Rest
    <3>1. /\ worker[w].pc \notin {"idle", "settling", "refunding"}
          /\ \E pc : WorkerTo(w, pc) /\ UNCHANGED job
      BY <2>7 DEF SaveAnswer, FailSubmission, WorkerAt
    <3>2. \A c \in Callers \ {w} : call'[c] = call[c]
      BY <2>7 DEF SaveAnswer, FailSubmission, Begin, HubInv, BillingOK, BillingType
    <3>3. task'[t].status = task[t].status \/ worker[w].task = t
      BY <2>7 DEF SaveAnswer, FailSubmission, UpdateStatus, HubInv, StoreType
    <3> QED
      BY <2>4, <3>1, <3>2, <3>3
  <2> QED
    BY <1>1, <2>1, <2>2, <2>3, <2>5, <2>6, <2>7 DEF WorkerStep, WorkerDies
<1>3. ASSUME NEW c \in Callers, MayBill(c, t)' PROVE MayBill(c, t) /\ call'[c] = call[c]
  <2>1. CASE c \in Workers
    BY <1>2, <1>3, <2>1, CallersApart DEF MayBill
  <2>2. CASE c \notin Workers
    BY <1>1, <1>2, <1>3, <2>2 DEF MayBill, Current
  <2> QED
    BY <2>1, <2>2
<1>4. \A p \in Pollers : PaysNow(p, t) => PaysNow(p, t)'
  BY <1>1, <1>2, CallersApart DEF PaysNow
<1> QED
  BY <1>1, <1>2, <1>3, <1>4 DEF LetsGo, Bills

(* A cron handler takes up what it finds submitted, or in its batch: the   *)
(* lock keeps the others away from t until its success is written.         *)
LEMMA PollLetsGo ==
  ASSUME HubInv, HubInv', Undisturbed, Hands, NEW t \in Tasks, LetsGo(t),
         PollStep, UNCHANGED <<apiVars, job, worker>>
  PROVE  LetsGo(t)'
<1>1. /\ UNCHANGED <<request, job, worker>> /\ "crash" \notin Environment
      /\ "storeError" \notin Environment /\ task \in [Tasks -> TaskDoc]
      /\ poller \in [Pollers -> [pc : PollerPc, batch : SUBSET Copies,
                                 current : Copies \cup {NoCopy}]]
      /\ \A p \in Pollers : MayBill(p, t) =>
           /\ poller[p].pc \in {"settling", "refunding"} /\ Current(p) = t
           /\ \A s \in poller[p].batch : s.task # t
  BY LastHands DEF apiVars, Undisturbed, HubInv, PollType, StoreType
<1>2. \A c \in Callers \ Pollers : call'[c] = call[c]
  BY PollCalls, CallersApart DEF Begin, Forget, HubInv, BillingOK, BillingType
<1>3. /\ task'[t].status \in Polled => task[t].status \in Polled
      /\ \A p \in Pollers : Succeed(p) /\ Current(p) = t => task'[t].status \notin Polled
  <2>1. ASSUME NEW p \in Pollers, StillRunning(p)
        PROVE  task'[t].status \in Polled => task[t].status \in Polled
    <3>1. \/ task'[t].status = task[t].status
          \/ task[t].status = "SUBMITTED"
      BY <1>1, <2>1 DEF StillRunning, TaskDoc
    <3> QED
      BY <3>1 DEF Polled
  <2>2. ASSUME NEW p \in Pollers, NEW s, RetryLater(p) \/ DeferPoll(p, s)
        PROVE  task'[t].status = task[t].status
    BY <1>1, <2>2 DEF RetryLater, DeferPoll, DeferNextPoll, TaskDoc
  <2>3. ASSUME NEW p \in Pollers, NEW s, TimeOut(p, s) \/ FailTask(p) \/ Succeed(p)
        PROVE  /\ task'[t].status \in Polled => task[t].status \in Polled
               /\ Succeed(p) /\ Current(p) = t => task'[t].status \notin Polled
    BY <1>1, <2>3 DEF TimeOut, FailTask, Succeed, UpdateStatus, Polled, TaskDoc
  <2>4. UNCHANGED task => task'[t].status = task[t].status
    OBVIOUS
  <2> QED
    BY <1>1, <2>1, <2>2, <2>3, <2>4 DEF PollStep, AcquireLock, FindPollable, ReleaseLock, BeginSettle,
       SettleThrew, RefundEnded, PollThrows, PollerDies, SkipUntraceable, Query, LockLapses, storeVars
<1>4. ASSUME NEW p \in Pollers, MayBill(p, t)'
      PROVE  MayBill(p, t) /\ call'[p] = call[p]
  <2>1. ASSUME poller'[p] = poller[p], call'[p] = call[p]
        PROVE  MayBill(p, t) /\ call'[p] = call[p]
    BY <1>4, <2>1, CallersApart DEF MayBill, Current
  <2>2. CASE LockLapses
    BY <2>1, <2>2 DEF LockLapses, billingVars
  <2>3. ASSUME NEW q \in Pollers \ {p},
               \/ AcquireLock(q) \/ FindPollable(q) \/ ReleaseLock(q) \/ StillRunning(q)
               \/ RetryLater(q)
        PROVE  poller'[p] = poller[p] /\ call'[p] = call[p]
    BY <1>1, <2>3 DEF AcquireLock, FindPollable, ReadBatch, ReleaseLock, StillRunning,
       RetryLater, PollerTo, NextInBatch, billingVars
  <2>4. ASSUME NEW q \in Pollers \ {p},
               FailTask(q) \/ BeginSettle(q) \/ Succeed(q) \/ SettleThrew(q) \/ RefundEnded(q)
        PROVE  poller'[p] = poller[p] /\ call'[p] = call[p]
    BY <1>1, <2>4, CallersApart DEF FailTask, BeginSettle, Succeed, SettleThrew, RefundEnded,
       PollerTo, NextInBatch, Begin, Forget, HubInv, BillingOK, BillingType
  <2>5. ASSUME NEW q \in Pollers \ {p}, NEW s,
               SkipUntraceable(q, s) \/ TimeOut(q, s) \/ DeferPoll(q, s) \/ Query(q, s)
        PROVE  poller'[p] = poller[p] /\ call'[p] = call[p]
    BY <1>1, <2>5, CallersApart DEF SkipUntraceable, TimeOut, DeferPoll, Query, WorkOn, Begin,
       billingVars, HubInv, BillingOK, BillingType
  <2>6. ASSUME poller[p].pc \notin {"settling", "refunding"}, poller'[p].batch \subseteq poller[p].batch,
               \/ poller'[p].pc \notin InHand
               \/ poller[p].pc \in InHand /\ poller'[p].current = poller[p].current
               \/ \E s \in poller[p].batch : poller'[p].current = s
        PROVE  FALSE
    <3>1. ~MayBill(p, t)
      BY <1>1, <2>6
    <3>2. /\ \A s \in poller[p].batch : s.task # t
          /\ poller[p].pc \in InHand => Current(p) # t
      BY <3>1, CallersApart DEF MayBill
    <3> QED
      BY <1>4, <2>6, <3>2, CallersApart DEF MayBill, Current
  <2>7. CASE AcquireLock(p)
    BY <1>1, <2>6, <2>7 DEF AcquireLock, PollerAt, PollerTo, InHand
  <2>8. CASE FindPollable(p)
    <3>1. /\ poller'[p].pc = "polling" /\ PollerAt(p, "scanning")
          /\ poller'[p].batch = {CopyOf(u) : u \in FirstDue(BatchSize)}
      BY <1>1, <2>8 DEF FindPollable, ReadBatch
    <3>2. task[t].status \in Polled
      BY <1>4, <3>1, CallersApart DEF MayBill, InHand, CopyOf, FirstDue, Pollable, Polled
    <3>3. PICK q \in Pollers : PaysNow(q, t)
      BY <3>2 DEF LetsGo
    <3> QED
      BY <3>1, <3>3, LockHolder DEF PaysNow, PollerAt
  <2>9. CASE ReleaseLock(p)
    BY <1>1, <2>6, <2>9 DEF ReleaseLock, Between, PollerAt, Idle, InHand
  <2>10. CASE StillRunning(p) \/ RetryLater(p)
    BY <1>1, <2>6, <2>10 DEF StillRunning, RetryLater, PollerAt, NextInBatch, InHand
  <2>11. CASE FailTask(p) \/ BeginSettle(p)
    BY <1>1, <2>6, <2>11 DEF FailTask, BeginSettle, PollerAt, PollerTo, InHand
  <2>12. CASE Succeed(p) \/ SettleThrew(p) \/ RefundEnded(p)
    <3>1. poller'[p].pc = "polling" /\ poller'[p].batch = poller[p].batch
      BY <1>1, <2>12 DEF Succeed, SettleThrew, RefundEnded, NextInBatch
    <3>2. MayBill(p, t)
      BY <1>4, <3>1, CallersApart DEF MayBill, InHand
    <3> QED
      BY <1>1, <1>4, <3>1, <3>2, CallersApart DEF MayBill, InHand
  <2>13. ASSUME NEW s \in poller[p].batch, SkipUntraceable(p, s) \/ DeferPoll(p, s) PROVE FALSE
    BY <1>1, <2>6, <2>13 DEF SkipUntraceable, DeferPoll, Between, PollerAt, InHand
  <2>14. ASSUME NEW s \in poller[p].batch, TimeOut(p, s) \/ Query(p, s) PROVE FALSE
    <3>1. /\ poller[p].pc = "polling" /\ \E pc : WorkOn(p, s, pc)
      BY <2>14 DEF TimeOut, Query, Between, PollerAt
    <3> QED
      BY <1>1, <2>6, <3>1 DEF WorkOn
  <2> QED
    BY <1>1, <2>1, <2>2, <2>3, <2>4, <2>5, <2>7, <2>8, <2>9, <2>10, <2>11, <2>12, <2>13, <2>14
    DEF PollStep, PollThrows, PollerDies
<1>5. ASSUME NEW p \in Pollers, PaysNow(p, t), ~PaysNow(p, t)' PROVE task'[t].status \notin Polled
  <2>1. Succeed(p)
    BY <1>5, PaymentGoesOn
  <2>2. AtPolls(p) /\ poller[p].pc = "settling"
    BY <1>5 DEF PaysNow, Hands, OnePoller
  <2>3. Current(p) = t
    BY <1>5, <2>2 DEF PaysNow, AtPolls, Bills
  <2> QED
    BY <1>3, <2>1, <2>3
<1>6. ASSUME NEW c \in Callers, MayBill(c, t)' PROVE MayBill(c, t) /\ call'[c] = call[c]
  <2>1. CASE c \in Pollers
    BY <1>4, <1>6, <2>1
  <2>2. CASE c \notin Pollers
    BY <1>1, <1>2, <1>6, <2>2 DEF MayBill
  <2> QED
    BY <2>1, <2>2
<1> QED
  BY <1>1, <1>3, <1>5, <1>6 DEF LetsGo, Bills, Used

(* The handlers keep the books: they write nothing in them, and let go of  *)
(* a task that is over.                                                    *)
LEMMA HandlersBooks ==
  ASSUME HubInv, HubInv', Undisturbed, Fund, Books, [Next]_vars,
         \/ ApiStep /\ UNCHANGED <<worker, pollVars>>
         \/ WorkerStep /\ UNCHANGED <<apiVars, pollVars>>
         \/ PollStep /\ UNCHANGED <<apiVars, job, worker>>
  PROVE  OverHands' /\ Secured' /\ Stepwise' /\ Paying'
<1>1. /\ UNCHANGED <<record, debits>> /\ Hands
      /\ call \in [Callers -> Calls] /\ request \in [Tasks -> RequestState]
      /\ "crash" \notin Environment /\ "storeError" \notin Environment
  BY HandlersMoney DEF Fund, HubInv, BillingOK, BillingType, ApiType, Undisturbed
<1>2. OverHands'
  <2> SUFFICES ASSUME NEW t \in Tasks, Over(t)' PROVE LetsGo(t)'
    BY DEF OverHands
  <2>1. LetsGo(t)
    BY <1>1 DEF Over, Books, OverHands
  <2> QED
    BY <1>1, <2>1, ApiLetsGo, WorkerLetsGo, PollLetsGo
<1>3. Secured'
  <2> SUFFICES ASSUME NEW t \in Tasks, IsInternal(t), t \in Prepaid, record[t] = "estimated"
               PROVE  \/ /\ request'[t] = "billing"
                         /\ call'[t].step \in {"freeze", "markPreDeducted", "refused"}
                      \/ request'[t] = "rejected"
    BY <1>1 DEF Secured, IsInternal
  <2>1. \/ request[t] = "billing" /\ call[t].step \in {"freeze", "markPreDeducted", "refused"}
        \/ request[t] = "rejected"
    BY DEF Books, Secured
  <2>2. CASE ApiStep
    <3>1. ASSUME NEW u \in Tasks \ {t}, \/ BeginCreate(u) \/ BillingInitialised(u) \/ InsertTask(u)
                                        \/ RecordKey(u) \/ EnqueueTask(u)
          PROVE  request'[t] = request[t] /\ call'[t] = call[t]
      BY <1>1, <3>1, CallersApart DEF BeginCreate, BillingInitialised, InsertTask, RecordKey,
         EnqueueTask, SetRequest, Begin, Forget, billingVars
    <3>2. BillingInitialised(t) => request[t] = "billing" /\ request'[t] = "rejected"
      BY <1>1, <2>1 DEF BillingInitialised, SetRequest, At, Ended
    <3>3. ~BeginCreate(t) /\ ~InsertTask(t) /\ ~RecordKey(t) /\ ~EnqueueTask(t)
      BY <2>1 DEF BeginCreate, InsertTask, RecordKey, EnqueueTask
    <3>4. \A u \in Tasks : ~RequestDies(u)
      BY <1>1 DEF RequestDies
    <3>5. ASSUME \/ \E u \in Tasks : \/ CancelTask(u) \/ BeginPriority(u) \/ FindWaiting(u)
                                     \/ RemoveWaiting(u) \/ AddAgain(u) \/ ChangeDies(u)
                 \/ \E k \in ApiKeys : CreditWallet(k)
          PROVE  UNCHANGED <<request, call>>
      BY <3>5 DEF CancelTask, BeginPriority, FindWaiting, RemoveWaiting, AddAgain,
                  ChangeDies, CreditWallet, billingVars, apiVars
    <3> QED
      BY <2>1, <2>2, <3>1, <3>2, <3>3, <3>4, <3>5 DEF ApiStep
  <2>3. CASE WorkerStep /\ UNCHANGED <<apiVars, pollVars>>
    <3>1. UNCHANGED request /\ call'[t] = call[t]
      BY <1>1, <2>3, WorkerCalls, CallersApart DEF Begin, Forget, apiVars
    <3> QED
      BY <2>1, <3>1
  <2>4. CASE PollStep /\ UNCHANGED <<apiVars, job, worker>>
    <3>1. UNCHANGED request /\ call'[t] = call[t]
      BY <1>1, <2>4, PollCalls, CallersApart DEF Begin, Forget, apiVars
    <3> QED
      BY <2>1, <3>1
  <2> QED
    BY <2>2, <2>3, <2>4
<1>4. Stepwise'
  <2>1. ASSUME NEW c \in Callers
        PROVE  call'[c] = call[c] \/ call'[c].step \in {"idle", "initBilling", "settle", "refund"}
    BY <1>1, CallsBeginStep, CallersApart DEF CallsBegin, Begin, Forget, NoCall
  <2> SUFFICES ASSUME NEW c \in Callers
               PROVE
                 /\ call'[c].step \in {"release", "debit", "markSettled", "markFailed",
                      "refundRelease", "markRefunded"} => record'[call'[c].task] # "none"
                 /\ call'[c].step \in {"freeze", "markPreDeducted"} => call'[c].task \in Prepaid
                 /\ call'[c].step = "markSettled" /\ Internal(c)' => debits'[call'[c].task] > 0
    BY DEF Stepwise
  <2>2. CASE call'[c] = call[c]
    BY <1>1, <2>2 DEF Books, Stepwise, Internal, Key
  <2> QED
    BY <2>1, <2>2
<1>5. Paying'
  BY <1>1 DEF Books, Paying, IsInternal
<1> QED
  BY <1>2, <1>3, <1>4, <1>5

(* Every step keeps the books.                                             *)
LEMMA BooksStep ==
  ASSUME HubInv, HubInv', Undisturbed, Fund, Books, [Next]_vars
  PROVE  Books'
<1>1. Spared'
  BY SparedStep DEF Books
<1>2. ASSUME UNCHANGED <<billingVars, job, apiVars, worker, pollVars>>,
             \A t \in Tasks : task'[t].status = task[t].status
      PROVE  OverHands' /\ Secured' /\ Stepwise' /\ Paying'
  <2>1. UNCHANGED <<record, call, debits, job, request, worker, poller>>
    BY <1>2 DEF billingVars, apiVars, pollVars
  <2>2. ASSUME NEW t \in Tasks, LetsGo(t) PROVE LetsGo(t)'
    BY <1>2, <2>1, <2>2 DEF LetsGo, Used, MayBill, Current, Bills, PaysNow
  <2>3. OverHands'
    BY <2>1, <2>2 DEF Books, OverHands, Over
  <2>4. Secured' /\ Paying'
    BY <2>1 DEF Books, Secured, Paying, IsInternal
  <2>5. Stepwise'
    BY <2>1 DEF Books, Stepwise, Internal, Key
  <2> QED
    BY <2>3, <2>4, <2>5
<1>3. TimePasses => \A t \in Tasks : task'[t].status = task[t].status
  BY DEF TimePasses, BecomesDue, BecomesOverdue, ProviderFinishes, HubInv, StoreType, TaskDoc
<1>4. ASSUME UNCHANGED vars PROVE OverHands' /\ Secured' /\ Stepwise' /\ Paying'
  BY <1>2, <1>4 DEF vars, storeVars
<1>5. ASSUME NEW c \in Callers, BillingStep(c),
             UNCHANGED <<storeVars, job, apiVars, worker, pollVars>>
      PROVE  OverHands' /\ Secured' /\ Stepwise' /\ Paying'
  BY <1>5, BillingBooks
<1>6. ASSUME \/ ApiStep /\ UNCHANGED <<worker, pollVars>>
             \/ WorkerStep /\ UNCHANGED <<apiVars, pollVars>>
             \/ PollStep /\ UNCHANGED <<apiVars, job, worker>>
      PROVE  OverHands' /\ Secured' /\ Stepwise' /\ Paying'
  BY <1>6, HandlersBooks
<1>7. OverHands' /\ Secured' /\ Stepwise' /\ Paying'
  BY <1>2, <1>3, <1>4, <1>5, <1>6 DEF Next
<1> QED
  BY <1>1, <1>7 DEF Books

-----------------------------------------------------------------------------
(* The refinement *)

(* Every client begins with its balance, every task without a deal.        *)
LEMMA EscrowStart == Init => Contract!EscrowInit
<1> SUFFICES ASSUME Init PROVE Contract!EscrowInit
  OBVIOUS
<1>1. \A k \in ApiKeys : wallet[k].balance = OpeningBalance[k] /\ wallet[k].frozen = 0
  BY DEF Init, BillingInit, WalletInit
<1>2. \A t \in Tasks : DealOf(t) = "none"
  BY DEF Init, BillingInit, DealOf, IsReserved, InCall, NoCall
<1> QED
  BY <1>1, <1>2 DEF Contract!EscrowInit

(* Every step of the task path is a move of the contract, or none.         *)
LEMMA EscrowStep ==
  ASSUME HubInv, HubInv', Undisturbed, Fund, Books, [Next]_vars
  PROVE  Contract!EscrowNext \/ UNCHANGED <<Account, Deal>>
<1>1. ASSUME ApiStep \/ WorkerStep \/ PollStep
      PROVE  Contract!EscrowNext \/ UNCHANGED <<Account, Deal>>
  <2>1. \A t \in Tasks : DealOf(t)' = DealOf(t)
    BY <1>1, HandlersDeals DEF Fund
  <2>2. UNCHANGED wallet => UNCHANGED <<Account, Deal>>
    BY <2>1 DEF Account, Deal
  <2> QED
    BY <1>1, <2>1, <2>2, HandlersMoney, DepositMoves
<1>2. ASSUME UNCHANGED billingVars PROVE UNCHANGED <<Account, Deal>>
  <2>1. UNCHANGED <<wallet, record, call, debits>>
    BY <1>2 DEF billingVars
  <2>2. \A t \in Tasks : DealOf(t)' = DealOf(t)
    BY <2>1, DealsKept
  <2> QED
    BY <2>1, <2>2 DEF Account, Deal
<1> QED
  BY <1>1, <1>2, BillingDeals DEF Next, vars

(* billing.adapter.ts, wallet.service.ts: while nothing is cut short and   *)
(* no estimate is negative, the records, the two-step settlement and the   *)
(* interleaved handlers keep the escrow's promise for every task: its      *)
(* estimate is set aside once and given back once, it is charged at most   *)
(* once, never after a refund, and only from what is left after            *)
(* everybody's deposits.                                                   *)
THEOREM EscrowKept == ASSUME Undisturbed PROVE Spec => ImplementsEscrow
<1>1. HubInv /\ HubInv' /\ Fund /\ [Next]_vars => Fund'
  BY FundStep
<1>2. HubInv /\ HubInv' /\ Fund /\ Books /\ [Next]_vars => Books'
  BY BooksStep
<1>3. HubInv /\ HubInv' /\ Fund /\ Books /\ [Next]_vars =>
        [Contract!EscrowNext]_<<Account, Deal>>
  BY EscrowStep
<1> QED
  BY <1>1, <1>2, <1>3, FundStart, BooksStart, EscrowStart, HubInvariant, PTL
  DEF Spec, ImplementsEscrow, Contract!EscrowSpec, Account, Deal
=============================================================================
