--------------------------- MODULE DeliveryProofs ---------------------------
(***************************************************************************)
(* What a task says of its callback is true, for any number of tasks and   *)
(* handlers, under every failure the models know. A courier that is about  *)
(* to write SUCCESS has the client's acknowledgement, and the status it    *)
(* posted was the task's, which does not change once the task has ended.   *)
(*                                                                         *)
(* Where no call throws and nobody replays, a report waits for the result: *)
(* wherever a report of a task is on its way, the task was processed first.*)
(* And where, besides, nobody is timed out, a callback job that was given  *)
(* up leaves its task showing so, because the courier that failed last     *)
(* wrote it.                                                               *)
(***************************************************************************)
EXTENDS ResultDelivery, TLAPS

Ends == {"open"} \cup Reported \cup Failures

(* The part of the state the callback queue's side is made of *)
CallbackType ==
  /\ end \in [Tasks -> Ends]
  /\ callback \in [Tasks -> CallbackStatus]
  /\ deliver \in [JobIds -> Job]
  /\ courier \in [Couriers -> Delivery]
  /\ acked \in [Tasks -> SUBSET Ends]

(* The client was told how t ended, or that it is open *)
Told(t) == end[t] \in acked[t] \/ "open" \in acked[t]

(* What is on its way to the client is what the task is, or was *)
PostsTruth ==
  \A w \in Couriers : courier[w].pc = "posting" =>
    courier[w].status \in {"open", end[TaskOf(courier[w].job)]}

(* A courier that was answered 2xx has told the client *)
AcceptedIsTold ==
  \A w \in Couriers : courier[w].pc = "accepted" => Told(TaskOf(courier[w].job))

SavedIsTold == \A t \in Tasks : callback[t] = "SUCCESS" => Told(t)

DeliveryInv == CallbackType /\ PostsTruth /\ AcceptedIsTold /\ SavedIsTold

-----------------------------------------------------------------------------
(* Bull's operations keep a queue a queue, whatever job they name.         *)
LEMMA QueueOperations ==
  ASSUME NEW queue \in [JobIds -> Job], NEW j, NEW limit
  PROVE  /\ Added(queue, j) \in [JobIds -> Job]
         /\ Promoted(queue, j) \in [JobIds -> Job]
         /\ Taken(queue, j) \in [JobIds -> Job]
         /\ Completed(queue, j) \in [JobIds -> Job]
         /\ AttemptFailed(queue, j, limit) \in [JobIds -> Job]
         /\ Stalled(queue, j) \in [JobIds -> Job]
<1>1. NoJob \in Job /\ [NoJob EXCEPT !.state = "waiting"] \in Job
  BY DEF NoJob, Job, JobState
<1>2. \A k \in JobIds : \A s \in JobState : [queue[k] EXCEPT !.state = s] \in Job
  BY DEF Job, JobState
<1>3. \A job \in Job : \A s \in JobState :
        /\ [[job EXCEPT !.attempts = @ + 1] EXCEPT !.state = s] \in Job
        /\ [[job EXCEPT !.stalls = @ + 1] EXCEPT !.state = s] \in Job
  <2> SUFFICES ASSUME NEW job \in Job, NEW s \in JobState
               PROVE  /\ [[job EXCEPT !.attempts = @ + 1] EXCEPT !.state = s] \in Job
                      /\ [[job EXCEPT !.stalls = @ + 1] EXCEPT !.state = s] \in Job
    OBVIOUS
  <2>1. job.attempts + 1 \in Nat /\ job.stalls + 1 \in Nat
    BY DEF Job
  <2>2. [job EXCEPT !.attempts = @ + 1] \in Job /\ [job EXCEPT !.stalls = @ + 1] \in Job
    BY <2>1 DEF Job
  <2> QED
    BY <2>2 DEF Job
<1>4. Added(queue, j) \in [JobIds -> Job]
  BY <1>1 DEF Added
<1>5. Promoted(queue, j) \in [JobIds -> Job] /\ Taken(queue, j) \in [JobIds -> Job]
  BY <1>2 DEF Promoted, Taken, JobState
<1>6. Completed(queue, j) \in [JobIds -> Job]
  BY <1>1 DEF Completed
<1>7. AttemptFailed(queue, j, limit) \in [JobIds -> Job]
  BY <1>3 DEF AttemptFailed, JobState
<1>8. Stalled(queue, j) \in [JobIds -> Job]
  BY <1>3 DEF Stalled, JobState
<1> QED
  BY <1>4, <1>5, <1>6, <1>7, <1>8

(* So does the end of a handler.                                           *)
LEMMA HandlerEnds ==
  ASSUME NEW queue \in [JobIds -> Job], NEW h, NEW limit
  PROVE  /\ Returned(queue, h) \in [JobIds -> Job]
         /\ Threw(queue, h, limit) \in [JobIds -> Job]
BY QueueOperations DEF Returned, Threw

-----------------------------------------------------------------------------
Posting ==
  [pc : {"posting", "accepted", "refused"}, job : JobIds,
   attempt : Nat, live : BOOLEAN, status : Ends]

(* A courier that is not idle has a job, of a task. *)
LEMMA BusyCourier ==
  ASSUME CallbackType, NEW w \in Couriers, courier[w].pc # "idle"
  PROVE  /\ courier[w] \in Posting
         /\ courier[w].job \in JobIds
         /\ TaskOf(courier[w].job) \in Tasks
<1>1. courier[w] \in Posting
  BY DEF CallbackType, Delivery, Posting, Idle, Ends
<1>2. courier[w].job \in JobIds
  BY <1>1 DEF Posting
<1> QED
  BY <1>1, <1>2 DEF JobIds, TaskOf

(* A step of somebody else: it may change the queue, and nothing more.     *)
LEMMA OthersKeepInv ==
  ASSUME DeliveryInv, UNCHANGED <<end, callback, courier, acked>>,
         deliver' \in [JobIds -> Job]
  PROVE  DeliveryInv'
BY DEF DeliveryInv, CallbackType, PostsTruth, AcceptedIsTold, SavedIsTold, Told

(* A handler that stops leaves the others as they are.                     *)
LEMMA CourierStops ==
  ASSUME DeliveryInv, NEW w \in Couriers,
         courier' = [courier EXCEPT ![w] = Idle],
         UNCHANGED <<end, callback, acked>>, deliver' \in [JobIds -> Job]
  PROVE  DeliveryInv'
<1>1. CallbackType'
  BY DEF DeliveryInv, CallbackType, Delivery
<1>2. \A v \in Couriers :
        courier'[v].pc \in {"posting", "accepted"} => courier'[v] = courier[v]
  BY DEF DeliveryInv, CallbackType, Idle
<1> QED
  BY <1>1, <1>2 DEF DeliveryInv, PostsTruth, AcceptedIsTold, SavedIsTold, Told

(* scheduleForTask is called for a task that ends: what was posted of it   *)
(* before is that it is open.                                              *)
LEMMA TaskEndsOK ==
  ASSUME DeliveryInv, NEW s \in Schedulers, NEW t \in Tasks, TaskEnds(s, t)
  PROVE  DeliveryInv'
<1>1. PICK e \in Reported \cup Failures : end' = [end EXCEPT ![t] = e]
  BY DEF TaskEnds
<1>2. UNCHANGED <<callback, deliver, courier, acked>> /\ end[t] = "open"
  BY DEF TaskEnds, postVars, history
<1>3. CallbackType'
  BY <1>1, <1>2 DEF DeliveryInv, CallbackType, Ends
<1>5. PostsTruth'
  <2> SUFFICES ASSUME NEW w \in Couriers, courier[w].pc = "posting"
               PROVE  courier[w].status \in {"open", end'[TaskOf(courier[w].job)]}
    BY <1>2 DEF PostsTruth
  <2>1. TaskOf(courier[w].job) \in Tasks
    BY BusyCourier DEF DeliveryInv
  <2> QED
    BY <2>1, <1>1, <1>2 DEF DeliveryInv, CallbackType, PostsTruth
<1>6. AcceptedIsTold'
  <2> SUFFICES ASSUME NEW w \in Couriers, courier[w].pc = "accepted"
               PROVE  Told(TaskOf(courier[w].job))'
    BY <1>2 DEF AcceptedIsTold
  <2>1. TaskOf(courier[w].job) \in Tasks
    BY BusyCourier DEF DeliveryInv
  <2>2. Told(TaskOf(courier[w].job))
    BY DEF DeliveryInv, AcceptedIsTold
  <2>3. Told(TaskOf(courier[w].job)) => Told(TaskOf(courier[w].job))'
    BY <2>1, <1>1, <1>2 DEF DeliveryInv, CallbackType, Told
  <2> QED
    BY <2>2, <2>3
<1>7. SavedIsTold'
  BY <1>1, <1>2 DEF DeliveryInv, CallbackType, SavedIsTold, Told
<1> QED
  BY <1>3, <1>5, <1>6, <1>7 DEF DeliveryInv

(* callback.processor.ts:48: the POST says what the task is.               *)
LEMMA TakeDeliverOK ==
  ASSUME DeliveryInv, NEW w \in Couriers, NEW j \in JobIds, TakeDeliver(w, j)
  PROVE  DeliveryInv'
<1> DEFINE h == [pc |-> "posting", job |-> j, attempt |-> deliver[j].attempts + 1,
                 live |-> TRUE, status |-> end[TaskOf(j)]]
<1>1. UNCHANGED <<end, callback, acked>> /\ courier' = [courier EXCEPT ![w] = h]
  BY DEF TakeDeliver, docVars, history
<1>2. deliver' \in [JobIds -> Job]
  BY QueueOperations DEF TakeDeliver, DeliveryInv, CallbackType
<1>3. TaskOf(j) \in Tasks /\ deliver[j].attempts + 1 \in Nat
  BY DEF DeliveryInv, CallbackType, JobIds, TaskOf, Job
<1>4. h \in Delivery
  BY <1>3 DEF DeliveryInv, CallbackType, Delivery, Ends
<1>5. CallbackType'
  BY <1>1, <1>2, <1>4 DEF DeliveryInv, CallbackType
<1>6. \A v \in Couriers : v # w => courier'[v] = courier[v]
  BY <1>1 DEF DeliveryInv, CallbackType
<1>7. courier'[w] = h
  BY <1>1 DEF DeliveryInv, CallbackType
<1>8. PostsTruth'
  BY <1>1, <1>6, <1>7 DEF DeliveryInv, PostsTruth
<1>9. AcceptedIsTold' /\ SavedIsTold'
  BY <1>1, <1>6, <1>7 DEF DeliveryInv, AcceptedIsTold, SavedIsTold, Told
<1> QED
  BY <1>5, <1>8, <1>9 DEF DeliveryInv

(* callback.processor.ts:92: a 2xx is the client's word that it was told.  *)
LEMMA PostOK ==
  ASSUME DeliveryInv, NEW w \in Couriers, Post(w)
  PROVE  DeliveryInv'
<1> DEFINE t == TaskOf(courier[w].job)
<1>1. /\ UNCHANGED <<end, callback, deliver>>
      /\ courier[w].pc = "posting"
  BY DEF Post, docVars, CourierAt
<1>2. courier[w] \in Posting /\ t \in Tasks
  BY <1>1, BusyCourier DEF DeliveryInv
<1>3. courier[w].status \in {"open", end[t]} /\ courier[w].status \in Ends
  BY <1>1, <1>2 DEF DeliveryInv, PostsTruth, Posting
<1>4. \A pc \in {"accepted", "refused"} :
        [courier[w] EXCEPT !.pc = pc, !.status = "open"] \in Delivery
  BY <1>2 DEF Posting, Delivery, Ends
<1>5. CASE /\ acked' = [acked EXCEPT ![t] = @ \cup {courier[w].status}]
           /\ courier' = [courier EXCEPT ![w] = [@ EXCEPT !.pc = "accepted", !.status = "open"]]
  <2>1. CallbackType'
    BY <1>1, <1>2, <1>3, <1>4, <1>5 DEF DeliveryInv, CallbackType
  <2>2. \A u \in Tasks : acked[u] \subseteq acked'[u]
    BY <1>5 DEF DeliveryInv, CallbackType
  <2>3. acked'[t] = acked[t] \cup {courier[w].status}
    BY <1>2, <1>5 DEF DeliveryInv, CallbackType
  <2>4. \A v \in Couriers : v # w => courier'[v] = courier[v]
    BY <1>5 DEF DeliveryInv, CallbackType
  <2>5. courier'[w].pc = "accepted" /\ courier'[w].job = courier[w].job
    BY <1>2, <1>5 DEF DeliveryInv, CallbackType, Posting
  <2>6. PostsTruth'
    BY <1>1, <2>4, <2>5 DEF DeliveryInv, PostsTruth
  <2>7. AcceptedIsTold'
    <3> SUFFICES ASSUME NEW v \in Couriers, courier'[v].pc = "accepted"
                 PROVE  \/ end[TaskOf(courier'[v].job)] \in acked'[TaskOf(courier'[v].job)]
                        \/ "open" \in acked'[TaskOf(courier'[v].job)]
      BY <1>1 DEF AcceptedIsTold, Told
    <3>1. CASE v = w
      BY <3>1, <1>3, <2>3, <2>5
    <3>2. CASE v # w
      <4>1. courier'[v] = courier[v]
        BY <3>2, <2>4
      <4>2. TaskOf(courier[v].job) \in Tasks
        BY <4>1, BusyCourier DEF DeliveryInv
      <4>3. Told(TaskOf(courier[v].job))
        BY <4>1 DEF DeliveryInv, AcceptedIsTold
      <4> QED
        BY <4>1, <4>2, <4>3, <2>2 DEF Told
    <3> QED
      BY <3>1, <3>2
  <2>8. SavedIsTold'
    BY <1>1, <2>2 DEF DeliveryInv, SavedIsTold, Told
  <2> QED
    BY <2>1, <2>6, <2>7, <2>8 DEF DeliveryInv
<1>6. CASE /\ courier' = [courier EXCEPT ![w] = [@ EXCEPT !.pc = "refused", !.status = "open"]]
           /\ UNCHANGED acked
  <2>1. CallbackType'
    BY <1>1, <1>4, <1>6 DEF DeliveryInv, CallbackType
  <2>2. \A v \in Couriers : v # w => courier'[v] = courier[v]
    BY <1>6 DEF DeliveryInv, CallbackType
  <2>3. courier'[w].pc = "refused"
    BY <1>2, <1>6 DEF DeliveryInv, CallbackType, Posting
  <2> QED
    BY <1>1, <1>6, <2>1, <2>2, <2>3
       DEF DeliveryInv, PostsTruth, AcceptedIsTold, SavedIsTold, Told
<1> QED
  BY <1>5, <1>6 DEF Post

(* callback.processor.ts:100: SUCCESS is written behind a 2xx only.        *)
LEMMA SaveDeliveredOK ==
  ASSUME DeliveryInv, NEW w \in Couriers, SaveDelivered(w)
  PROVE  DeliveryInv'
<1> DEFINE t == TaskOf(courier[w].job)
<1>1. /\ courier[w].pc = "accepted"
      /\ callback' = [callback EXCEPT ![t] = "SUCCESS"]
      /\ courier' = [courier EXCEPT ![w] = Idle]
      /\ UNCHANGED <<end, acked>>
  BY DEF SaveDelivered, CourierAt, history
<1>2. Told(t)
  BY <1>1 DEF DeliveryInv, AcceptedIsTold
<1>3. deliver' \in [JobIds -> Job]
  BY HandlerEnds DEF SaveDelivered, DeliveryInv, CallbackType
<1>4. CallbackType'
  BY <1>1, <1>3 DEF DeliveryInv, CallbackType, Delivery, CallbackStatus
<1>5. \A v \in Couriers :
        courier'[v].pc \in {"posting", "accepted"} => courier'[v] = courier[v]
  BY <1>1 DEF DeliveryInv, CallbackType, Idle
<1>6. PostsTruth' /\ AcceptedIsTold'
  BY <1>1, <1>5 DEF DeliveryInv, PostsTruth, AcceptedIsTold, Told
<1>7. SavedIsTold'
  BY <1>1, <1>2 DEF DeliveryInv, CallbackType, SavedIsTold, Told
<1> QED
  BY <1>4, <1>6, <1>7 DEF DeliveryInv

(* callback.processor.ts:124: anything else is written as a failure.       *)
LEMMA SaveUndeliveredOK ==
  ASSUME DeliveryInv, NEW w \in Couriers, SaveUndelivered(w)
  PROVE  DeliveryInv'
<1> DEFINE t == TaskOf(courier[w].job)
<1>1. PICK status \in {"FAILED", "DEAD_LETTER"} : callback' = [callback EXCEPT ![t] = status]
  BY DEF SaveUndelivered, Undelivered
<1>2. courier' = [courier EXCEPT ![w] = Idle] /\ UNCHANGED <<end, acked>>
  BY DEF SaveUndelivered, DeliverThrows, history
<1>3. deliver' \in [JobIds -> Job]
  BY HandlerEnds DEF SaveUndelivered, DeliverThrows, DeliveryInv, CallbackType
<1>4. CallbackType'
  BY <1>1, <1>2, <1>3 DEF DeliveryInv, CallbackType, Delivery, CallbackStatus
<1>5. \A v \in Couriers :
        courier'[v].pc \in {"posting", "accepted"} => courier'[v] = courier[v]
  BY <1>2 DEF DeliveryInv, CallbackType, Idle
<1>6. PostsTruth' /\ AcceptedIsTold'
  BY <1>2, <1>5 DEF DeliveryInv, PostsTruth, AcceptedIsTold, Told
<1>7. SavedIsTold'
  BY <1>1, <1>2 DEF DeliveryInv, CallbackType, SavedIsTold, Told
<1> QED
  BY <1>4, <1>6, <1>7 DEF DeliveryInv

(* callback.processor.ts:114: a failure after the 2xx hides it.            *)
LEMMA DeliverStoreErrorOK ==
  ASSUME DeliveryInv, NEW w \in Couriers, DeliverStoreError(w)
  PROVE  DeliveryInv'
<1>1. UNCHANGED <<end, callback, acked>>
  BY DEF DeliverStoreError, docVars, history
<1>2. CASE CourierAt(w, "accepted") /\ CourierTo(w, "refused") /\ UNCHANGED deliver
  <2>1. courier[w] \in Posting
    BY <1>2, BusyCourier DEF CourierAt, DeliveryInv
  <2>2. [courier[w] EXCEPT !.pc = "refused"] \in Delivery
    BY <2>1 DEF Posting, Delivery, Ends
  <2>3. CallbackType'
    BY <1>1, <1>2, <2>2 DEF CourierTo, DeliveryInv, CallbackType
  <2>4. courier'[w].pc = "refused" /\ \A v \in Couriers : v # w => courier'[v] = courier[v]
    BY <1>2, <2>1 DEF CourierTo, DeliveryInv, CallbackType, Posting
  <2> QED
    BY <1>1, <2>3, <2>4 DEF DeliveryInv, PostsTruth, AcceptedIsTold, SavedIsTold, Told
<1>3. CASE DeliverThrows(w)
  <2>1. deliver' \in [JobIds -> Job] /\ courier' = [courier EXCEPT ![w] = Idle]
    BY <1>3, HandlerEnds DEF DeliverThrows, DeliveryInv, CallbackType
  <2> QED
    BY <1>1, <2>1, CourierStops
<1> QED
  BY <1>2, <1>3 DEF DeliverStoreError

(* Bull's timeout: the handlers it gives up run on.                        *)
LEMMA TimeOutDeliverOK ==
  ASSUME DeliveryInv, NEW j \in JobIds, TimeOutDeliver(j)
  PROVE  DeliveryInv'
<1>1. UNCHANGED <<end, callback, acked>>
  BY DEF TimeOutDeliver, docVars, history
<1>2. courier' = [w \in Couriers |-> GivenUp(courier[w], j)]
  BY DEF TimeOutDeliver
<1>3. deliver' \in [JobIds -> Job]
  BY QueueOperations DEF TimeOutDeliver, DeliveryInv, CallbackType
<1>4. ASSUME NEW w \in Couriers
      PROVE  /\ courier'[w] \in Delivery
             /\ courier'[w].pc = courier[w].pc
             /\ courier[w].pc # "idle" => /\ courier'[w].job = courier[w].job
                                          /\ courier'[w].status = courier[w].status
  <2>1. CASE courier[w] = Idle
    BY <2>1, <1>2 DEF GivenUp, Holds, Delivery, Idle
  <2>2. CASE courier[w] # Idle
    <3>1. courier[w] \in Posting
      BY <2>2 DEF DeliveryInv, CallbackType, Delivery, Posting, Ends
    <3>2. [courier[w] EXCEPT !.live = FALSE] \in Posting
      BY <3>1 DEF Posting
    <3>3. Posting \subseteq Delivery
      BY DEF Posting, Delivery, Ends
    <3> QED
      BY <3>1, <3>2, <3>3, <1>2 DEF GivenUp, Posting
  <2> QED
    BY <2>1, <2>2
<1>5. CallbackType'
  BY <1>1, <1>2, <1>3, <1>4 DEF DeliveryInv, CallbackType
<1> QED
  BY <1>1, <1>4, <1>5 DEF DeliveryInv, PostsTruth, AcceptedIsTold, SavedIsTold, Told

-----------------------------------------------------------------------------
(* Nothing has been posted at the start.                                   *)
LEMMA DeliveryInvInit == Init => DeliveryInv
<1> SUFFICES ASSUME Init PROVE DeliveryInv
  OBVIOUS
<1>1. CallbackType
  BY DEF Init, CallbackType, Ends, CallbackStatus, Job, JobState, NoJob, Delivery
<1>2. \A w \in Couriers : courier[w].pc = "idle"
  BY DEF Init, Idle
<1>3. PostsTruth /\ AcceptedIsTold
  BY <1>2 DEF PostsTruth, AcceptedIsTold
<1>4. SavedIsTold
  BY DEF Init, SavedIsTold
<1> QED
  BY <1>1, <1>3, <1>4 DEF DeliveryInv

(* scheduleForTask and handleExtract touch neither deliveries nor what the *)
(* client knows.                                                           *)
LEMMA SchedulerStepOK ==
  ASSUME DeliveryInv, NEW s \in Schedulers,
         \/ \E t \in Tasks : CallAgain(s, t) \/ Refresh(s, t)
         \/ SchedulerMoves(s) \/ ScheduleStops(s)
  PROVE  DeliveryInv'
<1>1. UNCHANGED <<end, callback, deliver, courier, acked>>
  BY DEF CallAgain, Refresh, SchedulerMoves, LoadForSchedule, MarkPending, AddExtract,
         Excuse, FinishSchedule, ScheduleStops, docVars, postVars, history
<1> QED
  BY <1>1, OthersKeepInv DEF DeliveryInv, CallbackType

(* handleExtract: its callbacks are left to the step ReportMoves.           *)
LEMMA ExtractorStepOK ==
  ASSUME DeliveryInv, NEW w \in Extractors,
         ExtractorMoves(w) \/ ExtractStoreError(w) \/ ExtractorDies(w)
  PROVE  DeliveryInv'
<1>1. UNCHANGED <<end, callback, deliver, courier, acked>>
  BY DEF ExtractorMoves, LoadForExtract, Convert, Reread, SaveMetadata, Save, SaveFailure,
         FinishExtract, ExtractStoreError, ExtractorDies, docVars, postVars, history
<1> QED
  BY <1>1, OthersKeepInv DEF DeliveryInv, CallbackType

(* The queue resource-metadata is none of the courier's business.          *)
LEMMA ExtractQueueOK ==
  ASSUME DeliveryInv, NEW j \in JobIds, ExtractQueueMoves(j) \/ TimeOutExtract(j)
  PROVE  DeliveryInv'
<1>1. UNCHANGED <<end, callback, deliver, courier, acked>>
  BY DEF ExtractQueueMoves, TakeExtract, RequeueExtract, TimeOutExtract,
         docVars, postVars, history
<1> QED
  BY <1>1, OthersKeepInv DEF DeliveryInv, CallbackType

(* What they report, and what is replayed, is a job more at most.          *)
LEMMA ReportOK ==
  ASSUME DeliveryInv, NEW c \in Callers, ReportMoves(c)
  PROVE  DeliveryInv'
<1>1. UNCHANGED <<end, callback, courier, acked>>
  BY DEF ReportMoves, ReadForReport, AddReport, docVars, postVars, history
<1>2. deliver' \in [JobIds -> Job]
  BY QueueOperations, SMTT(60)
     DEF ReportMoves, ReadForReport, AddReport, postVars, DeliveryInv, CallbackType
<1> QED
  BY <1>1, <1>2, OthersKeepInv

(* admin-task.controller.ts:264: the task is not written.                  *)
LEMMA ReplayOK ==
  ASSUME DeliveryInv, NEW t \in Tasks, ReplayCallback(t)
  PROVE  DeliveryInv'
<1>1. UNCHANGED <<end, callback, courier, acked>>
  BY DEF ReplayCallback, docVars
<1>2. deliver' \in [JobIds -> Job]
  BY QueueOperations DEF ReplayCallback, DeliveryInv, CallbackType
<1> QED
  BY <1>1, <1>2, OthersKeepInv

(* The queue callback: a job is taken, taken back, timed out or retried.   *)
LEMMA DeliverQueueOK ==
  ASSUME DeliveryInv, NEW j \in JobIds, DeliverQueueMoves(j) \/ TimeOutDeliver(j)
  PROVE  DeliveryInv'
<1>1. CASE RequeueDeliver(j)
  <2>1. UNCHANGED <<end, callback, courier, acked>>
    BY <1>1 DEF RequeueDeliver, docVars, history
  <2>2. deliver' = Stalled(deliver, j) \/ deliver' = Promoted(deliver, j)
    BY <1>1 DEF RequeueDeliver
  <2>3. Stalled(deliver, j) \in [JobIds -> Job] /\ Promoted(deliver, j) \in [JobIds -> Job]
    BY QueueOperations DEF DeliveryInv, CallbackType
  <2> QED
    BY <2>1, <2>2, <2>3, OthersKeepInv
<1> QED
  BY <1>1, TakeDeliverOK, TimeOutDeliverOK DEF DeliverQueueMoves

(* handleCallback, await by await.                                         *)
LEMMA CourierStepOK ==
  ASSUME DeliveryInv, NEW w \in Couriers,
         CourierMoves(w) \/ DeliverStoreError(w) \/ CourierDies(w)
  PROVE  DeliveryInv'
<1>1. CASE CourierDies(w)
  <2>1. /\ courier' = [courier EXCEPT ![w] = Idle]
        /\ UNCHANGED <<end, callback, acked, deliver>>
    BY <1>1 DEF CourierDies, docVars
  <2> QED
    BY <2>1, CourierStops DEF DeliveryInv, CallbackType
<1> QED
  BY <1>1, PostOK, SaveDeliveredOK, SaveUndeliveredOK, DeliverStoreErrorOK DEF CourierMoves

(* Every step keeps what the task says of its callback true.               *)
LEMMA DeliveryStep == DeliveryInv /\ [Next]_vars => DeliveryInv'
<1> SUFFICES ASSUME DeliveryInv, [Next]_vars PROVE DeliveryInv'
  OBVIOUS
<1>1. CASE UNCHANGED vars
  <2>1. UNCHANGED <<end, callback, deliver, courier, acked>>
    BY <1>1 DEF vars, docVars, postVars, history
  <2> QED
    BY <2>1, OthersKeepInv DEF DeliveryInv, CallbackType
<1>2. CASE Next
  BY <1>2, TaskEndsOK, SchedulerStepOK, ExtractorStepOK, CourierStepOK, ReportOK,
     ExtractQueueOK, DeliverQueueOK, ReplayOK DEF Next
<1> QED
  BY <1>1, <1>2

(* callback.processor.ts: the SUCCESS a task shows of its callback is the  *)
(* client's, though any await may fail, be repeated or come too late.      *)
THEOREM DeliveredIsAcknowledged == Spec => []EndIsAcknowledged
<1>1. DeliveryInv => EndIsAcknowledged
  BY DEF DeliveryInv, SavedIsTold, Told, EndIsAcknowledged
<1> QED
  BY <1>1, DeliveryInvInit, DeliveryStep, PTL DEF Spec
-----------------------------------------------------------------------------
(* The rest of the state: results, metadata, the queue resource-metadata.  *)
MetadataType ==
  /\ payload \in [Tasks -> Urls]
  /\ metadata \in [Tasks -> Metadata]
  /\ extract \in [JobIds -> Job]
  /\ scheduler \in [Schedulers -> Schedule]
  /\ extractor \in [Extractors -> Extraction]
  /\ report \in [Callers -> ReportStep]
  /\ {crashes, requests} \subseteq Nat
  /\ processed \subseteq Tasks

Scheduling == [pc : SchedulerPc, task : Tasks, kind : Kinds]

Extracting ==
  [pc : ExtractorPc, job : JobIds, attempt : Nat, live : BOOLEAN,
   copy : Copies, block : Blocks]

(* A call of scheduleForTask has its task.                                 *)
LEMMA BusyScheduler ==
  ASSUME MetadataType, NEW s \in Schedulers, scheduler[s].pc # "idle"
  PROVE  scheduler[s] \in Scheduling
BY DEF MetadataType, Schedule, Scheduling, Idle

(* A call of handleExtract has its job, of a task.                         *)
LEMMA BusyExtractor ==
  ASSUME MetadataType, NEW w \in Extractors, extractor[w].pc # "idle"
  PROVE  /\ extractor[w] \in Extracting
         /\ extractor[w].job \in JobIds
         /\ TaskOf(extractor[w].job) \in Tasks
<1>1. extractor[w] \in Extracting
  BY DEF MetadataType, Extraction, Extracting, Idle
<1>2. extractor[w].job \in JobIds
  BY <1>1 DEF Extracting
<1> QED
  BY <1>1, <1>2 DEF JobIds, TaskOf

(* A call of scheduleForTask begins, for a task.                           *)
LEMMA SchedulerCalled ==
  ASSUME MetadataType, NEW s \in Schedulers, NEW t \in Tasks,
         TaskEnds(s, t) \/ CallAgain(s, t) \/ Refresh(s, t)
  PROVE  MetadataType'
<1>1. /\ UNCHANGED <<payload, metadata, extract, extractor, report, crashes, processed>>
      /\ requests' \in {requests, requests + 1}
  BY DEF TaskEnds, CallAgain, Refresh, docVars, metaVars, history, bounds
<1>2. PICK kind \in Kinds :
        scheduler' = [scheduler EXCEPT ![s] = [pc |-> "loading", task |-> t, kind |-> kind]]
  BY DEF TaskEnds, CallAgain, Refresh, Calls, Kinds
<1>3. [pc |-> "loading", task |-> t, kind |-> kind] \in Schedule
  BY DEF Schedule, SchedulerPc
<1>4. requests' \in Nat
  BY <1>1 DEF MetadataType
<1> QED
  BY <1>1, <1>2, <1>3, <1>4 DEF MetadataType

(* It goes on, or stops.                                                   *)
LEMMA SchedulerTyped ==
  ASSUME MetadataType, NEW s \in Schedulers, SchedulerMoves(s) \/ ScheduleStops(s)
  PROVE  MetadataType'
<1>1. UNCHANGED <<payload, extractor, crashes, requests, processed>>
  BY DEF SchedulerMoves, LoadForSchedule, MarkPending, AddExtract, Excuse, FinishSchedule,
         ScheduleStops, docVars, metaVars, history, bounds
<1>2. s \in Callers
  BY DEF Callers
<1>3. Idle \in Schedule
  BY DEF Schedule
<1>4. CASE SchedulerDone(s) /\ UNCHANGED metadata
  <2>1. scheduler' \in [Schedulers -> Schedule]
    BY <1>3, <1>4 DEF SchedulerDone, MetadataType
  <2>2. extract' \in [JobIds -> Job]
    <3>1. extract' \in {extract, Added(extract, <<scheduler[s].task, scheduler[s].kind>>)}
      BY DEF SchedulerMoves, LoadForSchedule, MarkPending, AddExtract, Excuse,
             FinishSchedule, ScheduleStops, metaVars
    <3>2. Added(extract, <<scheduler[s].task, scheduler[s].kind>>) \in [JobIds -> Job]
      BY QueueOperations DEF MetadataType
    <3> QED
      BY <3>1, <3>2 DEF MetadataType
  <2>3. report' \in [Callers -> ReportStep]
    BY <1>2
       DEF SchedulerMoves, LoadForSchedule, MarkPending, AddExtract, Excuse,
           FinishSchedule, ScheduleStops, ReportTo, ReportStep, MetadataType
  <2> QED
    BY <1>1, <1>4, <2>1, <2>2, <2>3 DEF MetadataType
<1>5. CASE /\ scheduler[s].pc # "idle"
           /\ \E pc \in SchedulerPc : SchedulerTo(s, pc)
           /\ metadata' = metadata \/ \E status \in MetadataStatus :
                metadata' = [metadata EXCEPT ![scheduler[s].task].status = status]
           /\ UNCHANGED extract
           /\ report' = report \/ ReportTo(s, "reading")
  <2>1. scheduler[s] \in Scheduling
    BY <1>5, BusyScheduler
  <2>2. scheduler' \in [Schedulers -> Schedule]
    BY <1>5, <2>1 DEF SchedulerTo, MetadataType, Schedule, Scheduling
  <2>3. metadata' \in [Tasks -> Metadata]
    <3>1. \A old \in Metadata, status \in MetadataStatus :
            [old EXCEPT !.status = status] \in Metadata
      BY DEF Metadata
    <3>2. ASSUME NEW status \in MetadataStatus,
                 metadata' = [metadata EXCEPT ![scheduler[s].task].status = status]
          PROVE  metadata' \in [Tasks -> Metadata]
      BY <3>1, <3>2 DEF MetadataType
    <3> QED
      BY <1>5, <3>2 DEF MetadataType
  <2>4. report' \in [Callers -> ReportStep]
    BY <1>2, <1>5 DEF ReportTo, ReportStep, MetadataType
  <2> QED
    BY <1>1, <1>5, <2>2, <2>3, <2>4 DEF MetadataType
<1>6. CASE LoadForSchedule(s)
  BY <1>4, <1>5, <1>6
     DEF LoadForSchedule, SchedulerAt, SchedulerPc, docVars, metaVars
<1>7. CASE MarkPending(s)
  BY <1>5, <1>7 DEF MarkPending, SchedulerAt, SchedulerPc, metaVars, MetadataStatus
<1>8. CASE AddExtract(s)
  BY <1>4, <1>5, <1>8 DEF AddExtract, SchedulerAt, SchedulerPc, docVars
<1>9. CASE Excuse(s)
  BY <1>5, <1>9 DEF Excuse, SchedulerAt, SchedulerPc, metaVars, MetadataStatus
<1>10. CASE FinishSchedule(s) \/ ScheduleStops(s)
  BY <1>4, <1>10 DEF FinishSchedule, ScheduleStops, docVars
<1> QED
  BY <1>6, <1>7, <1>8, <1>9, <1>10 DEF SchedulerMoves

(* enqueueForTerminalTask.                                                 *)
LEMMA ReportTyped ==
  ASSUME MetadataType, NEW c \in Callers, ReportMoves(c)
  PROVE  MetadataType'
<1>1. UNCHANGED <<payload, metadata, extract, scheduler, extractor, bounds, processed>>
  BY DEF ReportMoves, ReadForReport, AddReport, docVars, metaVars, history
<1>2. report' \in [Callers -> ReportStep]
  BY DEF ReportMoves, ReadForReport, AddReport, ReportTo, ReportStep, MetadataType
<1> QED
  BY <1>1, <1>2 DEF MetadataType, bounds

(* The handler goes on with what its copy tells it.                        *)
LEMMA ExamineTyped ==
  ASSUME MetadataType, NEW w \in Extractors, extractor[w].pc # "idle",
         NEW copy \in Copies, Examine(w, copy)
  PROVE  /\ extractor' \in [Extractors -> Extraction]
         /\ report' \in [Callers -> ReportStep]
<1>1. extractor[w] \in Extracting /\ w \in Callers
  BY BusyExtractor DEF Callers
<1>2. NoCopy \in Copies /\ [NoCopy EXCEPT !.payload = copy.payload] \in Copies
  BY DEF NoCopy, Copies, MetadataStatus, Urls
<1>3. \A c \in Copies : \A pc \in ExtractorPc :
        [extractor[w] EXCEPT !.copy = c, !.pc = pc] \in Extracting
  BY <1>1 DEF Extracting
<1>4. Extracting \subseteq Extraction
  BY DEF Extracting, Extraction
<1>5. PICK c \in Copies : \E pc \in ExtractorPc :
        extractor' = [extractor EXCEPT ![w] = [@ EXCEPT !.copy = c, !.pc = pc]]
  BY <1>2 DEF Examine, ExtractorPc
<1>6. extractor' \in [Extractors -> Extraction]
  BY <1>3, <1>4, <1>5 DEF MetadataType
<1>7. report' \in [Callers -> ReportStep]
  BY <1>1 DEF Examine, ReportStep, MetadataType
<1> QED
  BY <1>6, <1>7

(* The end of handleExtract.                                               *)
LEMMA ExtractEndsTyped ==
  ASSUME MetadataType, NEW w \in Extractors, NEW queue \in [JobIds -> Job],
         ExtractEnds(w, queue)
  PROVE  /\ extract' \in [JobIds -> Job]
         /\ extractor' \in [Extractors -> Extraction]
         /\ report' \in [Callers -> ReportStep]
BY DEF ExtractEnds, ReportTo, ReportStep, Extraction, Callers, MetadataType

(* handleExtract up to the point where metadata is written.                *)
LEMMA ExtractorReads ==
  ASSUME MetadataType, end \in [Tasks -> Ends], NEW w \in Extractors,
         LoadForExtract(w) \/ Convert(w) \/ Reread(w)
  PROVE  MetadataType'
<1> DEFINE t == TaskOf(extractor[w].job)
<1>1. UNCHANGED <<metadata, extract, scheduler, crashes, requests, processed>>
  BY DEF LoadForExtract, Convert, Reread, docVars, history, bounds
<1>2. extractor[w].pc # "idle"
  BY DEF LoadForExtract, Convert, Reread, ExtractorAt
<1>3. extractor[w] \in Extracting /\ t \in Tasks
  BY <1>2, BusyExtractor
<1>4. CopyOf(t) \in Copies /\ extractor[w].copy \in Copies
  BY <1>3 DEF CopyOf, Copies, Extracting, MetadataType, Metadata
<1>5. payload' \in [Tasks -> Urls]
  <2>1. extractor[w].copy.payload \in Urls
    BY <1>4 DEF Copies
  <2>2. payload' = payload \/ \E urls \in Urls : payload' = [payload EXCEPT ![t] = urls]
    BY <2>1 DEF LoadForExtract, Convert, Reread, docVars, Urls
  <2> QED
    BY <2>2 DEF MetadataType
<1>6. CASE \E copy \in Copies : Examine(w, copy)
  BY <1>1, <1>2, <1>5, <1>6, ExamineTyped DEF MetadataType
<1>7. CASE /\ \/ \E copy \in Copies, pc \in ExtractorPc :
                   extractor' = [extractor EXCEPT ![w] = [@ EXCEPT !.copy = copy, !.pc = pc]]
              \/ ExtractorTo(w, "rereading")
           /\ UNCHANGED report
  <2>1. \A copy \in Copies, pc \in ExtractorPc :
          /\ [extractor[w] EXCEPT !.copy = copy, !.pc = pc] \in Extraction
          /\ [extractor[w] EXCEPT !.pc = pc] \in Extraction
    BY <1>3 DEF Extracting, Extraction
  <2>2. extractor' \in [Extractors -> Extraction]
    <3>1. CASE ExtractorTo(w, "rereading")
      BY <2>1, <1>4, <3>1 DEF ExtractorTo, ExtractorPc, MetadataType
    <3>2. CASE \E copy \in Copies, pc \in ExtractorPc :
                 extractor' = [extractor EXCEPT ![w] = [@ EXCEPT !.copy = copy, !.pc = pc]]
      BY <2>1, <3>2 DEF MetadataType
    <3> QED
      BY <1>7, <3>1, <3>2
  <2> QED
    BY <1>1, <1>5, <1>7, <2>2 DEF MetadataType
<1>8. CASE LoadForExtract(w)
  BY <1>4, <1>6, <1>7, <1>8 DEF LoadForExtract, ExtractorPc
<1>9. CASE Convert(w)
  BY <1>4, <1>6, <1>7, <1>9 DEF Convert
<1>10. CASE Reread(w)
  BY <1>4, <1>6, <1>10 DEF Reread
<1> QED
  BY <1>8, <1>9, <1>10

(* Its writes, and its end.                                                *)
LEMMA ExtractorWrites ==
  ASSUME MetadataType, NEW w \in Extractors,
         \/ SaveMetadata(w) \/ SaveFailure(w) \/ FinishExtract(w)
         \/ ExtractStoreError(w) \/ ExtractorDies(w)
  PROVE  MetadataType'
<1> DEFINE t == TaskOf(extractor[w].job)
<1>1. UNCHANGED <<payload, scheduler, requests>> /\ crashes' \in {crashes, crashes + 1}
  BY DEF SaveMetadata, SaveFailure, FinishExtract, ExtractStoreError, ExtractorDies,
         docVars, history, bounds
<1>2. extractor[w].pc # "idle" /\ w \in Callers
  BY DEF SaveMetadata, SaveFailure, FinishExtract, ExtractStoreError, ExtractorDies,
         ExtractorAt, Callers
<1>3. extractor[w] \in Extracting /\ t \in Tasks
  BY <1>2, BusyExtractor
<1>4. crashes' \in Nat
  BY <1>1 DEF MetadataType
<1>5. metadata' \in [Tasks -> Metadata] /\ processed' \subseteq Tasks
  <2>1. \/ UNCHANGED <<metadata, processed>>
        \/ \E status \in MetadataStatus : Save(w, status)
    BY DEF SaveMetadata, SaveFailure, FinishExtract, ExtractStoreError, ExtractorDies,
           docVars, history, MetadataStatus
  <2>2. \A status \in MetadataStatus :
          [status |-> status, fingerprint |-> extractor[w].copy.payload] \in Metadata
    BY <1>3 DEF Extracting, Copies, Metadata
  <2>3. metadata' \in [Tasks -> Metadata]
    BY <2>1, <2>2 DEF Save, MetadataType
  <2> QED
    BY <1>3, <2>1, <2>3 DEF Save, MetadataType
<1>6. CASE \E queue \in [JobIds -> Job] : ExtractEnds(w, queue)
  BY <1>1, <1>4, <1>5, <1>6, ExtractEndsTyped DEF MetadataType
<1>7. Returned(extract, extractor[w]) \in [JobIds -> Job]
      /\ Threw(extract, extractor[w], ExtractAttempts) \in [JobIds -> Job]
  BY HandlerEnds DEF MetadataType
<1>8. CASE (\E block \in Blocks : StartReport(w, block)) /\ UNCHANGED extract
  <2>1. NoCopy \in Copies /\ extractor[w].copy \in Copies
    BY <1>3 DEF NoCopy, Copies, MetadataStatus, Urls, Extracting
  <2>2. \A block \in Blocks, copy \in Copies :
          [extractor[w] EXCEPT !.pc = "reporting", !.block = block, !.copy = copy]
            \in Extraction
    BY <1>3 DEF Extracting, Extraction, ExtractorPc
  <2>3. PICK block \in Blocks : StartReport(w, block)
    BY <1>8
  <2>4. \E copy \in Copies :
          extractor' = [extractor EXCEPT ![w] =
            [@ EXCEPT !.pc = "reporting", !.block = block, !.copy = copy]]
    <3>1. CASE block = "try"
      BY <2>1, <2>3, <3>1 DEF StartReport
    <3>2. CASE block # "try"
      BY <2>1, <2>3, <3>2 DEF StartReport
    <3> QED
      BY <3>1, <3>2
  <2>5. extractor' \in [Extractors -> Extraction]
    BY <2>2, <2>4 DEF MetadataType
  <2>6. report' \in [Callers -> ReportStep]
    BY <1>2, <2>3 DEF StartReport, ReportTo, ReportStep, MetadataType
  <2> QED
    BY <1>1, <1>4, <1>5, <1>8, <2>5, <2>6 DEF MetadataType
<1>9. CASE /\ ExtractorTo(w, "failing")
           /\ UNCHANGED extract
           /\ report' = report \/ ReportTo(w, "none")
  <2>1. [extractor[w] EXCEPT !.pc = "failing"] \in Extraction
    BY <1>3 DEF Extracting, Extraction, ExtractorPc
  <2>2. extractor' \in [Extractors -> Extraction]
    BY <1>9, <2>1 DEF ExtractorTo, MetadataType
  <2>3. report' \in [Callers -> ReportStep]
    BY <1>2, <1>9 DEF ReportTo, ReportStep, MetadataType
  <2> QED
    BY <1>1, <1>4, <1>5, <1>9, <2>2, <2>3 DEF MetadataType
<1>10. CASE SaveMetadata(w)
  BY <1>8, <1>10 DEF SaveMetadata, Blocks
<1>11. CASE SaveFailure(w)
  BY <1>6, <1>7, <1>8, <1>11 DEF SaveFailure, ExtractThrows, Blocks
<1>12. CASE FinishExtract(w)
  BY <1>6, <1>7, <1>9, <1>12 DEF FinishExtract, ExtractThrows, ExtractReturns
<1>13. CASE ExtractStoreError(w)
  BY <1>6, <1>7, <1>9, <1>13 DEF ExtractStoreError, ExtractThrows
<1>14. CASE ExtractorDies(w)
  <2>1. ExtractEnds(w, extract)
    BY <1>14 DEF ExtractorDies, ExtractEnds
  <2> QED
    BY <1>6, <2>1 DEF MetadataType
<1> QED
  BY <1>10, <1>11, <1>12, <1>13, <1>14

(* The queue resource-metadata hands out a job, takes it back or times its *)
(* handler out.                                                            *)
LEMMA ExtractQueueTyped ==
  ASSUME MetadataType, NEW j \in JobIds, ExtractQueueMoves(j) \/ TimeOutExtract(j)
  PROVE  MetadataType'
<1>1. UNCHANGED <<payload, metadata, scheduler, report, bounds, processed>>
  BY DEF ExtractQueueMoves, TakeExtract, RequeueExtract, TimeOutExtract, docVars, history
<1>2. extract' \in [JobIds -> Job]
  <2>1. extract' \in {Taken(extract, j), Stalled(extract, j), Promoted(extract, j),
                      AttemptFailed(extract, j, ExtractAttempts)}
    BY DEF ExtractQueueMoves, TakeExtract, RequeueExtract, TimeOutExtract
  <2>2. /\ Taken(extract, j) \in [JobIds -> Job]
        /\ Stalled(extract, j) \in [JobIds -> Job]
        /\ Promoted(extract, j) \in [JobIds -> Job]
        /\ AttemptFailed(extract, j, ExtractAttempts) \in [JobIds -> Job]
    BY QueueOperations DEF MetadataType
  <2> QED
    BY <2>1, <2>2
<1>3. extractor' \in [Extractors -> Extraction]
  <2>1. CASE RequeueExtract(j)
    BY <2>1 DEF RequeueExtract, MetadataType
  <2>2. CASE \E w \in Extractors : TakeExtract(w, j)
    <3>1. PICK w \in Extractors : TakeExtract(w, j)
      BY <2>2
    <3>2. extract[j].attempts + 1 \in Nat /\ NoCopy \in Copies
      BY DEF MetadataType, Job, NoCopy, Copies, MetadataStatus, Urls
    <3>3. [pc |-> "loading", job |-> j, attempt |-> extract[j].attempts + 1,
           live |-> TRUE, copy |-> NoCopy, block |-> "outside"] \in Extraction
      BY <3>2 DEF Extraction, ExtractorPc, Blocks
    <3> QED
      BY <3>1, <3>3 DEF TakeExtract, MetadataType
  <2>3. CASE TimeOutExtract(j)
    <3>1. extractor' = [w \in Extractors |-> GivenUp(extractor[w], j)]
      BY <2>3 DEF TimeOutExtract
    <3>2. \A h \in Extraction : GivenUp(h, j) \in Extraction
      <4> SUFFICES ASSUME NEW h \in Extraction, h # Idle
                   PROVE  [h EXCEPT !.live = FALSE] \in Extraction
        BY DEF GivenUp, Holds
      <4>1. h \in Extracting
        BY DEF Extraction, Extracting
      <4>2. [h EXCEPT !.live = FALSE] \in Extracting
        BY <4>1 DEF Extracting
      <4> QED
        BY <4>2 DEF Extraction, Extracting
    <3> QED
      BY <3>1, <3>2 DEF MetadataType
  <2> QED
    BY <2>1, <2>2, <2>3 DEF ExtractQueueMoves
<1> QED
  BY <1>1, <1>2, <1>3 DEF MetadataType, bounds

(* Couriers and administrators leave this part alone, but for the bounds.  *)
LEMMA DeliverTyped ==
  ASSUME MetadataType,
         \/ \E w \in Couriers :
              CourierMoves(w) \/ DeliverStoreError(w) \/ CourierDies(w)
         \/ \E j \in JobIds : DeliverQueueMoves(j) \/ TimeOutDeliver(j)
         \/ \E t \in Tasks : ReplayCallback(t)
  PROVE  MetadataType'
<1>1. /\ UNCHANGED <<payload, metadata, extract, scheduler, extractor, report, processed>>
      /\ crashes' \in {crashes, crashes + 1} /\ requests' \in {requests, requests + 1}
  BY ZenonT(60)
     DEF CourierMoves, Post, SaveDelivered, SaveUndelivered, DeliverStoreError, CourierDies,
         DeliverQueueMoves, TakeDeliver, RequeueDeliver, TimeOutDeliver, ReplayCallback,
         docVars, metaVars, history, bounds
<1>2. crashes' \in Nat /\ requests' \in Nat
  BY <1>1 DEF MetadataType
<1> QED
  BY <1>1, <1>2 DEF MetadataType

(* The start has the right shape.                                          *)
LEMMA MetadataTypeInit == Init => MetadataType
<1> SUFFICES ASSUME Init PROVE MetadataType
  OBVIOUS
<1>1. [status |-> "none", fingerprint |-> "none"] \in Metadata /\ NoJob \in Job
  BY DEF Metadata, MetadataStatus, Urls, NoJob, Job, JobState
<1>2. Idle \in Schedule /\ Idle \in Extraction
  BY DEF Schedule, Extraction
<1> QED
  BY <1>1, <1>2 DEF Init, MetadataType, Urls, ReportStep

(* Every step keeps it.                                                    *)
LEMMA MetadataTypeStep == DeliveryInv /\ MetadataType /\ [Next]_vars => MetadataType'
<1> SUFFICES ASSUME DeliveryInv, MetadataType, [Next]_vars PROVE MetadataType'
  OBVIOUS
<1>1. end \in [Tasks -> Ends]
  BY DEF DeliveryInv, CallbackType
<1>2. CASE UNCHANGED vars
  BY <1>2 DEF vars, docVars, metaVars, history, bounds, MetadataType
<1>3. CASE Next
  <2>1. CASE \E s \in Schedulers :
               \/ \E t \in Tasks : TaskEnds(s, t) \/ CallAgain(s, t) \/ Refresh(s, t)
               \/ SchedulerMoves(s) \/ ScheduleStops(s)
    BY <2>1, SchedulerCalled, SchedulerTyped
  <2>2. CASE \E w \in Extractors :
               ExtractorMoves(w) \/ ExtractStoreError(w) \/ ExtractorDies(w)
    BY <1>1, <2>2, ExtractorReads, ExtractorWrites DEF ExtractorMoves
  <2>3. CASE \E c \in Callers : ReportMoves(c)
    BY <2>3, ReportTyped
  <2>4. CASE \E j \in JobIds : ExtractQueueMoves(j) \/ TimeOutExtract(j)
    BY <2>4, ExtractQueueTyped
  <2> QED
    BY <1>3, <2>1, <2>2, <2>3, <2>4, DeliverTyped DEF Next
<1> QED
  BY <1>2, <1>3

(* task.schema.ts, queue.module.ts: documents, jobs and handlers keep      *)
(* their shape, whatever fails and whoever asks for what.                  *)
THEOREM DeliveryTyped == Spec => []TypeOK
<1>1. DeliveryInv /\ MetadataType => TypeOK
  BY DEF DeliveryInv, CallbackType, MetadataType, TypeOK, Ends
<1>2. Init => DeliveryInv /\ MetadataType
  BY DeliveryInvInit, MetadataTypeInit
<1>3. DeliveryInv /\ MetadataType /\ [Next]_vars => (DeliveryInv /\ MetadataType)'
  BY DeliveryStep, MetadataTypeStep
<1> QED
  BY <1>1, <1>2, <1>3, PTL DEF Spec

-----------------------------------------------------------------------------
(* The order of result and report.  Wherever the report of a task is on    *)
(* its way - in an extractor, in the queue, at a courier - the task has    *)
(* been processed; metadata that says "ready" says so truly, also in a     *)
(* copy of it.  Schedulers report for themselves only if a store failed.   *)

ReadyIsProcessed == \A t \in Tasks : metadata[t].status = "ready" => t \in processed

CopiesAreProcessed ==
  \A w \in Extractors :
    extractor[w].pc # "idle" /\ extractor[w].copy.status = "ready" =>
      TaskOf(extractor[w].job) \in processed

ReportsAreProcessed ==
  \A w \in Extractors :
    report[w] \in {"reading", "adding"} =>
      extractor[w].pc # "idle" /\ TaskOf(extractor[w].job) \in processed

SchedulersAreSilent ==
  \A s \in Schedulers :
    report[s] = "none" /\ scheduler[s].pc \notin {"excusing", "reporting"}

QueuedIsProcessed == \A j \in JobIds : deliver[j] # NoJob => TaskOf(j) \in processed

ReportOrder ==
  /\ ReadyIsProcessed
  /\ CopiesAreProcessed
  /\ ReportsAreProcessed
  /\ SchedulersAreSilent
  /\ QueuedIsProcessed
  /\ ProcessedBeforeReport

(* What is processed stays processed.                                      *)
LEMMA OrderKept ==
  ASSUME ReportOrder, processed \subseteq processed',
         UNCHANGED <<metadata, extractor, report, scheduler, deliver, courier>>
  PROVE  ReportOrder'
BY DEF ReportOrder, ReadyIsProcessed, CopiesAreProcessed, ReportsAreProcessed,
       SchedulersAreSilent, QueuedIsProcessed, ProcessedBeforeReport

(* task-resource-metadata-enqueue.service.ts:25: a scheduler whose stores  *)
(* answer leaves the report to the job it adds.                            *)
LEMMA SchedulerOrder ==
  ASSUME "storeError" \notin Environment, MetadataType, ReportOrder, NEW s \in Schedulers,
         \/ \E t \in Tasks : TaskEnds(s, t) \/ CallAgain(s, t) \/ Refresh(s, t)
         \/ SchedulerMoves(s) \/ ScheduleStops(s)
  PROVE  ReportOrder'
<1>1. scheduler[s].pc \notin {"excusing", "reporting"} /\ s \in Callers
  BY DEF ReportOrder, SchedulersAreSilent, Callers
<1>2. UNCHANGED <<extractor, deliver, courier, processed>>
  BY DEF TaskEnds, CallAgain, Refresh, SchedulerMoves, LoadForSchedule, MarkPending,
         AddExtract, Excuse, FinishSchedule, ScheduleStops, docVars, metaVars, postVars, history
<1>3. report' = report \/ ReportTo(s, "none")
  BY <1>1
     DEF TaskEnds, CallAgain, Refresh, SchedulerMoves, LoadForSchedule, MarkPending,
         AddExtract, Excuse, FinishSchedule, ScheduleStops, SchedulerAt
<1>4. \A c \in Callers : report'[c] \in {report[c], "none"} /\ (c # s => report'[c] = report[c])
  BY <1>3 DEF ReportTo, MetadataType
<1>5. \A c \in Schedulers : report'[c] = "none"
  BY <1>4 DEF ReportOrder, SchedulersAreSilent, Callers
<1>6. \A r \in Schedulers : scheduler'[r].pc \notin {"excusing", "reporting"}
  <2>1. \A r \in Schedulers : r # s => scheduler'[r] = scheduler[r]
    BY DEF TaskEnds, CallAgain, Refresh, Calls, SchedulerMoves, LoadForSchedule, MarkPending,
           AddExtract, Excuse, FinishSchedule, ScheduleStops, SchedulerTo, SchedulerDone,
           MetadataType
  <2>2. CASE scheduler'[s].pc \in {"loading", "marking", "adding", "idle"}
    BY <2>1, <2>2 DEF ReportOrder, SchedulersAreSilent
  <2>3. CASE SchedulerDone(s) \/ \E t \in Tasks, kind \in Kinds : Calls(s, t, kind)
    BY <2>2, <2>3 DEF SchedulerDone, Calls, Idle, MetadataType
  <2>4. CASE SchedulerTo(s, "marking") \/ SchedulerTo(s, "adding")
    <3>1. CASE scheduler[s].pc # "idle"
      <4>1. scheduler[s] \in Scheduling
        BY <3>1, BusyScheduler
      <4> QED
        BY <4>1, <2>2, <2>4 DEF SchedulerTo, Scheduling, MetadataType
    <3>2. CASE scheduler[s].pc = "idle"
      BY <2>2, <2>4, <3>2 DEF SchedulerTo, Schedule, Scheduling, Idle, MetadataType
    <3> QED
      BY <3>1, <3>2
  <2> QED
    BY <1>1, <2>3, <2>4
       DEF TaskEnds, CallAgain, Refresh, SchedulerMoves, LoadForSchedule, MarkPending,
           AddExtract, Excuse, FinishSchedule, ScheduleStops, SchedulerAt, Kinds
<1>7. \A t \in Tasks : metadata'[t].status = "ready" => metadata[t].status = "ready"
  BY <1>1
     DEF TaskEnds, CallAgain, Refresh, SchedulerMoves, LoadForSchedule, MarkPending,
         AddExtract, Excuse, FinishSchedule, ScheduleStops, SchedulerAt, docVars,
         MetadataType, Metadata
<1> QED
  BY <1>2, <1>4, <1>5, <1>6, <1>7
     DEF ReportOrder, ReadyIsProcessed, CopiesAreProcessed, ReportsAreProcessed,
         SchedulersAreSilent, QueuedIsProcessed, ProcessedBeforeReport, Callers

(* resource-metadata.processor.ts: an extractor changes its own copy and   *)
(* its own report, with its task processed where it matters.               *)
LEMMA ExtractorOrder ==
  ASSUME MetadataType, ReportOrder, NEW w \in Extractors,
         extractor' = [extractor EXCEPT ![w] = extractor'[w]],
         report' = [report EXCEPT ![w] = report'[w]],
         processed \subseteq processed',
         UNCHANGED <<scheduler, deliver, courier>>,
         \A t \in Tasks : metadata'[t].status = "ready" => t \in processed',
         extractor'[w].pc # "idle" /\ extractor'[w].copy.status = "ready" =>
           TaskOf(extractor'[w].job) \in processed',
         report'[w] \in {"reading", "adding"} =>
           extractor'[w].pc # "idle" /\ TaskOf(extractor'[w].job) \in processed'
  PROVE  ReportOrder'
<1>1. \A v \in Extractors : v # w => extractor'[v] = extractor[v] /\ report'[v] = report[v]
  BY DEF MetadataType, Callers
<1>2. \A s \in Schedulers : s # w /\ report'[s] = report[s]
  BY DeliveryAssumption DEF MetadataType, Callers
<1> QED
  BY <1>1, <1>2
     DEF ReportOrder, ReadyIsProcessed, CopiesAreProcessed, ReportsAreProcessed,
         SchedulersAreSilent, QueuedIsProcessed, ProcessedBeforeReport

(* Reading, converting and reading again: a copy is as true as the task.   *)
LEMMA ReadingOrder ==
  ASSUME MetadataType, ReportOrder, NEW w \in Extractors,
         LoadForExtract(w) \/ Convert(w) \/ Reread(w)
  PROVE  ReportOrder'
<1> DEFINE t == TaskOf(extractor[w].job)
<1>1. UNCHANGED <<metadata, scheduler, deliver, courier, processed>>
  BY DEF LoadForExtract, Convert, Reread, docVars, postVars, history
<1>2. extractor[w].pc # "idle"
  BY DEF LoadForExtract, Convert, Reread, ExtractorAt
<1>3. extractor[w] \in Extracting /\ t \in Tasks /\ w \in Callers
  BY <1>2, BusyExtractor DEF Callers
<1>4. /\ CopyOf(t).status = "ready" => t \in processed
      /\ extractor[w].copy.status = "ready" => t \in processed
      /\ report[w] \in {"reading", "adding"} => t \in processed
      /\ \A u \in Tasks : metadata[u].status = "ready" => u \in processed
  BY <1>2, <1>3
     DEF CopyOf, ReportOrder, ReadyIsProcessed, CopiesAreProcessed, ReportsAreProcessed
<1>5. CASE \E copy \in {CopyOf(t), extractor[w].copy} : Examine(w, copy)
  <2>1. PICK copy \in {CopyOf(t), extractor[w].copy} : Examine(w, copy)
    BY <1>5
  <2>2. PICK c \in {NoCopy, [NoCopy EXCEPT !.payload = copy.payload]}, pc \in ExtractorPc :
          extractor' = [extractor EXCEPT ![w] = [@ EXCEPT !.copy = c, !.pc = pc]]
    BY <2>1 DEF Examine, ExtractorPc
  <2>3. /\ extractor'[w] = [extractor[w] EXCEPT !.copy = c, !.pc = pc]
        /\ extractor' = [extractor EXCEPT ![w] = extractor'[w]]
    BY <2>2 DEF MetadataType
  <2>4. /\ extractor'[w].copy.status # "ready"
        /\ extractor'[w].pc # "idle"
        /\ extractor'[w].job = extractor[w].job
    BY <1>3, <2>3 DEF Extracting, NoCopy, ExtractorPc
  <2>5. /\ report' = [report EXCEPT ![w] = report'[w]]
        /\ report'[w] # report[w] => copy.status = "ready"
    BY <1>3, <2>1 DEF Examine, MetadataType
  <2>6. report'[w] \in {"reading", "adding"} => t \in processed
    BY <1>4, <2>1, <2>5
  <2> QED
    BY <1>1, <1>4, <2>3, <2>4, <2>5, <2>6, ExtractorOrder
<1>6. CASE /\ \/ extractor' = [extractor EXCEPT ![w] =
                   [@ EXCEPT !.copy = CopyOf(t), !.pc = "converting"]]
              \/ ExtractorTo(w, "rereading")
           /\ UNCHANGED report
  <2>1. /\ extractor' = [extractor EXCEPT ![w] = extractor'[w]]
        /\ extractor'[w].pc # "idle"
        /\ extractor'[w].job = extractor[w].job
        /\ extractor'[w].copy.status \in {CopyOf(t).status, extractor[w].copy.status}
    BY <1>3, <1>6 DEF ExtractorTo, MetadataType, Extracting
  <2>2. report' = [report EXCEPT ![w] = report'[w]] /\ report'[w] = report[w]
    BY <1>6 DEF MetadataType
  <2> QED
    BY <1>1, <1>4, <2>1, <2>2, ExtractorOrder
<1>7. CASE LoadForExtract(w)
  BY <1>5, <1>6, <1>7 DEF LoadForExtract
<1>8. CASE Convert(w)
  BY <1>5, <1>6, <1>8 DEF Convert
<1>9. CASE Reread(w)
  BY <1>5, <1>9 DEF Reread
<1> QED
  BY <1>7, <1>8, <1>9

(* Metadata is written, then reported; or the handler ends.                *)
LEMMA WritingOrder ==
  ASSUME MetadataType, ReportOrder, NEW w \in Extractors,
         \/ SaveMetadata(w) \/ SaveFailure(w) \/ FinishExtract(w)
         \/ ExtractStoreError(w) \/ ExtractorDies(w)
  PROVE  ReportOrder'
<1> DEFINE t == TaskOf(extractor[w].job)
<1>1. UNCHANGED <<scheduler, deliver, courier>>
  BY DEF SaveMetadata, SaveFailure, FinishExtract, ExtractStoreError, ExtractorDies,
         postVars
<1>2. extractor[w].pc # "idle"
  BY DEF SaveMetadata, SaveFailure, FinishExtract, ExtractStoreError, ExtractorDies,
         ExtractorAt
<1>3. extractor[w] \in Extracting /\ t \in Tasks /\ w \in Callers
  BY <1>2, BusyExtractor DEF Callers
<1>4. UNCHANGED <<metadata, processed>> \/ \E status \in MetadataStatus : Save(w, status)
  BY DEF SaveMetadata, SaveFailure, FinishExtract, ExtractStoreError, ExtractorDies,
         docVars, history, MetadataStatus
<1>5. /\ processed \subseteq processed'
      /\ \A u \in Tasks : metadata'[u].status = "ready" => u \in processed'
  BY <1>3, <1>4 DEF Save, ReportOrder, ReadyIsProcessed, MetadataType
<1>6. extractor[w].copy.status = "ready" => t \in processed
  BY <1>2 DEF ReportOrder, CopiesAreProcessed
<1>7. CASE \E queue : ExtractEnds(w, queue)
  <2>1. /\ extractor' = [extractor EXCEPT ![w] = extractor'[w]]
        /\ report' = [report EXCEPT ![w] = report'[w]]
        /\ extractor'[w].pc = "idle"
        /\ report'[w] = "none"
    BY <1>3, <1>7 DEF ExtractEnds, ReportTo, Idle, MetadataType
  <2> QED
    BY <1>1, <1>5, <2>1, ExtractorOrder
<1>8. CASE \E block \in Blocks : StartReport(w, block) /\ t \in processed'
  <2>1. PICK block \in Blocks : StartReport(w, block) /\ t \in processed'
    BY <1>8
  <2>2. /\ extractor' = [extractor EXCEPT ![w] = extractor'[w]]
        /\ report' = [report EXCEPT ![w] = report'[w]]
        /\ extractor'[w].pc = "reporting"
        /\ extractor'[w].job = extractor[w].job
    BY <1>3, <2>1 DEF StartReport, ReportTo, MetadataType, Extracting
  <2> QED
    BY <1>1, <1>5, <2>1, <2>2, ExtractorOrder
<1>9. CASE ExtractorTo(w, "failing") /\ (report' = report \/ ReportTo(w, "none"))
  <2>1. /\ extractor' = [extractor EXCEPT ![w] = extractor'[w]]
        /\ extractor'[w].pc = "failing"
        /\ extractor'[w].job = extractor[w].job
        /\ extractor'[w].copy = extractor[w].copy
    BY <1>3, <1>9 DEF ExtractorTo, MetadataType, Extracting
  <2>2. report' = [report EXCEPT ![w] = report'[w]] /\ report'[w] \in {report[w], "none"}
    BY <1>3, <1>9 DEF ReportTo, MetadataType
  <2>3. report[w] \in {"reading", "adding"} => t \in processed
    BY DEF ReportOrder, ReportsAreProcessed
  <2> QED
    BY <1>1, <1>5, <1>6, <2>1, <2>2, <2>3, ExtractorOrder
<1>10. CASE SaveMetadata(w)
  BY <1>8, <1>10 DEF SaveMetadata, Save, Blocks
<1>11. CASE SaveFailure(w)
  BY <1>7, <1>8, <1>11 DEF SaveFailure, ExtractThrows, Save, Blocks
<1>12. CASE FinishExtract(w)
  BY <1>7, <1>9, <1>12 DEF FinishExtract, ExtractThrows, ExtractReturns
<1>13. CASE ExtractStoreError(w)
  BY <1>7, <1>9, <1>13 DEF ExtractStoreError, ExtractThrows
<1>14. CASE ExtractorDies(w)
  <2>1. ExtractEnds(w, extract)
    BY <1>14 DEF ExtractorDies, ExtractEnds
  <2> QED
    BY <1>7, <2>1
<1> QED
  BY <1>10, <1>11, <1>12, <1>13, <1>14

(* A job is taken by an idle extractor, or its handler timed out.          *)
LEMMA ExtractQueueOrder ==
  ASSUME MetadataType, ReportOrder, NEW j \in JobIds,
         ExtractQueueMoves(j) \/ TimeOutExtract(j)
  PROVE  ReportOrder'
<1>1. UNCHANGED <<metadata, scheduler, report, deliver, courier, processed>>
  BY DEF ExtractQueueMoves, TakeExtract, RequeueExtract, TimeOutExtract,
         docVars, postVars, history
<1>2. CASE \E w \in Extractors : TakeExtract(w, j)
  <2>1. PICK w \in Extractors : TakeExtract(w, j)
    BY <1>2
  <2>2. /\ extractor' = [extractor EXCEPT ![w] = extractor'[w]]
        /\ extractor'[w].copy.status # "ready"
    BY <2>1 DEF TakeExtract, MetadataType, NoCopy
  <2>3. report[w] \notin {"reading", "adding"}
    BY <2>1 DEF TakeExtract, ExtractorAt, ReportOrder, ReportsAreProcessed
  <2>4. report' = [report EXCEPT ![w] = report'[w]]
    BY <1>1 DEF MetadataType
  <2>5. \A t \in Tasks : metadata'[t].status = "ready" => t \in processed'
    BY <1>1 DEF ReportOrder, ReadyIsProcessed
  <2> QED
    BY <1>1, <2>2, <2>3, <2>4, <2>5, ExtractorOrder
<1>3. CASE TimeOutExtract(j)
  <2>1. ASSUME NEW w \in Extractors
        PROVE  /\ extractor'[w].pc = extractor[w].pc
               /\ extractor[w].pc # "idle" => /\ extractor'[w].job = extractor[w].job
                                              /\ extractor'[w].copy = extractor[w].copy
    <3>1. extractor'[w] = GivenUp(extractor[w], j)
      BY <1>3 DEF TimeOutExtract
    <3>2. CASE extractor[w].pc = "idle"
      BY <3>1, <3>2 DEF GivenUp, Holds, Extraction, ExtractorPc, Idle, MetadataType
    <3>3. CASE extractor[w].pc # "idle"
      <4>1. extractor[w] \in Extracting
        BY <3>3, BusyExtractor
      <4> QED
        BY <4>1, <3>1 DEF GivenUp, Extracting
    <3> QED
      BY <3>2, <3>3
  <2> QED
    BY <1>1, <2>1
       DEF ReportOrder, ReadyIsProcessed, CopiesAreProcessed, ReportsAreProcessed,
           SchedulersAreSilent, QueuedIsProcessed, ProcessedBeforeReport
<1>4. CASE RequeueExtract(j)
  BY <1>1, <1>4, OrderKept DEF RequeueExtract
<1> QED
  BY <1>2, <1>3, <1>4 DEF ExtractQueueMoves

(* What an operation does to the jobs that are and are not there.          *)
LEMMA JobsAppear ==
  ASSUME NEW queue \in [JobIds -> Job], NEW j \in JobIds, NEW limit
  PROVE  /\ \A k \in JobIds : Completed(queue, j)[k] # NoJob => queue[k] # NoJob
         /\ \A k \in JobIds : k # j =>
              /\ Added(queue, j)[k] = queue[k]
              /\ Taken(queue, j)[k] = queue[k]
              /\ Promoted(queue, j)[k] = queue[k]
              /\ Stalled(queue, j)[k] = queue[k]
              /\ AttemptFailed(queue, j, limit)[k] = queue[k]
              /\ Completed(queue, j)[k] = queue[k]
BY DEF Added, Taken, Promoted, Stalled, AttemptFailed, Completed

(* task-callback-enqueue.service.ts: only extractors add a job.            *)
LEMMA ReportingOrder ==
  ASSUME MetadataType, CallbackType, ReportOrder, NEW c \in Callers, ReportMoves(c)
  PROVE  ReportOrder'
<1>1. UNCHANGED <<metadata, extractor, scheduler, courier, processed>>
  BY DEF ReportMoves, ReadForReport, AddReport, docVars, metaVars, postVars, history
<1>2. c \in Extractors /\ c \notin Schedulers /\ report[c] \in {"reading", "adding"}
  BY DeliveryAssumption
     DEF ReportMoves, ReadForReport, AddReport, ReportOrder, SchedulersAreSilent, Callers
<1>3. extractor[c].pc # "idle" /\ TaskAt(c) = TaskOf(extractor[c].job)
      /\ TaskAt(c) \in processed
  BY <1>2 DEF ReportOrder, ReportsAreProcessed, TaskAt
<1>4. TaskAt(c) \in Tasks
  BY <1>2, <1>3, BusyExtractor
<1>5. \A d \in Callers : d # c => report'[d] = report[d]
  BY DEF ReportMoves, ReadForReport, AddReport, ReportTo, MetadataType
<1>6. \A j \in JobIds : deliver'[j] # NoJob => deliver[j] # NoJob \/ TaskOf(j) = TaskAt(c)
  <2>1. CASE deliver' = deliver
    BY <2>1
  <2>2. CASE deliver' = Added(deliver, <<TaskAt(c), "auto">>)
    <3>1. <<TaskAt(c), "auto">> \in JobIds
      BY <1>4 DEF JobIds, Kinds
    <3>2. \A j \in JobIds : j # <<TaskAt(c), "auto">> => deliver'[j] = deliver[j]
      BY <2>2, <3>1, JobsAppear DEF CallbackType
    <3> QED
      BY <3>2 DEF TaskOf
  <2> QED
    BY <2>1, <2>2 DEF ReportMoves, ReadForReport, AddReport, postVars
<1> QED
  BY <1>1, <1>2, <1>3, <1>5, <1>6
     DEF ReportOrder, ReadyIsProcessed, CopiesAreProcessed, ReportsAreProcessed,
         SchedulersAreSilent, QueuedIsProcessed, ProcessedBeforeReport, Callers

(* callback.processor.ts: a courier has its job from the queue; without    *)
(* replays nothing else puts one there.                                    *)
LEMMA CourierOrder ==
  ASSUME CallbackType, ReportOrder, NEW j \in JobIds,
         UNCHANGED <<metadata, extractor, report, scheduler, processed>>,
         \A k \in JobIds : k # j /\ deliver'[k] # NoJob => deliver[k] # NoJob,
         TaskOf(j) \in processed,
         \A v \in Couriers :
           courier'[v] # Idle /\ courier'[v].job # j =>
             courier[v] # Idle /\ courier'[v].job = courier[v].job
  PROVE  ReportOrder'
BY DEF ReportOrder, ReadyIsProcessed, CopiesAreProcessed, ReportsAreProcessed,
       SchedulersAreSilent, QueuedIsProcessed, ProcessedBeforeReport

(* The steps of couriers and of their queue.                               *)
LEMMA DeliveryOrder ==
  ASSUME "replay" \notin Environment, CallbackType, ReportOrder,
         \/ \E w \in Couriers :
              CourierMoves(w) \/ DeliverStoreError(w) \/ CourierDies(w)
         \/ \E j \in JobIds : DeliverQueueMoves(j) \/ TimeOutDeliver(j)
         \/ \E t \in Tasks : ReplayCallback(t)
  PROVE  ReportOrder'
<1>1. CASE \E w \in Couriers :
             CourierMoves(w) \/ DeliverStoreError(w) \/ CourierDies(w)
  <2>1. PICK w \in Couriers : CourierMoves(w) \/ DeliverStoreError(w) \/ CourierDies(w)
    BY <1>1
  <2> DEFINE j == courier[w].job
  <2>2. UNCHANGED <<metadata, extractor, report, scheduler, processed>>
    BY <2>1
       DEF CourierMoves, Post, SaveDelivered, SaveUndelivered, DeliverStoreError,
           CourierDies, docVars, metaVars, history
  <2>3. courier[w].pc # "idle"
    BY <2>1
       DEF CourierMoves, Post, SaveDelivered, SaveUndelivered, DeliverStoreError,
           CourierDies, CourierAt
  <2>4. courier[w] \in Posting /\ j \in JobIds /\ courier[w] # Idle
    BY <2>3, BusyCourier DEF Idle
  <2>5. TaskOf(j) \in processed
    BY <2>4 DEF ReportOrder, ProcessedBeforeReport
  <2>6. \A k \in JobIds : k # j => deliver'[k] = deliver[k]
    <3>1. deliver' \in {deliver, Completed(deliver, j),
                        AttemptFailed(deliver, j, DeliverAttempts)}
      BY <2>1
         DEF CourierMoves, Post, SaveDelivered, SaveUndelivered, DeliverStoreError,
             CourierDies, DeliverThrows, Threw, Returned
    <3>2. \A k \in JobIds : k # j =>
            /\ Completed(deliver, j)[k] = deliver[k]
            /\ AttemptFailed(deliver, j, DeliverAttempts)[k] = deliver[k]
      BY <2>4, JobsAppear DEF CallbackType
    <3> QED
      BY <3>1, <3>2
  <2>7. \A v \in Couriers : courier'[v] # Idle =>
          courier[v] # Idle /\ courier'[v].job = courier[v].job
    <3>1. \/ courier' = [courier EXCEPT ![w] = Idle]
          \/ \E pc \in {"accepted", "refused"} :
               \/ courier' = [courier EXCEPT ![w] = [@ EXCEPT !.pc = pc, !.status = "open"]]
               \/ courier' = [courier EXCEPT ![w].pc = pc]
      BY <2>1
         DEF CourierMoves, Post, SaveDelivered, SaveUndelivered, DeliverStoreError,
             CourierDies, DeliverThrows, CourierTo
    <3>2. \A pc \in {"accepted", "refused"} :
            /\ [courier[w] EXCEPT !.pc = pc, !.status = "open"].job = j
            /\ [courier[w] EXCEPT !.pc = pc].job = j
      BY <2>4 DEF Posting
    <3>3. \A v \in Couriers : v # w => courier'[v] = courier[v]
      BY <3>1 DEF CallbackType
    <3>4. courier'[w] # Idle => courier'[w].job = j
      BY <3>1, <3>2 DEF CallbackType
    <3> QED
      BY <2>4, <3>3, <3>4
  <2> QED
    BY <2>2, <2>4, <2>5, <2>6, <2>7, CourierOrder
<1>2. CASE \E j \in JobIds : DeliverQueueMoves(j) \/ TimeOutDeliver(j)
  <2>1. PICK j \in JobIds : DeliverQueueMoves(j) \/ TimeOutDeliver(j)
    BY <1>2
  <2>2. UNCHANGED <<metadata, extractor, report, scheduler, processed>>
    BY <2>1 DEF DeliverQueueMoves, TakeDeliver, RequeueDeliver, TimeOutDeliver,
                docVars, metaVars, history
  <2>3. deliver[j].state \in {"waiting", "active", "delayed"}
    BY <2>1 DEF DeliverQueueMoves, TakeDeliver, RequeueDeliver, TimeOutDeliver
  <2>4. TaskOf(j) \in processed
    BY <2>3 DEF NoJob, ReportOrder, QueuedIsProcessed
  <2>5. \A k \in JobIds : k # j => deliver'[k] = deliver[k]
    <3>1. deliver' \in {Taken(deliver, j), Stalled(deliver, j), Promoted(deliver, j),
                        AttemptFailed(deliver, j, DeliverAttempts)}
      BY <2>1 DEF DeliverQueueMoves, TakeDeliver, RequeueDeliver, TimeOutDeliver
    <3>2. \A k \in JobIds : k # j =>
            /\ Taken(deliver, j)[k] = deliver[k]
            /\ Stalled(deliver, j)[k] = deliver[k]
            /\ Promoted(deliver, j)[k] = deliver[k]
            /\ AttemptFailed(deliver, j, DeliverAttempts)[k] = deliver[k]
      BY JobsAppear DEF CallbackType
    <3> QED
      BY <3>1, <3>2
  <2>6. \A v \in Couriers : courier'[v] # Idle =>
          courier'[v].job = j \/ (courier[v] # Idle /\ courier'[v].job = courier[v].job)
    <3>1. CASE TimeOutDeliver(j)
      <4> SUFFICES ASSUME NEW v \in Couriers, courier'[v] # Idle
                   PROVE  courier[v] # Idle /\ courier'[v].job = courier[v].job
        OBVIOUS
      <4>1. courier'[v] = GivenUp(courier[v], j)
        BY <3>1 DEF TimeOutDeliver
      <4>2. CASE courier[v] = Idle
        BY <4>1, <4>2 DEF GivenUp, Holds
      <4>3. CASE courier[v] # Idle
        <5>1. courier[v] \in Posting
          BY <4>3 DEF CallbackType, Delivery, Posting, Ends
        <5> QED
          BY <4>1, <4>3, <5>1 DEF GivenUp, Posting
      <4> QED
        BY <4>2, <4>3
    <3>2. CASE DeliverQueueMoves(j)
      <4>1. CASE RequeueDeliver(j)
        BY <4>1 DEF RequeueDeliver
      <4>2. CASE \E w \in Couriers : TakeDeliver(w, j)
        <5>1. PICK w \in Couriers : TakeDeliver(w, j)
          BY <4>2
        <5>2. courier'[w].job = j /\ \A v \in Couriers : v # w => courier'[v] = courier[v]
          BY <5>1 DEF TakeDeliver, CallbackType
        <5> QED
          BY <5>2
      <4> QED
        BY <3>2, <4>1, <4>2 DEF DeliverQueueMoves
    <3> QED
      BY <2>1, <3>1, <3>2
  <2> QED
    BY <2>2, <2>4, <2>5, <2>6, CourierOrder
<1> QED
  BY <1>1, <1>2 DEF ReplayCallback

(* resource-metadata.processor.ts:49: the client is told after the result  *)
(* was stored and read, however many jobs, workers and retries there are;  *)
(* a store that fails, or a replay, may send the report ahead.             *)
THEOREM ReportFollowsResult ==
  ASSUME Environment \cap {"storeError", "replay"} = {}
  PROVE  Spec => []ProcessedBeforeReport
<1> DEFINE IInv == DeliveryInv /\ MetadataType /\ ReportOrder
<1>1. Init => ReportOrder
  <2> SUFFICES ASSUME Init PROVE ReportOrder
    OBVIOUS
  <2>1. \A s \in Schedulers : report[s] = "none" /\ scheduler[s].pc = "idle"
    BY DEF Init, Callers, Idle
  <2>2. \A w \in Extractors : report[w] = "none" /\ extractor[w].pc = "idle"
    BY DEF Init, Callers, Idle
  <2> QED
    BY <2>1, <2>2
       DEF Init, ReportOrder, ReadyIsProcessed, CopiesAreProcessed, ReportsAreProcessed,
           SchedulersAreSilent, QueuedIsProcessed, ProcessedBeforeReport
<1>2. Init => IInv
  BY <1>1, DeliveryInvInit, MetadataTypeInit
<1>3. IInv /\ [Next]_vars => IInv'
  <2> SUFFICES ASSUME IInv, [Next]_vars PROVE ReportOrder'
    BY DeliveryStep, MetadataTypeStep
  <2>1. CallbackType /\ "storeError" \notin Environment /\ "replay" \notin Environment
    BY DEF DeliveryInv
  <2>2. CASE UNCHANGED vars
    BY <2>2, OrderKept DEF vars, docVars, metaVars, postVars, history
  <2>3. CASE \E s \in Schedulers :
               \/ \E t \in Tasks : TaskEnds(s, t) \/ CallAgain(s, t) \/ Refresh(s, t)
               \/ SchedulerMoves(s) \/ ScheduleStops(s)
    BY <2>1, <2>3, SchedulerOrder
  <2>4. CASE \E w \in Extractors :
               ExtractorMoves(w) \/ ExtractStoreError(w) \/ ExtractorDies(w)
    BY <2>4, ReadingOrder, WritingOrder DEF ExtractorMoves
  <2>5. CASE \E c \in Callers : ReportMoves(c)
    BY <2>1, <2>5, ReportingOrder
  <2>6. CASE \E j \in JobIds : ExtractQueueMoves(j) \/ TimeOutExtract(j)
    BY <2>6, ExtractQueueOrder
  <2> QED
    BY <2>1, <2>2, <2>3, <2>4, <2>5, <2>6, DeliveryOrder DEF Next
<1>4. IInv => ProcessedBeforeReport
  BY DEF ReportOrder
<1> QED
  BY <1>2, <1>3, <1>4, PTL DEF Spec

-----------------------------------------------------------------------------
(* Callbacks that were given up.  Without replays and timeouts a task has  *)
(* one callback job, an active one is in the hands of one courier, which   *)
(* knows how many attempts it has had.                                     *)

NoReplays == \A t \in Tasks : deliver[<<t, "extra">>] = NoJob

HandsHoldJobs ==
  \A w \in Couriers : courier[w] # Idle =>
    /\ courier[w].live
    /\ deliver[courier[w].job].state = "active"
    /\ courier[w].attempt = deliver[courier[w].job].attempts + 1

HandsDiffer ==
  \A v, w \in Couriers :
    courier[v] # Idle /\ courier[w] # Idle /\ courier[v].job = courier[w].job => v = w

GivenUpInv == NoReplays /\ HandsHoldJobs /\ HandsDiffer /\ GivenUpIsVisible

(* What a failed attempt, or a stall, makes of the job.                    *)
LEMMA JobAfter ==
  ASSUME NEW queue \in [JobIds -> Job], NEW j \in JobIds, NEW limit
  PROVE  /\ AttemptFailed(queue, j, limit)[j].state =
              IF queue[j].attempts + 1 < limit THEN "delayed" ELSE "failed"
         /\ Stalled(queue, j)[j].state =
              IF queue[j].stalls < MaxStalls THEN "waiting" ELSE "failed"
         /\ Stalled(queue, j)[j].stalls = queue[j].stalls + 1
         /\ Promoted(queue, j)[j].state = "waiting"
BY DEF AttemptFailed, Stalled, Promoted, Job

(* A job that is there is the task's only one.                             *)
LEMMA OneJob ==
  ASSUME NoReplays, NEW j \in JobIds, deliver[j] # NoJob
  PROVE  /\ j = <<TaskOf(j), "auto">>
         /\ \A t \in Tasks : <<t, "extra">> # j
         /\ \A t \in Tasks : t # TaskOf(j) => <<t, "auto">> # j
<1>1. j = <<j[1], j[2]>> /\ j[1] \in Tasks /\ j[2] \in Kinds
  BY DEF JobIds
<1>2. j[2] # "extra"
  BY <1>1 DEF NoReplays
<1> QED
  BY <1>1, <1>2 DEF TaskOf, Kinds

(* A job that no courier holds is added, taken back or handed on.          *)
LEMMA JobMoves ==
  ASSUME CallbackType, GivenUpInv, UNCHANGED <<callback, courier>>,
         NEW j \in JobIds, \A k \in JobIds : k # j => deliver'[k] = deliver[k],
         j = <<TaskOf(j), "auto">>,
         \A w \in Couriers : courier[w] # Idle => courier[w].job # j,
         deliver'[j].state = "failed" => Lost(deliver'[j])
  PROVE  GivenUpInv'
<1>1. NoReplays'
  <2>1. \A t \in Tasks : <<t, "extra">> \in JobIds /\ <<t, "extra">> # j
    BY DEF JobIds, Kinds
  <2> QED
    BY <2>1 DEF GivenUpInv, NoReplays
<1>2. HandsHoldJobs' /\ HandsDiffer'
  <2>1. \A w \in Couriers : courier[w] # Idle => deliver'[courier[w].job] = deliver[courier[w].job]
    <3> SUFFICES ASSUME NEW w \in Couriers, courier[w] # Idle
                 PROVE  deliver'[courier[w].job] = deliver[courier[w].job]
      OBVIOUS
    <3>1. courier[w].job \in JobIds
      BY DEF CallbackType, Delivery
    <3> QED
      BY <3>1
  <2> QED
    BY <2>1 DEF GivenUpInv, HandsHoldJobs, HandsDiffer
<1>3. GivenUpIsVisible'
  <2>1. \A t \in Tasks : <<t, "auto">> \in JobIds
    BY DEF JobIds, Kinds
  <2> QED
    BY <2>1 DEF GivenUpInv, GivenUpIsVisible
<1> QED
  BY <1>1, <1>2, <1>3 DEF GivenUpInv

(* The queue callback: added, taken, found stalled, promoted.              *)
LEMMA QueueVisible ==
  ASSUME CallbackType, GivenUpInv, MetadataType, "overrun" \notin Environment,
         \/ \E c \in Callers : ReportMoves(c)
         \/ \E j \in JobIds : RequeueDeliver(j)
  PROVE  GivenUpInv'
<1>1. UNCHANGED <<callback, courier>>
  BY DEF ReportMoves, ReadForReport, AddReport, RequeueDeliver, docVars, postVars
<1>2. CASE UNCHANGED deliver
  BY <1>1, <1>2
     DEF GivenUpInv, NoReplays, HandsHoldJobs, HandsDiffer, GivenUpIsVisible
<1>3. ASSUME NEW t, deliver' = Added(deliver, <<t, "auto">>)
      PROVE  GivenUpInv'
  <2> DEFINE j == <<t, "auto">>
  <2>1. CASE t \in Tasks /\ deliver[j] = NoJob
    <3>1. j \in JobIds /\ j = <<TaskOf(j), "auto">>
      BY <2>1 DEF JobIds, Kinds, TaskOf
    <3>2. deliver' = [deliver EXCEPT ![j] = [NoJob EXCEPT !.state = "waiting"]]
      BY <1>3, <2>1, <3>1 DEF Added, CallbackType
    <3>3. /\ \A k \in JobIds : k # j => deliver'[k] = deliver[k]
          /\ deliver'[j].state = "waiting"
      BY <3>1, <3>2 DEF NoJob, CallbackType
    <3>4. \A w \in Couriers : courier[w] # Idle => courier[w].job # j
      BY <2>1 DEF NoJob, GivenUpInv, HandsHoldJobs
    <3> QED
      BY <1>1, <3>1, <3>3, <3>4, JobMoves
  <2>2. CASE ~(t \in Tasks /\ deliver[j] = NoJob)
    <3>1. deliver' = deliver
      BY <1>3, <2>2 DEF Added, CallbackType, JobIds
    <3> QED
      BY <1>2, <3>1
  <2> QED
    BY <2>1, <2>2
<1>4. ASSUME NEW j \in JobIds, RequeueDeliver(j)
      PROVE  GivenUpInv'
  <2>1. deliver[j].state \in {"active", "delayed"}
    BY <1>4 DEF RequeueDeliver
  <2>2. j = <<TaskOf(j), "auto">>
    BY <2>1, OneJob DEF NoJob, GivenUpInv
  <2>3. \A w \in Couriers : courier[w] # Idle => courier[w].job # j
    BY <1>4 DEF RequeueDeliver, Holds, GivenUpInv, HandsHoldJobs
  <2>4. deliver[j] \in Job
    BY DEF CallbackType
  <2>5. CASE deliver' = Promoted(deliver, j)
    <3>1. deliver'[j].state = "waiting" /\ \A k \in JobIds : k # j => deliver'[k] = deliver[k]
      BY <2>5, JobAfter, JobsAppear DEF CallbackType
    <3> QED
      BY <1>1, <2>2, <2>3, <3>1, JobMoves
  <2>6. CASE deliver' = Stalled(deliver, j)
    <3>1. /\ deliver'[j].state = IF deliver[j].stalls < MaxStalls THEN "waiting" ELSE "failed"
          /\ deliver'[j].stalls = deliver[j].stalls + 1
          /\ \A k \in JobIds : k # j => deliver'[k] = deliver[k]
      BY <2>6, JobAfter, JobsAppear DEF CallbackType
    <3>2. deliver'[j].state = "failed" => Lost(deliver'[j])
      BY <2>4, <3>1, DeliveryAssumption DEF Lost, Job
    <3> QED
      BY <1>1, <2>2, <2>3, <3>1, <3>2, JobMoves
  <2> QED
    BY <1>4, <2>5, <2>6 DEF RequeueDeliver
<1> QED
  BY <1>2, <1>3, <1>4 DEF ReportMoves, ReadForReport, AddReport, postVars

(* A job is taken by an idle courier, which counts the attempt.            *)
LEMMA TakenVisible ==
  ASSUME CallbackType, GivenUpInv, NEW w \in Couriers, NEW j \in JobIds, TakeDeliver(w, j)
  PROVE  GivenUpInv'
<1>1. deliver[j].state = "waiting" /\ deliver[j] \in Job /\ callback' = callback
  BY DEF TakeDeliver, CallbackType, docVars
<1>2. j = <<TaskOf(j), "auto">> /\ \A t \in Tasks : <<t, "extra">> # j
  BY <1>1, OneJob DEF NoJob, GivenUpInv
<1>3. deliver' = [deliver EXCEPT ![j].state = "active"]
  BY DEF TakeDeliver, Taken
<1>4. /\ \A k \in JobIds : k # j => deliver'[k] = deliver[k]
      /\ deliver'[j].state = "active" /\ deliver'[j].attempts = deliver[j].attempts
  BY <1>1, <1>3 DEF CallbackType, Job
<1>5. \A v \in Couriers : courier[v] # Idle => courier[v].job \in JobIds \ {j}
  BY <1>1 DEF CallbackType, Delivery, GivenUpInv, HandsHoldJobs
<1>6. /\ courier'[w].job = j /\ courier'[w].live
      /\ courier'[w].attempt = deliver[j].attempts + 1
      /\ \A v \in Couriers : v # w => courier'[v] = courier[v]
  BY DEF TakeDeliver, CallbackType
<1>7. NoReplays'
  BY <1>2, <1>4 DEF GivenUpInv, NoReplays, JobIds, Kinds
<1>8. HandsHoldJobs'
  BY <1>4, <1>5, <1>6 DEF GivenUpInv, HandsHoldJobs
<1>9. HandsDiffer'
  BY <1>5, <1>6 DEF GivenUpInv, HandsDiffer
<1>10. GivenUpIsVisible'
  BY <1>1, <1>2, <1>4 DEF GivenUpInv, GivenUpIsVisible, JobIds, Kinds
<1> QED
  BY <1>7, <1>8, <1>9, <1>10 DEF GivenUpInv

(* The end of a courier: its job is done, or was not and is marked so.     *)
LEMMA CourierLeaves ==
  ASSUME CallbackType, GivenUpInv, NEW w \in Couriers, courier[w] # Idle,
         courier' = [courier EXCEPT ![w] = Idle],
         \A k \in JobIds : k # courier[w].job => deliver'[k] = deliver[k],
         \A t \in Tasks : t # TaskOf(courier[w].job) => callback'[t] = callback[t],
         deliver'[courier[w].job].state = "failed" =>
           callback'[TaskOf(courier[w].job)] \in {"SUCCESS", "DEAD_LETTER"}
  PROVE  GivenUpInv'
<1> DEFINE j == courier[w].job
<1>1. j \in JobIds /\ deliver[j].state = "active"
  BY DEF CallbackType, Delivery, GivenUpInv, HandsHoldJobs
<1>2. /\ j = <<TaskOf(j), "auto">>
      /\ \A t \in Tasks : <<t, "extra">> # j
      /\ \A t \in Tasks : t # TaskOf(j) => <<t, "auto">> # j
  BY <1>1, OneJob DEF NoJob, GivenUpInv
<1>3. \A v \in Couriers : courier'[v] # Idle =>
        v # w /\ courier'[v] = courier[v] /\ courier[v].job \in JobIds \ {j}
  BY DEF CallbackType, Delivery, GivenUpInv, HandsDiffer
<1>4. NoReplays'
  BY <1>2 DEF GivenUpInv, NoReplays, JobIds, Kinds
<1>5. HandsHoldJobs' /\ HandsDiffer'
  BY <1>3 DEF GivenUpInv, HandsHoldJobs, HandsDiffer
<1>6. GivenUpIsVisible'
  BY <1>2 DEF GivenUpInv, GivenUpIsVisible, JobIds, Kinds
<1> QED
  BY <1>4, <1>5, <1>6 DEF GivenUpInv

(* callback.processor.ts:100-136: SUCCESS, or the failure of the attempt,  *)
(* is saved before Bull learns of it.                                      *)
LEMMA SavedVisible ==
  ASSUME CallbackType, GivenUpInv, MaxRetries <= DeliverAttempts, NEW w \in Couriers,
         SaveDelivered(w) \/ SaveUndelivered(w)
  PROVE  GivenUpInv'
<1> DEFINE j == courier[w].job
           t == TaskOf(j)
<1>1. courier[w] # Idle
  BY DEF SaveDelivered, SaveUndelivered, CourierAt, Idle
<1>2. /\ j \in JobIds /\ t \in Tasks /\ deliver[j] \in Job
      /\ courier[w].live /\ courier[w].attempt = deliver[j].attempts + 1
  BY <1>1 DEF CallbackType, Delivery, JobIds, TaskOf, GivenUpInv, HandsHoldJobs
<1>3. courier' = [courier EXCEPT ![w] = Idle]
  BY DEF SaveDelivered, SaveUndelivered, DeliverThrows
<1>4. \A u \in Tasks : u # t => callback'[u] = callback[u]
  BY DEF SaveDelivered, SaveUndelivered, CallbackType
<1>5. CASE SaveDelivered(w)
  <2>1. deliver' = [deliver EXCEPT ![j] = NoJob]
    BY <1>2, <1>5 DEF SaveDelivered, Returned, Completed
  <2>2. /\ deliver'[j].state = "absent"
        /\ \A k \in JobIds : k # j => deliver'[k] = deliver[k]
    BY <1>2, <2>1 DEF NoJob, CallbackType
  <2> QED
    BY <1>1, <1>3, <1>4, <2>2, CourierLeaves
<1>6. CASE SaveUndelivered(w)
  <2>1. deliver' = AttemptFailed(deliver, j, DeliverAttempts)
    BY <1>2, <1>6 DEF SaveUndelivered, DeliverThrows, Threw
  <2>2. /\ deliver'[j].state = IF deliver[j].attempts + 1 < DeliverAttempts
                               THEN "delayed" ELSE "failed"
        /\ \A k \in JobIds : k # j => deliver'[k] = deliver[k]
    <3>1. deliver \in [JobIds -> Job]
      BY DEF CallbackType
    <3> QED
      BY <1>2, <2>1, <3>1, JobAfter, JobsAppear
  <2>3. callback'[t] = Undelivered(courier[w].attempt)
    BY <1>2, <1>6 DEF SaveUndelivered, CallbackType
  <2>4. deliver'[j].state = "failed" => callback'[t] = "DEAD_LETTER"
    BY <1>2, <2>2, <2>3, DeliveryAssumption DEF Undelivered, Job
  <2> QED
    BY <1>1, <1>3, <1>4, <2>2, <2>4, CourierLeaves
<1> QED
  BY <1>5, <1>6

(* A POST, or the death of a courier: no job is touched.                   *)
LEMMA PostVisible ==
  ASSUME CallbackType, GivenUpInv, NEW w \in Couriers, Post(w) \/ CourierDies(w)
  PROVE  GivenUpInv'
<1>1. UNCHANGED <<callback, deliver>>
  BY DEF Post, CourierDies, docVars
<1>2. courier[w].pc # "idle"
  BY DEF Post, CourierDies, CourierAt
<1>3. courier[w] \in Posting /\ courier[w] # Idle
  BY <1>2, BusyCourier DEF Idle
<1>4. \A v \in Couriers : courier'[v] # Idle =>
        /\ courier[v] # Idle
        /\ courier'[v].job = courier[v].job
        /\ courier'[v].live = courier[v].live
        /\ courier'[v].attempt = courier[v].attempt
  <2>1. CASE courier' = [courier EXCEPT ![w] = Idle]
    BY <2>1 DEF CallbackType
  <2>2. CASE \E pc \in {"accepted", "refused"} :
               courier' = [courier EXCEPT ![w] = [@ EXCEPT !.pc = pc, !.status = "open"]]
    BY <1>3, <2>2 DEF CallbackType, Posting
  <2> QED
    BY <2>1, <2>2 DEF Post, CourierDies
<1> QED
  BY <1>1, <1>4 DEF GivenUpInv, NoReplays, HandsHoldJobs, HandsDiffer, GivenUpIsVisible

(* callback.processor.ts:124, queue.module.ts: a callback whose attempts   *)
(* are used up is a dead letter for everybody to see, though workers die,  *)
(* if maxRetries is at most the attempts of the queue; a timeout of Bull,  *)
(* a store that fails in the catch block or a replay may hide it.          *)
THEOREM GivenUpIsSeen ==
  ASSUME Environment \cap {"storeError", "overrun", "replay"} = {},
         MaxRetries <= DeliverAttempts
  PROVE  Spec => []GivenUpIsVisible
<1> DEFINE IInv == DeliveryInv /\ MetadataType /\ GivenUpInv
<1>1. Init => GivenUpInv
  <2> SUFFICES ASSUME Init PROVE GivenUpInv
    OBVIOUS
  <2>1. \A t \in Tasks : /\ <<t, "auto">> \in JobIds /\ <<t, "extra">> \in JobIds
                         /\ deliver[<<t, "auto">>] = NoJob /\ deliver[<<t, "extra">>] = NoJob
    BY DEF Init, JobIds, Kinds
  <2>3. NoJob.state = "absent"
    BY DEF NoJob
  <2>2. \A w \in Couriers : courier[w] = Idle
    BY DEF Init
  <2> QED
    BY <2>1, <2>2, <2>3
       DEF GivenUpInv, NoReplays, HandsHoldJobs, HandsDiffer, GivenUpIsVisible
<1>2. Init => IInv
  BY <1>1, DeliveryInvInit, MetadataTypeInit
<1>3. IInv /\ [Next]_vars => IInv'
  <2> SUFFICES ASSUME IInv, [Next]_vars PROVE GivenUpInv'
    BY DeliveryStep, MetadataTypeStep
  <2>1. CallbackType
    BY DEF DeliveryInv
  <2>2. CASE UNCHANGED <<callback, deliver, courier>>
    BY <2>2 DEF GivenUpInv, NoReplays, HandsHoldJobs, HandsDiffer, GivenUpIsVisible
  <2>3. CASE UNCHANGED vars
    BY <2>2, <2>3 DEF vars, docVars, postVars
  <2>4. CASE \E s \in Schedulers :
               \/ \E t \in Tasks : TaskEnds(s, t) \/ CallAgain(s, t) \/ Refresh(s, t)
               \/ SchedulerMoves(s) \/ ScheduleStops(s)
    BY <2>2, <2>4
       DEF TaskEnds, CallAgain, Refresh, SchedulerMoves, LoadForSchedule, MarkPending,
           AddExtract, Excuse, FinishSchedule, ScheduleStops, docVars, postVars
  <2>5. CASE \E w \in Extractors :
               ExtractorMoves(w) \/ ExtractStoreError(w) \/ ExtractorDies(w)
    BY <2>2, <2>5
       DEF ExtractorMoves, LoadForExtract, Convert, Reread, SaveMetadata, SaveFailure,
           FinishExtract, ExtractStoreError, ExtractorDies, docVars, postVars
  <2>6. CASE \E j \in JobIds : ExtractQueueMoves(j) \/ TimeOutExtract(j)
    BY <2>2, <2>6
       DEF ExtractQueueMoves, TakeExtract, RequeueExtract, TimeOutExtract, docVars, postVars
  <2>7. CASE \E w \in Couriers :
               CourierMoves(w) \/ DeliverStoreError(w) \/ CourierDies(w)
    BY <2>1, <2>7, PostVisible, SavedVisible DEF CourierMoves, DeliverStoreError
  <2>8. CASE \E c \in Callers : ReportMoves(c)
    BY <2>1, <2>8, QueueVisible
  <2>9. CASE \E j \in JobIds : DeliverQueueMoves(j) \/ TimeOutDeliver(j)
    BY <2>1, <2>9, QueueVisible, TakenVisible DEF DeliverQueueMoves, TimeOutDeliver
  <2> QED
    BY <2>3, <2>4, <2>5, <2>6, <2>7, <2>8, <2>9 DEF Next, ReplayCallback
<1>4. IInv => GivenUpIsVisible
  BY DEF GivenUpInv
<1> QED
  BY <1>2, <1>3, <1>4, PTL DEF Spec
=============================================================================
