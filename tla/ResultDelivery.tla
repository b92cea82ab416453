--------------------------- MODULE ResultDelivery ---------------------------
(***************************************************************************)
(* What happens to a task after its end: scheduleForTask queues a metadata *)
(* job, the worker stores the result, reads the media's metadata and then  *)
(* queues the callback, and the callback processor POSTs it to the client. *)
(* Both queues are Bull's; jobs have fixed ids, so that a task has at most *)
(* one of each, and a job that failed for good keeps its id.  Every step   *)
(* is one await of one handler.                                            *)
(***************************************************************************)
EXTENDS BullJobs

CONSTANTS
  Tasks,
  Schedulers,       \* calls of scheduleForTask in flight, in any process
  Extractors,       \* worker slots of the queue resource-metadata
  Couriers,         \* worker slots of the queue callback
  WithCallback,     \* the tasks created with a callbackUrl
  ExtractAttempts,  \* attempts of a metadata job
  DeliverAttempts,  \* attempts of a callback job
  MaxRetries,       \* config.callback.maxRetries
  MaxCrashes,       \* bound: worker processes that die
  MaxRequests,      \* bound: requests of administrators
  Environment       \* what may happen besides the normal operations

(* crash: a worker dies between two awaits; callerCrash: the process that  *)
(* called scheduleForTask does.  storeError: MongoDB or Redis throws.      *)
(* overrun: Bull times out a handler that is still running.  refresh and   *)
(* replay: the administrator's operations on a task.                       *)
ASSUME DeliveryAssumption ==
  /\ Environment \subseteq
       {"crash", "callerCrash", "storeError", "overrun", "refresh", "replay"}
  /\ {ExtractAttempts, DeliverAttempts, MaxRetries} \subseteq Nat \ {0}
  /\ {MaxStalls, MaxCrashes, MaxRequests} \subseteq Nat
  /\ Schedulers \cap Extractors = {}

VARIABLES
  end,        \* end[t] : how t ended, "open" before
  payload,    \* payload[t] : whose URLs t's payloads hold
  metadata,   \* metadata[t] : resourceMetadataStatus and -Fingerprint
  callback,   \* callback[t] : callback.status
  extract,    \* extract[j] : the metadata jobs
  deliver,    \* deliver[j] : the callback jobs
  scheduler,  \* scheduler[s] : a call of scheduleForTask
  extractor,  \* extractor[w] : a call of handleExtract
  courier,    \* courier[w] : a call of handleCallback
  report,     \* report[c] : the call of enqueueForTerminalTask c is in
  crashes,    \* worker processes that died so far
  requests,   \* requests of administrators so far
  processed,  \* history: a metadata job of t got as far as it could
  acked       \* history: the statuses of t the client acknowledged

docVars == <<end, payload, metadata, callback>>
metaVars == <<extract, extractor>>
postVars == <<deliver, courier>>
bounds == <<crashes, requests>>
history == <<bounds, processed, acked>>
vars == <<docVars, metaVars, postVars, scheduler, report, history>>

Failures == {"FAILED", "TIMEOUT"}
Reported == {"SUCCESS", "CANCELLED"}
Urls == {"none", "provider", "own"}

(* The fingerprint is a digest of the URLs in the payloads *)
MetadataStatus == {"none", "pending", "ready", "failed", "skipped"}
Metadata == [status : MetadataStatus, fingerprint : Urls]

CallbackStatus == {"PENDING", "SUCCESS", "FAILED", "DEAD_LETTER"}

(* "auto" has the id made of the task's; "extra" jobs, of an administrator, *)
(* have ids of their own, of which one at a time is modelled.               *)
Kinds == {"auto", "extra"}
JobIds == Tasks \X Kinds
TaskOf(j) == j[1]
KindOf(j) == j[2]

-----------------------------------------------------------------------------
(* A running handler is live while Bull waits for it: one that Bull timed  *)
(* out runs on, and its end changes nothing in the queue.                  *)
Idle == [pc |-> "idle"]

Holds(h, j) == h # Idle /\ h.job = j /\ h.live

Returned(queue, h) == IF h.live THEN Completed(queue, h.job) ELSE queue
Threw(queue, h, limit) == IF h.live THEN AttemptFailed(queue, h.job, limit) ELSE queue
GivenUp(h, j) == IF Holds(h, j) THEN [h EXCEPT !.live = FALSE] ELSE h

-----------------------------------------------------------------------------
(* enqueueForTerminalTask, the last call of a scheduler or an extractor *)

Callers == Schedulers \cup Extractors
ReportStep == {"none", "reading", "adding", "returned", "threw"}

TaskAt(c) == IF c \in Schedulers THEN scheduler[c].task ELSE TaskOf(extractor[c].job)

ReportTo(c, step) == report' = [report EXCEPT ![c] = step]

Reportable(t) ==
  t \in WithCallback /\ end[t] \in Reported /\ callback[t] # "SUCCESS"

ReadForReport(c) ==
  /\ report[c] = "reading"
  /\ \/ ReportTo(c, IF Reportable(TaskAt(c)) THEN "adding" ELSE "returned")
     \/ "storeError" \in Environment /\ ReportTo(c, "threw")
  /\ UNCHANGED <<docVars, metaVars, postVars, scheduler, history>>

(* A failure to add the job is only logged *)
AddReport(c) ==
  /\ report[c] = "adding"
  /\ \/ deliver' = Added(deliver, <<TaskAt(c), "auto">>)
     \/ "storeError" \in Environment /\ UNCHANGED deliver
  /\ ReportTo(c, "returned")
  /\ UNCHANGED <<docVars, metaVars, courier, scheduler, history>>

-----------------------------------------------------------------------------
(* scheduleForTask *)

SchedulerPc == {"loading", "marking", "adding", "excusing", "reporting"}
Schedule == {Idle} \cup [pc : SchedulerPc, task : Tasks, kind : Kinds]

SchedulerAt(s, pc) == scheduler[s].pc = pc
SchedulerTo(s, pc) == scheduler' = [scheduler EXCEPT ![s].pc = pc]
SchedulerDone(s) == scheduler' = [scheduler EXCEPT ![s] = Idle]

Calls(s, t, kind) ==
  scheduler' = [scheduler EXCEPT ![s] = [pc |-> "loading", task |-> t, kind |-> kind]]

(* The handler that ends a task calls scheduleForTask next.  No handler    *)
(* ends a task twice, or otherwise (TaskLifecycle, StatusOnlyAdvances).    *)
TaskEnds(s, t) ==
  /\ SchedulerAt(s, "idle")
  /\ end[t] = "open"
  /\ \E e \in Reported \cup Failures : end' = [end EXCEPT ![t] = e]
  /\ Calls(s, t, "auto")
  /\ UNCHANGED <<payload, metadata, callback, metaVars, postVars, report, history>>

(* A handler that came too late to end the task calls it all the same, so  *)
(* does the administrator's page of an ended task that has no metadata.    *)
(* Called for an open task it returns.                                     *)
CallAgain(s, t) ==
  /\ SchedulerAt(s, "idle")
  /\ end[t] # "open"
  /\ Calls(s, t, "auto")
  /\ UNCHANGED <<docVars, metaVars, postVars, report, history>>

(* The administrator's page with refresh=1 forces a new job *)
Refresh(s, t) ==
  /\ "refresh" \in Environment /\ requests < MaxRequests
  /\ SchedulerAt(s, "idle")
  /\ end[t] # "open"
  /\ Calls(s, t, "extra")
  /\ requests' = requests + 1
  /\ UNCHANGED <<docVars, metaVars, postVars, report, crashes, processed, acked>>

UpToDate(t) ==
  metadata[t].status = "ready" /\ metadata[t].fingerprint = payload[t]

LoadForSchedule(s) ==
  LET t == scheduler[s].task IN
  /\ SchedulerAt(s, "loading")
  /\ \/ /\ scheduler[s].kind = "auto"
        /\ UpToDate(t) \/ metadata[t].status = "pending"
        /\ SchedulerDone(s)
     \/ /\ scheduler[s].kind = "extra" \/ ~(UpToDate(t) \/ metadata[t].status = "pending")
        /\ SchedulerTo(s, "marking")
  /\ UNCHANGED <<docVars, metaVars, postVars, report, history>>

MarkPending(s) ==
  /\ SchedulerAt(s, "marking")
  /\ metadata' = [metadata EXCEPT ![scheduler[s].task].status = "pending"]
  /\ SchedulerTo(s, "adding")
  /\ UNCHANGED <<end, payload, callback, metaVars, postVars, report, history>>

(* Mutant of AddExtract: the client is told without waiting for the job *)
AddExtractReporting(s) ==
  /\ SchedulerAt(s, "adding")
  /\ extract' = Added(extract, <<scheduler[s].task, scheduler[s].kind>>)
  /\ SchedulerTo(s, "reporting")
  /\ ReportTo(s, "reading")
  /\ UNCHANGED <<docVars, extractor, postVars, history>>

AddExtract(s) ==
  /\ SchedulerAt(s, "adding")
  /\ \/ /\ extract' = Added(extract, <<scheduler[s].task, scheduler[s].kind>>)
        /\ SchedulerDone(s)
     \/ /\ "storeError" \in Environment
        /\ SchedulerTo(s, "excusing")
        /\ UNCHANGED extract
  /\ UNCHANGED <<docVars, extractor, postVars, report, history>>

(* The job could not be added: the callback goes out without it *)
Excuse(s) ==
  /\ SchedulerAt(s, "excusing")
  /\ metadata' = [metadata EXCEPT ![scheduler[s].task].status = "failed"]
  /\ SchedulerTo(s, "reporting")
  /\ ReportTo(s, "reading")
  /\ UNCHANGED <<end, payload, callback, metaVars, postVars, history>>

FinishSchedule(s) ==
  /\ SchedulerAt(s, "reporting")
  /\ report[s] \in {"returned", "threw"}
  /\ SchedulerDone(s)
  /\ ReportTo(s, "none")
  /\ UNCHANGED <<docVars, metaVars, postVars, history>>

(* Nobody looks at an exception of scheduleForTask *)
ScheduleStops(s) ==
  /\ \/ "callerCrash" \in Environment /\ ~SchedulerAt(s, "idle")
     \/ "storeError" \in Environment /\ scheduler[s].pc \in {"loading", "marking", "excusing"}
  /\ SchedulerDone(s)
  /\ ReportTo(s, "none")
  /\ UNCHANGED <<docVars, metaVars, postVars, history>>

-----------------------------------------------------------------------------
(* ResourceMetadataProcessor.handleExtract *)

ExtractorPc ==
  {"loading", "converting", "rereading", "extracting", "skipping", "failing", "reporting"}

(* What the handler has read of its task *)
Copies == [status : MetadataStatus, fingerprint : Urls, payload : Urls]
NoCopy == [status |-> "none", fingerprint |-> "none", payload |-> "none"]

(* Where the callback is queued: in the try block that saved the metadata, *)
(* in the catch block of the last attempt, or outside of both.             *)
Blocks == {"try", "catch", "outside"}

Extraction ==
  {Idle} \cup [pc : ExtractorPc, job : JobIds, attempt : Nat, live : BOOLEAN,
               copy : Copies, block : Blocks]

ExtractorAt(w, pc) == extractor[w].pc = pc
ExtractorTo(w, pc) == extractor' = [extractor EXCEPT ![w].pc = pc]

CopyOf(t) == [status |-> metadata[t].status, fingerprint |-> metadata[t].fingerprint,
              payload |-> payload[t]]

TakeExtract(w, j) ==
  /\ ExtractorAt(w, "idle")
  /\ extract[j].state = "waiting"
  /\ extract' = Taken(extract, j)
  /\ extractor' = [extractor EXCEPT ![w] =
       [pc |-> "loading", job |-> j, attempt |-> extract[j].attempts + 1,
        live |-> TRUE, copy |-> NoCopy, block |-> "outside"]]
  /\ UNCHANGED <<docVars, postVars, scheduler, report, history>>

(* Mutant of Examine: metadata that is there counts as reported *)
ExamineSilently(w, copy) ==
  /\ extractor' = [extractor EXCEPT ![w].pc =
       IF copy.status = "ready" THEN "reporting"
       ELSE IF copy.payload = "none" THEN "skipping" ELSE "extracting"]
  /\ ReportTo(w, IF copy.status = "ready" THEN "returned" ELSE "none")

(* The handler goes on where its copy of the task says, and with no more   *)
(* of the copy than the fingerprint it is to write is made of.             *)
Examine(w, copy) ==
  LET h == extractor[w]
      done == /\ KindOf(h.job) = "auto"
              /\ copy.status = "ready"
              /\ copy.fingerprint = copy.payload
      next == IF done THEN "reporting"
              ELSE IF copy.payload = "none" THEN "skipping" ELSE "extracting"
      kept == [NoCopy EXCEPT !.payload = copy.payload]
  IN /\ extractor' = [extractor EXCEPT ![w] =
          [@ EXCEPT !.copy = IF done THEN NoCopy ELSE kept, !.pc = next]]
     /\ report' = IF done THEN [report EXCEPT ![w] = "reading"] ELSE report

(* Jobs are queued for ended tasks only *)
LoadForExtract(w) ==
  LET t == TaskOf(extractor[w].job) IN
  /\ ExtractorAt(w, "loading")
  /\ \/ /\ end[t] = "SUCCESS"
        /\ extractor' = [extractor EXCEPT ![w] =
             [@ EXCEPT !.copy = CopyOf(t), !.pc = "converting"]]
        /\ UNCHANGED report
     \/ /\ end[t] # "SUCCESS"
        /\ Examine(w, CopyOf(t))
  /\ UNCHANGED <<docVars, extract, postVars, scheduler, history>>

(* The payload is written back as this handler knows it, its URLs replaced *)
(* by the hub's own or not; or nothing needs writing, or the conversion or *)
(* the write throws, and the handler goes on with its copy.                *)
Convert(w) ==
  LET t == TaskOf(extractor[w].job)
      copy == extractor[w].copy
  IN
  /\ ExtractorAt(w, "converting")
  /\ \/ /\ \E urls \in {copy.payload, IF copy.payload = "none" THEN "none" ELSE "own"} :
             payload' = [payload EXCEPT ![t] = urls]
        /\ ExtractorTo(w, "rereading")
        /\ UNCHANGED report
     \/ Examine(w, copy) /\ UNCHANGED payload
  /\ UNCHANGED <<end, metadata, callback, extract, postVars, scheduler, history>>

(* The task is read again, or MongoDB throws and the first copy serves *)
Reread(w) ==
  /\ ExtractorAt(w, "rereading")
  /\ \/ Examine(w, CopyOf(TaskOf(extractor[w].job)))
     \/ "storeError" \in Environment /\ Examine(w, extractor[w].copy)
  /\ UNCHANGED <<docVars, extract, postVars, scheduler, history>>

(* resourceMetadataStatus and -Fingerprint are written together *)
Save(w, status) ==
  LET t == TaskOf(extractor[w].job) IN
  /\ metadata' = [metadata EXCEPT ![t] =
       [status |-> status, fingerprint |-> extractor[w].copy.payload]]
  /\ processed' = processed \cup {t}

StartReport(w, block) ==
  /\ extractor' = [extractor EXCEPT ![w] =
       [@ EXCEPT !.pc = "reporting", !.block = block,
                 !.copy = IF block = "try" THEN extractor[w].copy ELSE NoCopy]]
  /\ ReportTo(w, "reading")

(* A URL that cannot be read counts as read.  The new status is that of    *)
(* the try block, or that of a task without a URL.                         *)
SaveMetadata(w) ==
  /\ \/ ExtractorAt(w, "extracting") /\ Save(w, "ready") /\ StartReport(w, "try")
     \/ ExtractorAt(w, "skipping") /\ Save(w, "skipped") /\ StartReport(w, "outside")
  /\ UNCHANGED <<end, payload, callback, extract, postVars, scheduler, bounds, acked>>

(* The end of handleExtract, and what it makes of its job *)
ExtractEnds(w, queue) ==
  /\ extract' = queue
  /\ extractor' = [extractor EXCEPT ![w] = Idle]
  /\ ReportTo(w, "none")

ExtractReturns(w) == ExtractEnds(w, Returned(extract, extractor[w]))
ExtractThrows(w) == ExtractEnds(w, Threw(extract, extractor[w], ExtractAttempts))

(* The catch block: the failure is saved, and reported by the last attempt *)
SaveFailure(w) ==
  /\ ExtractorAt(w, "failing")
  /\ Save(w, "failed")
  /\ \/ /\ extractor[w].attempt >= ExtractAttempts
        /\ StartReport(w, "catch")
        /\ UNCHANGED extract
     \/ /\ extractor[w].attempt < ExtractAttempts
        /\ ExtractThrows(w)
  /\ UNCHANGED <<end, payload, callback, postVars, scheduler, bounds, acked>>

(* The end of the handler, if its call of enqueueForTerminalTask is over   *)
FinishExtract(w) ==
  /\ ExtractorAt(w, "reporting")
  /\ report[w] \in {"returned", "threw"}
  /\ \/ /\ extractor[w].block # "catch" /\ report[w] = "returned"
        /\ ExtractReturns(w)
     \/ /\ extractor[w].block = "try" /\ report[w] = "threw"
        /\ ExtractorTo(w, "failing")
        /\ ReportTo(w, "none")
        /\ UNCHANGED extract
     \/ /\ extractor[w].block = "catch" \/ (extractor[w].block = "outside" /\ report[w] = "threw")
        /\ ExtractThrows(w)
  /\ UNCHANGED <<docVars, postVars, scheduler, history>>

(* MongoDB throws: inside the try block the handler goes to its catch *)
ExtractStoreError(w) ==
  /\ "storeError" \in Environment
  /\ \/ /\ ExtractorAt(w, "extracting")
        /\ ExtractorTo(w, "failing")
        /\ UNCHANGED <<extract, report>>
     \/ /\ extractor[w].pc \in {"loading", "skipping", "failing"}
        /\ ExtractThrows(w)
  /\ UNCHANGED <<docVars, postVars, scheduler, history>>

-----------------------------------------------------------------------------
(* CallbackProcessor.handleCallback *)

(* status: what the task was when the body of the POST was made *)
Delivery ==
  {Idle} \cup [pc : {"posting", "accepted", "refused"}, job : JobIds,
               attempt : Nat, live : BOOLEAN, status : {"open"} \cup Reported \cup Failures]

CourierAt(w, pc) == courier[w].pc = pc
CourierTo(w, pc) == courier' = [courier EXCEPT ![w].pc = pc]

(* The task is read and the body of the POST made of it; neither the status *)
(* of the task nor that of its callback is looked at.                      *)
TakeDeliver(w, j) ==
  /\ CourierAt(w, "idle")
  /\ deliver[j].state = "waiting"
  /\ deliver' = Taken(deliver, j)
  /\ courier' = [courier EXCEPT ![w] =
       [pc |-> "posting", job |-> j, attempt |-> deliver[j].attempts + 1,
        live |-> TRUE, status |-> end[TaskOf(j)]]]
  /\ UNCHANGED <<docVars, metaVars, scheduler, report, history>>

(* Mutant of Post: no answer in time is as good as one *)
PostUnheard(w) ==
  /\ CourierAt(w, "posting")
  /\ CourierTo(w, "accepted")
  /\ UNCHANGED <<docVars, metaVars, deliver, scheduler, report, history>>

(* The client answers 2xx, or something else, or not at all; the status    *)
(* that was posted is not needed any more.                                 *)
Post(w) ==
  /\ CourierAt(w, "posting")
  /\ \/ /\ acked' = [acked EXCEPT ![TaskOf(courier[w].job)] = @ \cup {courier[w].status}]
        /\ courier' = [courier EXCEPT ![w] = [@ EXCEPT !.pc = "accepted", !.status = "open"]]
     \/ /\ courier' = [courier EXCEPT ![w] = [@ EXCEPT !.pc = "refused", !.status = "open"]]
        /\ UNCHANGED acked
  /\ UNCHANGED <<docVars, metaVars, deliver, scheduler, report, bounds, processed>>

DeliverThrows(w) ==
  /\ deliver' = Threw(deliver, courier[w], DeliverAttempts)
  /\ courier' = [courier EXCEPT ![w] = Idle]

SaveDelivered(w) ==
  /\ CourierAt(w, "accepted")
  /\ callback' = [callback EXCEPT ![TaskOf(courier[w].job)] = "SUCCESS"]
  /\ deliver' = Returned(deliver, courier[w])
  /\ courier' = [courier EXCEPT ![w] = Idle]
  /\ UNCHANGED <<end, payload, metadata, metaVars, scheduler, report, history>>

(* Mutants of Undelivered: one attempt late; the name technical-design.md uses *)
UndeliveredLate(attempt) == IF attempt > MaxRetries THEN "DEAD_LETTER" ELSE "FAILED"
UndeliveredRenamed(attempt) ==
  IF attempt >= MaxRetries THEN "CALLBACK_DEAD_LETTER" ELSE "FAILED"

Undelivered(attempt) == IF attempt >= MaxRetries THEN "DEAD_LETTER" ELSE "FAILED"

SaveUndelivered(w) ==
  /\ CourierAt(w, "refused")
  /\ callback' = [callback EXCEPT ![TaskOf(courier[w].job)] =
       Undelivered(courier[w].attempt)]
  /\ DeliverThrows(w)
  /\ UNCHANGED <<end, payload, metadata, metaVars, scheduler, report, history>>

(* A store that throws when the task is read, before the POST, or in the   *)
(* catch block ends the handler.  One that throws after the client's 2xx   *)
(* makes the POST a failed one.                                            *)
DeliverStoreError(w) ==
  /\ "storeError" \in Environment
  /\ \/ /\ CourierAt(w, "accepted")
        /\ CourierTo(w, "refused")
        /\ UNCHANGED deliver
     \/ /\ courier[w].pc \in {"posting", "refused"}
        /\ DeliverThrows(w)
  /\ UNCHANGED <<docVars, metaVars, scheduler, report, history>>

(* replay-callback: at any time, whatever became of the task *)
ReplayCallback(t) ==
  /\ "replay" \in Environment /\ requests < MaxRequests
  /\ t \in WithCallback
  /\ deliver[<<t, "extra">>] = NoJob
  /\ deliver' = Added(deliver, <<t, "extra">>)
  /\ requests' = requests + 1
  /\ UNCHANGED <<docVars, metaVars, courier, scheduler, report, crashes, processed, acked>>

-----------------------------------------------------------------------------
(* Bull and the worker processes *)

ExtractorDies(w) ==
  /\ "crash" \in Environment /\ crashes < MaxCrashes
  /\ ~ExtractorAt(w, "idle")
  /\ extractor' = [extractor EXCEPT ![w] = Idle]
  /\ ReportTo(w, "none")
  /\ crashes' = crashes + 1
  /\ UNCHANGED <<docVars, extract, postVars, scheduler, requests, processed, acked>>

CourierDies(w) ==
  /\ "crash" \in Environment /\ crashes < MaxCrashes
  /\ ~CourierAt(w, "idle")
  /\ courier' = [courier EXCEPT ![w] = Idle]
  /\ crashes' = crashes + 1
  /\ UNCHANGED <<docVars, metaVars, deliver, scheduler, report, requests, processed, acked>>

(* Bull finds out that nobody works on an active job; a backoff is over *)
RequeueExtract(j) ==
  /\ \/ /\ extract[j].state = "active"
        /\ \A w \in Extractors : ~Holds(extractor[w], j)
        /\ extract' = Stalled(extract, j)
     \/ extract[j].state = "delayed" /\ extract' = Promoted(extract, j)
  /\ UNCHANGED <<docVars, extractor, postVars, scheduler, report, history>>

RequeueDeliver(j) ==
  /\ \/ /\ deliver[j].state = "active"
        /\ \A w \in Couriers : ~Holds(courier[w], j)
        /\ deliver' = Stalled(deliver, j)
     \/ deliver[j].state = "delayed" /\ deliver' = Promoted(deliver, j)
  /\ UNCHANGED <<docVars, metaVars, courier, scheduler, report, history>>

TimeOutExtract(j) ==
  /\ "overrun" \in Environment
  /\ extract[j].state = "active"
  /\ \E w \in Extractors : Holds(extractor[w], j)
  /\ extract' = AttemptFailed(extract, j, ExtractAttempts)
  /\ extractor' = [w \in Extractors |-> GivenUp(extractor[w], j)]
  /\ UNCHANGED <<docVars, postVars, scheduler, report, history>>

TimeOutDeliver(j) ==
  /\ "overrun" \in Environment
  /\ deliver[j].state = "active"
  /\ \E w \in Couriers : Holds(courier[w], j)
  /\ deliver' = AttemptFailed(deliver, j, DeliverAttempts)
  /\ courier' = [w \in Couriers |-> GivenUp(courier[w], j)]
  /\ UNCHANGED <<docVars, metaVars, scheduler, report, history>>

-----------------------------------------------------------------------------
Init ==
  /\ end = [t \in Tasks |-> "open"]
  /\ payload \in [Tasks -> {"none", "provider"}]
  /\ metadata = [t \in Tasks |-> [status |-> "none", fingerprint |-> "none"]]
  /\ callback = [t \in Tasks |-> "PENDING"]
  /\ extract = [j \in JobIds |-> NoJob]
  /\ deliver = [j \in JobIds |-> NoJob]
  /\ scheduler = [s \in Schedulers |-> Idle]
  /\ extractor = [w \in Extractors |-> Idle]
  /\ courier = [w \in Couriers |-> Idle]
  /\ report = [c \in Callers |-> "none"]
  /\ crashes = 0
  /\ requests = 0
  /\ processed = {}
  /\ acked = [t \in Tasks |-> {}]

(* What a handler that has begun does next *)
SchedulerMoves(s) ==
  \/ LoadForSchedule(s) \/ MarkPending(s) \/ AddExtract(s) \/ Excuse(s)
  \/ FinishSchedule(s)

ExtractorMoves(w) ==
  \/ LoadForExtract(w) \/ Convert(w) \/ Reread(w)
  \/ SaveMetadata(w) \/ SaveFailure(w) \/ FinishExtract(w)

CourierMoves(w) ==
  Post(w) \/ SaveDelivered(w) \/ SaveUndelivered(w)

ReportMoves(c) == ReadForReport(c) \/ AddReport(c)

ExtractQueueMoves(j) ==
  (\E w \in Extractors : TakeExtract(w, j)) \/ RequeueExtract(j)

DeliverQueueMoves(j) ==
  (\E w \in Couriers : TakeDeliver(w, j)) \/ RequeueDeliver(j)

Next ==
  \/ \E s \in Schedulers :
       \/ \E t \in Tasks : TaskEnds(s, t) \/ CallAgain(s, t) \/ Refresh(s, t)
       \/ SchedulerMoves(s) \/ ScheduleStops(s)
  \/ \E w \in Extractors :
       ExtractorMoves(w) \/ ExtractStoreError(w) \/ ExtractorDies(w)
  \/ \E w \in Couriers :
       CourierMoves(w) \/ DeliverStoreError(w) \/ CourierDies(w)
  \/ \E c \in Callers : ReportMoves(c)
  \/ \E j \in JobIds :
       \/ ExtractQueueMoves(j) \/ TimeOutExtract(j)
       \/ DeliverQueueMoves(j) \/ TimeOutDeliver(j)
  \/ \E t \in Tasks : ReplayCallback(t)

Spec == Init /\ [][Next]_vars

-----------------------------------------------------------------------------
(* Documents, jobs and handlers keep their shape *)
TypeOK ==
  /\ end \in [Tasks -> {"open"} \cup Reported \cup Failures]
  /\ payload \in [Tasks -> Urls]
  /\ metadata \in [Tasks -> Metadata]
  /\ callback \in [Tasks -> CallbackStatus]
  /\ extract \in [JobIds -> Job]
  /\ deliver \in [JobIds -> Job]
  /\ scheduler \in [Schedulers -> Schedule]
  /\ extractor \in [Extractors -> Extraction]
  /\ courier \in [Couriers -> Delivery]
  /\ report \in [Callers -> ReportStep]
  /\ {crashes, requests} \subseteq Nat
  /\ processed \subseteq Tasks
  /\ acked \in [Tasks -> SUBSET ({"open"} \cup Reported \cup Failures)]

(* callback.processor.ts: behind every callback that a task says was       *)
(* delivered is the client's own acknowledgement, and of how the task      *)
(* ended, unless an administrator replayed the callback of an open task;   *)
(* whatever fails, times out or is repeated between POST and update.       *)
EndIsAcknowledged ==
  \A t \in Tasks :
    callback[t] = "SUCCESS" => end[t] \in acked[t] \/ "open" \in acked[t]

-----------------------------------------------------------------------------
(* Environment without storeError, overrun and replay.                     *)

(* resource-metadata.processor.ts:49, the order the processor guarantees:  *)
(* first the result is stored and its metadata read, then the client told. *)
ProcessedBeforeReport ==
  \A w \in Couriers :
    courier[w] # Idle => TaskOf(courier[w].job) \in processed

(* callback.processor.ts:124: a callback Bull has used up the attempts of, *)
(* and whose id bars any other, is a dead letter an administrator can see. *)
GivenUpIsVisible ==
  \A t \in Tasks :
    LET job == deliver[<<t, "auto">>] IN
    job.state = "failed" /\ ~Lost(job) => callback[t] \in {"SUCCESS", "DEAD_LETTER"}

(* Handlers that were called run on, and Bull hands out its jobs.  Nothing *)
(* is assumed of the clients, and nobody need call scheduleForTask again.  *)
FairSpec ==
  /\ Spec
  /\ \A s \in Schedulers : WF_vars(SchedulerMoves(s))
  /\ \A w \in Extractors : WF_vars(ExtractorMoves(w))
  /\ \A w \in Couriers : WF_vars(CourierMoves(w))
  /\ \A c \in Callers : WF_vars(ReportMoves(c))
  /\ \A j \in JobIds : WF_vars(ExtractQueueMoves(j)) /\ WF_vars(DeliverQueueMoves(j))

(* docs/technical-design.md 1.2, delivery in the end, as far as it goes:   *)
(* a success or cancellation reaches the client or the dead letters, even  *)
(* if workers die, metadata jobs fail, and scheduleForTask is called twice *)
(* at a time, unless Bull gave up one of the two jobs on the way.          *)
EndIsReported ==
  \A t \in WithCallback :
    end[t] \in Reported ~>
      \/ callback[t] \in {"SUCCESS", "DEAD_LETTER"}
      \/ Lost(extract[<<t, "auto">>]) \/ Lost(deliver[<<t, "auto">>])
=============================================================================
