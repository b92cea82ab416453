----------------------------- MODULE ChargeProofs ---------------------------
(***************************************************************************)
(* Who pays, and for what. Nothing is debited without a provider's result: *)
(* whoever is about to charge has been handed a result, and a provider     *)
(* never takes a result back (Evidence).                                   *)
(*                                                                         *)
(* External clients never pay, because a client's wallet changes only in   *)
(* the hands of calls made for its own tasks, and those of an external     *)
(* client set nothing aside and charge nothing (Spared).                   *)
(*                                                                         *)
(* A polled task of an internal client that shows SUCCESS was paid: its    *)
(* billing record is made before the task is inserted, so the settlement of*)
(* every poller finds it and debits, and the poller that settled is the one*)
(* that writes the success (PaidFor).                                      *)
(***************************************************************************)
EXTENDS TaskLifecycleProofs

(* The steps of settle, of which one is the debit *)
Charging == {"settle", "release", "debit", "markSettled", "markFailed"}

(* A call that settles was begun for a task its provider has completed. *)
CallsJustified ==
  \A c \in Callers : call[c].step \in Charging => provider[call[c].task] = "succeeded"

(* A worker holding a synchronous answer has the provider's result. *)
AnswersJustified ==
  \A w \in Workers : worker[w].pc = "answered" => provider[worker[w].task] = "succeeded"

(* A poller that was told "succeeded" was told the truth. *)
PollsJustified ==
  \A p \in Pollers : poller[p].pc = "succeeded" => provider[Current(p)] = "succeeded"

(* A provider that answers at once never leaves a task running. *)
SynchronousNeverRuns ==
  \A t \in Tasks : t \in Synchronous => provider[t] \in {"none", "succeeded"}

Evidence ==
  /\ CallsJustified
  /\ AnswersJustified
  /\ PollsJustified
  /\ SynchronousNeverRuns
  /\ ChargedOnlyForResults

(* The provider keeps the results it has. *)
ResultsStay ==
  /\ \A t \in Tasks : provider[t] = "succeeded" => provider'[t] = "succeeded"
  /\ SynchronousNeverRuns'

(* What a provider completed stays completed. *)
LEMMA ResultsKept ==
  ASSUME SynchronousNeverRuns, UNCHANGED provider
  PROVE  ResultsStay
BY DEF ResultsStay, SynchronousNeverRuns

(* A handler's own step, with everybody else's evidence untouched *)
LEMMA CallsKept ==
  ASSUME HubInv, CallsJustified, ResultsStay, NEW c \in Callers,
         \A d \in Callers \ {c} : call'[d] = call[d],
         call'[c].step \in Charging => provider'[call'[c].task] = "succeeded"
  PROVE  CallsJustified'
<1>1. \A d \in Callers : call[d].step \in Charging => call[d].task \in Tasks
  BY InsideCall DEF HubInv, BillingOK, Charging
<1> QED
  BY <1>1 DEF CallsJustified, ResultsStay

(* A step outside the adapter keeps the evidence behind its calls. *)
LEMMA CallsUntouched ==
  ASSUME HubInv, CallsJustified, ResultsStay, UNCHANGED call
  PROVE  CallsJustified'
<1>1. \A d \in Callers : call[d].step \in Charging => call[d].task \in Tasks
  BY InsideCall DEF HubInv, BillingOK, Charging
<1> QED
  BY <1>1 DEF CallsJustified, ResultsStay

(* A step outside the worker keeps the evidence behind its answers. *)
LEMMA AnswersUntouched ==
  ASSUME HubInv, AnswersJustified, ResultsStay, UNCHANGED worker
  PROVE  AnswersJustified'
<1>1. \A w \in Workers : worker[w].pc = "answered" => worker[w].task \in Tasks
  BY DEF HubInv, WorkerType, Handlers, NoHandler
<1> QED
  BY <1>1 DEF AnswersJustified, ResultsStay

(* A step outside the scheduler keeps the evidence behind its polls. *)
LEMMA PollsUntouched ==
  ASSUME HubInv, PollsJustified, ResultsStay, UNCHANGED poller
  PROVE  PollsJustified'
<1>1. \A p \in Pollers : poller[p].pc = "succeeded" => Current(p) \in Tasks
  BY DEF HubInv, CopiesNamed, InHand, Copies, Current
<1> QED
  BY <1>1 DEF PollsJustified, ResultsStay, Current

(* A step that debits nothing keeps the evidence behind past debits. *)
LEMMA DebitsUntouched ==
  ASSUME ChargedOnlyForResults, ResultsStay, UNCHANGED debits
  PROVE  ChargedOnlyForResults'
BY DEF ChargedOnlyForResults, ResultsStay

(* What the three ways to change a call record do *)
LEMMA CallRecords ==
  ASSUME HubInv, NEW c \in Callers
  PROVE  /\ \A t, s : Begin(c, t, s) =>
              /\ \A d \in Callers \ {c} : call'[d] = call[d]
              /\ call'[c].step = s /\ call'[c].task = t
         /\ Forget(c) =>
              /\ \A d \in Callers \ {c} : call'[d] = call[d]
              /\ call'[c].step = "idle"
         /\ \A s : call[c].step # "idle" /\ Continue(c, s) =>
              /\ \A d \in Callers \ {c} : call'[d] = call[d]
              /\ call'[c].step = s /\ call'[c].task = call[c].task
<1>1. call \in [Callers -> Calls]
  BY DEF HubInv, BillingOK, BillingType
<1>2. call[c].step # "idle" => call[c] \in [step : Steps, task : Tasks]
  BY InsideCall DEF HubInv, BillingOK
<1> QED
  BY <1>1, <1>2 DEF Begin, Forget, Continue, NoCall

-----------------------------------------------------------------------------
(* Inside the adapter: settle keeps going, and only settle debits *)

(* No await of the adapter charges a task without a result: a debit        *)
(* belongs to a settlement, and every settlement has its result.           *)
LEMMA BillingEvidence ==
  ASSUME HubInv, Evidence, NEW c \in Callers, BillingStep(c), UNCHANGED provider
  PROVE  CallsJustified' /\ ChargedOnlyForResults'
<1> USE DEF Evidence
<1>1. call[c].step # "idle"
  BY DEF BillingStep, CreateRecord, FreezeEstimate, MarkPreDeducted, ReadForSettle,
         ReleaseForSettle, DebitActual, MarkFailed, MarkSettled, ReadForRefund,
         ReleaseForRefund, GiveUpRelease, MarkRefunded, CallThrows, At
<1>2. ResultsStay
  BY ResultsKept
<1>3. PICK s : Continue(c, s)
  BY DEF BillingStep, CreateRecord, FreezeEstimate, MarkPreDeducted, ReadForSettle,
         ReleaseForSettle, DebitActual, MarkFailed, MarkSettled, ReadForRefund,
         ReleaseForRefund, GiveUpRelease, MarkRefunded, CallThrows
<1>4. call[c].step \notin Charging => call'[c].step \notin Charging
  BY <1>1, CallRecords
  DEF BillingStep, CreateRecord, FreezeEstimate, MarkPreDeducted, ReadForSettle,
      ReleaseForSettle, DebitActual, MarkFailed, MarkSettled, ReadForRefund,
      ReleaseForRefund, GiveUpRelease, MarkRefunded, CallThrows, At, Charging
<1>5. CallsJustified'
  <2>1. call'[c].task = call[c].task /\ \A d \in Callers \ {c} : call'[d] = call[d]
    BY <1>1, <1>3, CallRecords
  <2> QED
    BY <1>2, <1>4, <2>1, CallsKept DEF CallsJustified
<1>6. ChargedOnlyForResults'
  <2>1. CASE UNCHANGED debits
    BY <1>2, <2>1, DebitsUntouched
  <2>2. CASE /\ At(c, "debit")
             /\ debits' = [debits EXCEPT ![call[c].task] = @ + 1]
    <3>1. provider[call[c].task] = "succeeded"
      BY <2>2 DEF At, CallsJustified, Charging
    <3> QED
      BY <2>2, <3>1 DEF ChargedOnlyForResults, HubInv, BillingOK, BillingType
  <2> QED
    BY <2>1, <2>2
    DEF BillingStep, CreateRecord, FreezeEstimate, MarkPreDeducted, ReadForSettle,
        ReleaseForSettle, DebitActual, MarkFailed, MarkSettled, ReadForRefund,
        ReleaseForRefund, GiveUpRelease, MarkRefunded, CallThrows
<1> QED
  BY <1>5, <1>6

-----------------------------------------------------------------------------
(* The API process never begins a settlement *)

(* Requests start no settlement. *)
LEMMA ApiEvidence ==
  ASSUME HubInv, Evidence, ApiStep
  PROVE  CallsJustified' /\ ResultsStay /\ ChargedOnlyForResults'
<1> USE DEF Evidence
<1>1. UNCHANGED provider /\ UNCHANGED debits
  BY DEF ApiStep, BeginCreate, BillingInitialised, InsertTask, RecordKey, EnqueueTask,
         RequestDies, CancelTask, BeginPriority, FindWaiting, RemoveWaiting, AddAgain,
         ChangeDies, CreditWallet, billingVars, storeVars
<1>2. ResultsStay
  BY <1>1, ResultsKept
<1>3. \A t \in Tasks : t \in Callers
  BY DEF Callers
<1>4. \/ UNCHANGED call
      \/ \E t \in Tasks : Begin(t, t, "initBilling") \/ Forget(t)
  BY DEF ApiStep, BeginCreate, BillingInitialised, InsertTask, RecordKey, EnqueueTask,
         RequestDies, CancelTask, BeginPriority, FindWaiting, RemoveWaiting, AddAgain,
         ChangeDies, CreditWallet, billingVars
<1>5. CallsJustified'
  <2>1. CASE UNCHANGED call
    BY <1>2, <2>1, CallsUntouched
  <2>2. ASSUME NEW t \in Tasks, Begin(t, t, "initBilling") \/ Forget(t)
        PROVE  CallsJustified'
    BY <1>2, <1>3, <2>2, CallRecords, CallsKept DEF Charging
  <2> QED
    BY <1>4, <2>1, <2>2
<1> QED
  BY <1>1, <1>2, <1>5, DebitsUntouched

-----------------------------------------------------------------------------
(* A worker settles only with the provider's own answer in hand *)

(* A handler goes where it was sent, the others stay. *)
LEMMA WorkerMoves ==
  ASSUME HubInv, NEW w \in Workers
  PROVE  /\ \A pc : WorkerTo(w, pc) =>
              /\ \A v \in Workers \ {w} : worker'[v] = worker[v]
              /\ worker'[w].pc = pc /\ worker'[w].task = worker[w].task
         /\ Return(w) \/ Throw(w) =>
              /\ \A v \in Workers \ {w} : worker'[v] = worker[v]
              /\ worker'[w].pc = "idle"
<1>1. worker \in [Workers -> Handlers]
  BY DEF HubInv, WorkerType
<1>2. worker[w] \in Handlers
  BY <1>1
<1> QED
  BY <1>1, <1>2 DEF WorkerTo, Return, Throw, NoHandler, Handlers

(* A worker that moved on to a step that needs no result keeps the         *)
(* evidence.                                                               *)
LEMMA AnswersKept ==
  ASSUME HubInv, AnswersJustified, ResultsStay, NEW w \in Workers,
         \A v \in Workers \ {w} : worker'[v] = worker[v],
         worker'[w].pc = "answered" => provider'[worker'[w].task] = "succeeded"
  PROVE  AnswersJustified'
<1>1. \A v \in Workers : worker[v].pc = "answered" => worker[v].task \in Tasks
  BY DEF HubInv, WorkerType, Handlers, NoHandler
<1> QED
  BY <1>1 DEF AnswersJustified, ResultsStay

(* A worker settles only what a synchronous provider answered. *)
LEMMA WorkerEvidence ==
  ASSUME HubInv, Evidence, WorkerStep, UNCHANGED pollVars
  PROVE  Evidence'
<1> USE DEF Evidence
<1>a. ASSUME ResultsStay, CallsJustified', AnswersJustified', UNCHANGED debits
      PROVE  Evidence'
  BY <1>a, PollsUntouched, DebitsUntouched DEF ResultsStay, pollVars
<1>b. \A w \in Workers : w \in Callers
  BY DEF Callers
<1>c. ASSUME NEW w \in Workers, NEW pc \in WorkerPc \ {"answered"},
             UNCHANGED provider, UNCHANGED call, UNCHANGED debits,
             WorkerTo(w, pc) \/ Return(w) \/ Throw(w)
      PROVE  Evidence'
  <2>1. ResultsStay
    BY <1>c, ResultsKept
  <2>2. AnswersJustified'
    BY <1>c, <2>1, WorkerMoves, AnswersKept
  <2> QED
    BY <1>a, <1>c, <2>1, <2>2, CallsUntouched
<1>1. ASSUME NEW w \in Workers, NEW j \in JobIds, TakeJob(w, j) PROVE Evidence'
  <2>1. ResultsStay
    BY <1>1, ResultsKept DEF TakeJob, storeVars
  <2>2. /\ \A v \in Workers \ {w} : worker'[v] = worker[v]
        /\ worker'[w].pc = "loading"
    BY <1>1 DEF TakeJob, HubInv, WorkerType
  <2>3. AnswersJustified'
    BY <2>1, <2>2, AnswersKept
  <2> QED
    BY <1>1, <1>a, <2>1, <2>3, CallsUntouched DEF TakeJob, billingVars
<1>2. ASSUME NEW w \in Workers,
             LoadTask(w) \/ SubmitThrows(w) \/ FailUnroutable(w) \/ SubmitRefused(w)
               \/ SaveThrows(w) \/ SaveAccepted(w)
      PROVE  Evidence'
  <2>1. UNCHANGED provider /\ UNCHANGED call /\ UNCHANGED debits
    BY <1>2 DEF LoadTask, SubmitThrows, FailUnroutable, SubmitRefused, SaveThrows,
                SaveAccepted, billingVars, storeVars
  <2>2. \E pc \in WorkerPc \ {"answered"} : WorkerTo(w, pc) \/ Return(w) \/ Throw(w)
    BY <1>2 DEF LoadTask, SubmitThrows, FailUnroutable, SubmitRefused, SaveThrows,
                SaveAccepted, WorkerPc
  <2> QED
    BY <1>c, <2>1, <2>2
<1>3. ASSUME NEW w \in Workers, Submit(w) PROVE Evidence'
  <2> DEFINE t == worker[w].task
  <2>1. t \in Tasks
    BY <1>3 DEF Submit, WorkerAt, HubInv, WorkerType, Handlers, NoHandler
  <2>2. /\ provider \in [Tasks -> ProviderStatus]
        /\ provider' = [provider EXCEPT ![t] =
             CASE @ # "none" -> @
               [] @ = "none" /\ t \in Synchronous -> "succeeded"
               [] OTHER -> "running"]
    BY <1>3 DEF Submit, HubInv, StoreType
  <2>3. ResultsStay
    BY <2>1, <2>2 DEF ResultsStay, SynchronousNeverRuns
  <2>4. t \in Synchronous => provider'[t] = "succeeded"
    BY <2>1, <2>2 DEF SynchronousNeverRuns
  <2>5. AnswersJustified'
    <3>1. \/ \E pc \in {"answered", "accepted", "fatal"} :
               WorkerTo(w, pc) /\ (pc = "answered" => t \in Synchronous)
          \/ Throw(w)
      BY <1>3 DEF Submit
    <3> QED
      BY <2>3, <2>4, <3>1, WorkerMoves, AnswersKept
  <2> QED
    BY <1>3, <1>a, <2>3, <2>5, CallsUntouched DEF Submit, billingVars
<1>4. ASSUME NEW w \in Workers, SaveAnswer(w) PROVE Evidence'
  <2>1. ResultsStay /\ provider'[worker[w].task] = "succeeded"
    BY <1>4, ResultsKept DEF SaveAnswer, WorkerAt, AnswersJustified
  <2>2. CallsJustified'
    BY <1>4, <1>b, <2>1, CallRecords, CallsKept DEF SaveAnswer
  <2>3. AnswersJustified'
    BY <1>4, <2>1, WorkerMoves, AnswersKept DEF SaveAnswer
  <2> QED
    BY <1>4, <1>a, <2>1, <2>2, <2>3 DEF SaveAnswer
<1>5. ASSUME NEW w \in Workers, FailSubmission(w) PROVE Evidence'
  <2>1. ResultsStay
    BY <1>5, ResultsKept DEF FailSubmission
  <2>2. CallsJustified'
    BY <1>5, <1>b, <2>1, CallRecords, CallsKept DEF FailSubmission, Charging
  <2>3. AnswersJustified'
    BY <1>5, <2>1, WorkerMoves, AnswersKept DEF FailSubmission
  <2> QED
    BY <1>5, <1>a, <2>1, <2>2, <2>3 DEF FailSubmission
<1>6. ASSUME NEW w \in Workers, FinishJob(w) \/ WorkerDies(w) PROVE Evidence'
  <2>1. ResultsStay
    BY <1>6, ResultsKept DEF FinishJob, WorkerDies, storeVars
  <2>2. CallsJustified'
    BY <1>6, <1>b, <2>1, CallRecords, CallsKept DEF FinishJob, WorkerDies, Charging
  <2>3. /\ \A v \in Workers \ {w} : worker'[v] = worker[v]
        /\ worker'[w].pc = "idle"
    BY <1>6 DEF FinishJob, WorkerDies, Return, NoHandler, HubInv, WorkerType
  <2>4. AnswersJustified'
    BY <2>1, <2>3, AnswersKept
  <2> QED
    BY <1>6, <1>a, <2>1, <2>2, <2>4 DEF FinishJob, WorkerDies
<1>7. ASSUME NEW j \in JobIds, TakeBack(j) PROVE Evidence'
  <2>1. ResultsStay
    BY <1>7, ResultsKept DEF TakeBack, storeVars
  <2>2. \A w \in Workers : worker'[w].pc = worker[w].pc /\ worker'[w].task = worker[w].task
    <3>1. ASSUME NEW w \in Workers, worker[w].job = j
          PROVE  LET doc == [worker[w] EXCEPT !.job = 0]
                 IN  doc.pc = worker[w].pc /\ doc.task = worker[w].task
      BY DEF HubInv, WorkerType, Handlers, NoHandler
    <3> QED
      BY <1>7, <3>1 DEF TakeBack
  <2>3. AnswersJustified'
    BY <2>1, <2>2 DEF AnswersJustified, ResultsStay, HubInv, WorkerType, Handlers, NoHandler
  <2> QED
    BY <1>7, <1>a, <2>1, <2>3, CallsUntouched DEF TakeBack, billingVars
<1>8. ASSUME NEW j \in JobIds, BackoffEnds(j) PROVE Evidence'
  <2>1. ResultsStay
    BY <1>8, ResultsKept DEF BackoffEnds, storeVars
  <2> QED
    BY <1>8, <1>a, <2>1, CallsUntouched, AnswersUntouched
    DEF BackoffEnds, billingVars
<1> QED
  BY <1>1, <1>2, <1>3, <1>4, <1>5, <1>6, <1>7, <1>8 DEF WorkerStep

-----------------------------------------------------------------------------
(* A poller settles only what the provider reported as succeeded *)

(* A poller that moved on to a step that needs no result keeps the         *)
(* evidence.                                                               *)
LEMMA PollsKept ==
  ASSUME HubInv, PollsJustified, ResultsStay, NEW p \in Pollers,
         \A q \in Pollers \ {p} : poller'[q] = poller[q],
         poller'[p].pc = "succeeded" => provider'[Current(p)'] = "succeeded"
  PROVE  PollsJustified'
<1>1. \A q \in Pollers : poller[q].pc = "succeeded" => Current(q) \in Tasks
  BY DEF HubInv, CopiesNamed, InHand, Copies, Current
<1> QED
  BY <1>1 DEF PollsJustified, ResultsStay, Current

(* A poller settles only what the provider reported as succeeded. *)
LEMMA PollEvidence ==
  ASSUME HubInv, Evidence, PollStep, UNCHANGED worker
  PROVE  Evidence'
<1> USE DEF Evidence
<1>a. UNCHANGED provider /\ UNCHANGED debits
  <2>1. ASSUME NEW p \in Pollers, \/ AcquireLock(p) \/ FindPollable(p) \/ ReleaseLock(p)
                                  \/ StillRunning(p) \/ RetryLater(p) \/ FailTask(p)
        PROVE  UNCHANGED provider /\ UNCHANGED debits
    BY <2>1 DEF AcquireLock, FindPollable, ReleaseLock, StillRunning, RetryLater, FailTask,
       billingVars, storeVars
  <2>2. ASSUME NEW p \in Pollers, NEW s, \/ SkipUntraceable(p, s) \/ TimeOut(p, s)
                                         \/ DeferPoll(p, s) \/ Query(p, s)
        PROVE  UNCHANGED provider /\ UNCHANGED debits
    BY <2>2 DEF SkipUntraceable, TimeOut, DeferPoll, Query, billingVars, storeVars
  <2>3. ASSUME NEW p \in Pollers, \/ BeginSettle(p) \/ Succeed(p) \/ SettleThrew(p)
                                  \/ RefundEnded(p) \/ PollThrows(p) \/ PollerDies(p)
        PROVE  UNCHANGED provider /\ UNCHANGED debits
    BY <2>3 DEF BeginSettle, Succeed, SettleThrew, RefundEnded, PollThrows, PollerDies,
       billingVars, storeVars
  <2>4. LockLapses => UNCHANGED provider /\ UNCHANGED debits
    BY DEF LockLapses, billingVars, storeVars
  <2> QED
    BY <2>1, <2>2, <2>3, <2>4 DEF PollStep
<1>b. ResultsStay
  BY <1>a, ResultsKept
<1>c. ASSUME CallsJustified', PollsJustified' PROVE Evidence'
  BY <1>a, <1>b, <1>c, AnswersUntouched, DebitsUntouched DEF ResultsStay
<1>d. /\ poller \in [Pollers -> [pc : PollerPc, batch : SUBSET Copies,
                                 current : Copies \cup {NoCopy}]]
      /\ \A p \in Pollers : p \in Callers
  BY DEF HubInv, PollType, Callers
<1>e. ASSUME NEW p \in Pollers, NEW pc, PollerTo(p, pc), pc # "succeeded"
      PROVE  PollsJustified'
  BY <1>b, <1>d, <1>e, PollsKept DEF PollerTo
<1>f. ASSUME NEW p \in Pollers, NextInBatch(p) PROVE PollsJustified'
  BY <1>b, <1>d, <1>f, PollsKept DEF NextInBatch
<1>g. ASSUME NEW p \in Pollers, NEW s, WorkOn(p, s, "refunding") PROVE PollsJustified'
  BY <1>b, <1>d, <1>g, PollsKept DEF WorkOn
<1>h. ASSUME NEW p \in Pollers, NEW s, Between(p),
             poller' = [poller EXCEPT ![p].batch = @ \ {s}]
      PROVE  PollsJustified'
  BY <1>b, <1>d, <1>h, PollsKept DEF Between, PollerAt
<1>1. ASSUME NEW p \in Pollers,
             AcquireLock(p) \/ FindPollable(p) \/ ReleaseLock(p) \/ StillRunning(p)
               \/ RetryLater(p) \/ PollThrows(p)
      PROVE  Evidence'
  <2>1. UNCHANGED call
    BY <1>1 DEF AcquireLock, FindPollable, ReleaseLock, StillRunning, RetryLater,
                PollThrows, billingVars
  <2>2. PollsJustified'
    <3>1. CASE AcquireLock(p)
      BY <3>1, <1>e DEF AcquireLock
    <3>2. CASE FindPollable(p)
      BY <3>2, <1>b, <1>d, PollsKept DEF FindPollable, ReadBatch
    <3>3. CASE ReleaseLock(p)
      BY <3>3, <1>b, <1>d, PollsKept DEF ReleaseLock, Idle
    <3>4. CASE StillRunning(p) \/ RetryLater(p)
      BY <3>4, <1>f DEF StillRunning, RetryLater
    <3>5. CASE PollThrows(p)
      BY <3>5, <1>f, <1>h DEF PollThrows
    <3> QED
      BY <1>1, <3>1, <3>2, <3>3, <3>4, <3>5
  <2> QED
    BY <1>b, <1>c, <2>1, <2>2, CallsUntouched
<1>2. ASSUME NEW p \in Pollers, NEW s \in poller[p].batch,
             SkipUntraceable(p, s) \/ DeferPoll(p, s)
      PROVE  Evidence'
  <2>1. UNCHANGED call /\ PollsJustified'
    BY <1>2, <1>h DEF SkipUntraceable, DeferPoll, billingVars
  <2> QED
    BY <1>b, <1>c, <2>1, CallsUntouched
<1>3. ASSUME NEW p \in Pollers, NEW s \in poller[p].batch, TimeOut(p, s) PROVE Evidence'
  <2>1. PollsJustified'
    BY <1>3, <1>g DEF TimeOut
  <2>2. CallsJustified'
    BY <1>3, <1>b, <1>d, CallRecords, CallsKept DEF TimeOut, Charging
  <2> QED
    BY <1>c, <2>1, <2>2
<1>4. ASSUME NEW p \in Pollers, NEW s \in poller[p].batch, Query(p, s) PROVE Evidence'
  <2>1. PICK pc : WorkOn(p, s, pc) /\ (pc = "succeeded" => provider[s.task] = "succeeded")
    BY <1>4 DEF Query
  <2>2. /\ \A q \in Pollers \ {p} : poller'[q] = poller[q]
        /\ poller'[p].pc = pc /\ Current(p)' = s.task
    BY <1>d, <2>1 DEF WorkOn, Current
  <2>3. PollsJustified'
    BY <1>a, <1>b, <2>1, <2>2, PollsKept
  <2> QED
    BY <1>4, <1>b, <1>c, <2>3, CallsUntouched DEF Query, billingVars
<1>5. ASSUME NEW p \in Pollers, FailTask(p) PROVE Evidence'
  <2>1. PollsJustified'
    BY <1>5, <1>e DEF FailTask
  <2>2. CallsJustified'
    BY <1>5, <1>b, <1>d, CallRecords, CallsKept DEF FailTask, Charging
  <2> QED
    BY <1>c, <2>1, <2>2
<1>6. ASSUME NEW p \in Pollers, BeginSettle(p) PROVE Evidence'
  <2>1. PollsJustified'
    BY <1>6, <1>e DEF BeginSettle
  <2>2. provider'[Current(p)] = "succeeded"
    BY <1>6, <1>a DEF BeginSettle, PollerAt, PollsJustified
  <2>3. CallsJustified'
    BY <1>6, <1>b, <1>d, <2>2, CallRecords, CallsKept DEF BeginSettle
  <2> QED
    BY <1>c, <2>1, <2>3
<1>7. ASSUME NEW p \in Pollers,
             Succeed(p) \/ SettleThrew(p) \/ RefundEnded(p) \/ PollerDies(p)
      PROVE  Evidence'
  <2>1. CallsJustified'
    BY <1>7, <1>b, <1>d, CallRecords, CallsKept
    DEF Succeed, SettleThrew, RefundEnded, PollerDies, Charging
  <2>2. PollsJustified'
    <3>1. CASE PollerDies(p)
      BY <3>1, <1>b, <1>d, PollsKept DEF PollerDies, Idle
    <3>2. CASE Succeed(p) \/ SettleThrew(p) \/ RefundEnded(p)
      BY <3>2, <1>f DEF Succeed, SettleThrew, RefundEnded
    <3> QED
      BY <1>7, <3>1, <3>2
  <2> QED
    BY <1>c, <2>1, <2>2
<1>8. CASE LockLapses
  BY <1>8, <1>b, <1>c, CallsUntouched, PollsUntouched DEF LockLapses, billingVars
<1> QED
  BY <1>1, <1>2, <1>3, <1>4, <1>5, <1>6, <1>7, <1>8 DEF PollStep

-----------------------------------------------------------------------------
(* The whole task path *)

(* A provider finishes only what it was running. *)
LEMMA TimeEvidence ==
  ASSUME HubInv, Evidence, TimePasses, UNCHANGED <<call, worker, poller, debits>>
  PROVE  Evidence'
<1>1. ResultsStay
  <2>1. CASE UNCHANGED provider
    BY <2>1, ResultsKept DEF Evidence
  <2>2. ASSUME NEW t \in Tasks, ProviderFinishes(t) PROVE ResultsStay
    <3>1. t \notin Synchronous
      BY <2>2 DEF ProviderFinishes, Evidence, SynchronousNeverRuns
    <3> QED
      BY <2>2, <3>1
      DEF ProviderFinishes, ResultsStay, Evidence, SynchronousNeverRuns, HubInv, StoreType
  <2> QED
    BY <2>1, <2>2 DEF TimePasses, BecomesDue, BecomesOverdue
<1> QED
  BY <1>1, CallsUntouched, AnswersUntouched, PollsUntouched, DebitsUntouched
  DEF Evidence, ResultsStay

(* Nothing is charged, settled or answered at the start. *)
LEMMA EvidenceInit == Init => Evidence
BY DEF Init, BillingInit, StoreInit, WorkerInit, PollInit, Evidence, CallsJustified,
       AnswersJustified, PollsJustified, SynchronousNeverRuns, ChargedOnlyForResults,
       NoCall, Charging, NoHandler, Idle

(* Every step of the system preserves the evidence. *)
LEMMA EvidenceStep ==
  ASSUME HubInv, Evidence, [Next]_vars
  PROVE  Evidence'
<1>1. CASE UNCHANGED vars
  <2>1. UNCHANGED <<call, debits, provider, worker, poller>>
    BY <1>1 DEF vars, billingVars, storeVars, pollVars
  <2> QED
    BY <2>1 DEF Evidence, CallsJustified, AnswersJustified, PollsJustified, Current,
                SynchronousNeverRuns, ChargedOnlyForResults
<1>2. CASE ApiStep /\ UNCHANGED <<worker, pollVars>>
  BY <1>2, ApiEvidence, AnswersUntouched, PollsUntouched
  DEF Evidence, ResultsStay, pollVars
<1>3. CASE WorkerStep /\ UNCHANGED <<apiVars, pollVars>>
  BY <1>3, WorkerEvidence
<1>4. CASE PollStep /\ UNCHANGED <<apiVars, job, worker>>
  BY <1>4, PollEvidence
<1>5. CASE \E c \in Callers :
        BillingStep(c) /\ UNCHANGED <<storeVars, job, apiVars, worker, pollVars>>
  <2>1. UNCHANGED <<provider, worker, poller>>
    BY <1>5 DEF storeVars, pollVars
  <2>2. ResultsStay
    BY <2>1, ResultsKept DEF Evidence
  <2> QED
    BY <1>5, <2>1, <2>2, BillingEvidence, AnswersUntouched, PollsUntouched
    DEF Evidence, ResultsStay
<1>6. CASE TimePasses /\ UNCHANGED <<billingVars, job, apiVars, worker, pollVars>>
  BY <1>6, TimeEvidence DEF billingVars, pollVars
<1> QED
  BY <1>1, <1>2, <1>3, <1>4, <1>5, <1>6 DEF Next

(* billing.adapter.ts and its three callers: no task is ever debited whose *)
(* provider did not complete it - with any number of workers and pollers,  *)
(* redeliveries, stale copies, crashes and failing stores.                 *)
THEOREM NoChargeWithoutResult == Spec => []ChargedOnlyForResults
<1>1. Evidence => ChargedOnlyForResults
  BY DEF Evidence
<1> QED
  BY <1>1, HubInvariant, EvidenceInit, EvidenceStep, PTL DEF Spec

-----------------------------------------------------------------------------
(* Clients that are not charged *)

(* The steps of the adapter that touch a wallet *)
Touching == {"freeze", "release", "debit", "refundRelease"}

(* Only internal clients come to them. *)
WalletCallsInternal == \A c \in Callers : call[c].step \in Touching => Internal(c)

(* Where a call goes from where it is, and for whom *)
LEMMA BillingMoves ==
  ASSUME HubInv, NEW c \in Callers, BillingStep(c)
  PROVE  /\ \A d \in Callers \ {c} : call'[d] = call[d]
         /\ call'[c].task = call[c].task
         /\ call'[c].step \in Touching =>
              Internal(c) \/ call[c].step \in Touching
<1>1. call[c].step # "idle"
  BY DEF BillingStep, CreateRecord, FreezeEstimate, MarkPreDeducted, ReadForSettle,
         ReleaseForSettle, DebitActual, MarkFailed, MarkSettled, ReadForRefund,
         ReleaseForRefund, GiveUpRelease, MarkRefunded, CallThrows, At
<1>2. PICK s : Continue(c, s)
  BY DEF BillingStep, CreateRecord, FreezeEstimate, MarkPreDeducted, ReadForSettle,
         ReleaseForSettle, DebitActual, MarkFailed, MarkSettled, ReadForRefund,
         ReleaseForRefund, GiveUpRelease, MarkRefunded, CallThrows
<1>3. /\ call'[c].task = call[c].task
      /\ \A d \in Callers \ {c} : call'[d] = call[d]
  BY <1>1, <1>2, CallRecords
<1>4. call'[c].step \in Touching => Internal(c) \/ call[c].step \in Touching
  <2>1. CASE CreateRecord(c)
    BY <1>1, <2>1, CallRecords DEF CreateRecord, Internal, Touching
  <2>2. CASE ReadForSettle(c)
    BY <1>1, <2>2, CallRecords DEF ReadForSettle, Touching
  <2>3. CASE ReadForRefund(c)
    BY <1>1, <2>3, CallRecords DEF ReadForRefund, Touching
  <2>4. CASE FreezeEstimate(c) \/ ReleaseForSettle(c) \/ DebitActual(c)
               \/ ReleaseForRefund(c) \/ GiveUpRelease(c)
    BY <2>4 DEF FreezeEstimate, ReleaseForSettle, DebitActual, ReleaseForRefund,
                GiveUpRelease, At, Touching
  <2>5. CASE MarkPreDeducted(c) \/ MarkFailed(c) \/ MarkSettled(c) \/ MarkRefunded(c)
               \/ CallThrows(c)
    BY <1>1, <2>5, CallRecords DEF MarkPreDeducted, MarkFailed, MarkSettled,
                                   MarkRefunded, CallThrows, Touching
  <2> QED
    BY <2>1, <2>2, <2>3, <2>4, <2>5 DEF BillingStep
<1> QED
  BY <1>3, <1>4

(* What the handlers do to calls outside the adapter: begin or end their own. *)
LEMMA ApiCalls ==
  ASSUME ApiStep
  PROVE  UNCHANGED call \/ \E t \in Tasks : Begin(t, t, "initBilling") \/ Forget(t)
BY DEF ApiStep, BeginCreate, BillingInitialised, InsertTask, RecordKey, EnqueueTask,
       RequestDies, CancelTask, BeginPriority, FindWaiting, RemoveWaiting, AddAgain,
       ChangeDies, CreditWallet, billingVars

LEMMA WorkerCalls ==
  ASSUME WorkerStep
  PROVE  \/ UNCHANGED call
         \/ \E w \in Workers : Forget(w) \/ \E t : \E s \in {"settle", "refund"} : Begin(w, t, s)
BY DEF WorkerStep, TakeJob, TakeBack, BackoffEnds, LoadTask, SubmitThrows,
       FailUnroutable, Submit, SubmitRefused, SaveThrows, SaveAccepted, SaveAnswer,
       FailSubmission, FinishJob, WorkerDies, billingVars

LEMMA PollCalls ==
  ASSUME PollStep
  PROVE  \/ UNCHANGED call
         \/ \E p \in Pollers : Forget(p) \/ \E t : \E s \in {"settle", "refund"} : Begin(p, t, s)
<1>1. ASSUME NEW p \in Pollers, \/ AcquireLock(p) \/ FindPollable(p) \/ ReleaseLock(p)
                                \/ StillRunning(p) \/ RetryLater(p) \/ PollThrows(p)
      PROVE  UNCHANGED call
  BY <1>1 DEF AcquireLock, FindPollable, ReleaseLock, StillRunning, RetryLater, PollThrows,
              billingVars
<1>2. ASSUME NEW p \in Pollers, NEW s, SkipUntraceable(p, s) \/ DeferPoll(p, s) \/ Query(p, s)
      PROVE  UNCHANGED call
  BY <1>2 DEF SkipUntraceable, DeferPoll, Query, billingVars
<1>3. ASSUME NEW p \in Pollers, \/ FailTask(p) \/ BeginSettle(p) \/ Succeed(p)
                                \/ SettleThrew(p) \/ RefundEnded(p) \/ PollerDies(p)
                                \/ \E s : TimeOut(p, s)
      PROVE  Forget(p) \/ \E t : \E s \in {"settle", "refund"} : Begin(p, t, s)
  BY <1>3 DEF TimeOut, FailTask, BeginSettle, Succeed, SettleThrew, RefundEnded, PollerDies
<1>4. CASE LockLapses
  BY <1>4 DEF LockLapses, billingVars
<1> QED
  BY <1>1, <1>2, <1>3, <1>4 DEF PollStep

(* Outside the adapter a call only begins or ends. *)
LEMMA CallsFollow ==
  ASSUME HubInv, [Next]_vars
  PROVE  \A c \in Callers :
           \/ call'[c] = call[c]
           \/ BillingStep(c)
           \/ call'[c].step \in {"initBilling", "settle", "refund", "idle"}
<1> DEFINE All == \A c \in Callers :
             \/ call'[c] = call[c]
             \/ BillingStep(c)
             \/ call'[c].step \in {"initBilling", "settle", "refund", "idle"}
<1> SUFFICES All
  OBVIOUS
<1>0. (Tasks \cup Workers \cup Pollers) = Callers
  BY DEF Callers
<1>1. CASE UNCHANGED call
  BY <1>1
<1>2. ASSUME NEW c \in Callers,
             Forget(c) \/ \E t : \E s \in {"initBilling", "settle", "refund"} : Begin(c, t, s)
      PROVE  All
  BY <1>2, CallRecords
<1>3. CASE ApiStep \/ WorkerStep \/ PollStep
  BY <1>0, <1>1, <1>2, <1>3, ApiCalls, WorkerCalls, PollCalls
<1>4. ASSUME NEW c \in Callers, BillingStep(c) PROVE All
  BY <1>4, BillingMoves
<1> QED
  BY <1>1, <1>3, <1>4 DEF Next, vars, billingVars

(* Workers and cron handlers touch money and records through the adapter *)
(* only.                                                                 *)
LEMMA HandlersSpare ==
  ASSUME WorkerStep \/ PollStep
  PROVE  UNCHANGED <<wallet, record, held, debits>>
<1>1. ASSUME NEW w \in Workers, \/ LoadTask(w) \/ SubmitThrows(w) \/ FailUnroutable(w)
                                \/ Submit(w) \/ SubmitRefused(w) \/ SaveThrows(w)
      PROVE  UNCHANGED <<wallet, record, held, debits>>
  BY <1>1 DEF LoadTask, SubmitThrows, FailUnroutable, Submit, SubmitRefused, SaveThrows,
     billingVars
<1>2. ASSUME NEW w \in Workers, \/ SaveAccepted(w) \/ SaveAnswer(w) \/ FailSubmission(w)
                                \/ FinishJob(w) \/ WorkerDies(w)
      PROVE  UNCHANGED <<wallet, record, held, debits>>
  BY <1>2 DEF SaveAccepted, SaveAnswer, FailSubmission, FinishJob, WorkerDies, billingVars
<1>3. ASSUME NEW j, \/ TakeBack(j) \/ BackoffEnds(j) \/ \E w \in Workers : TakeJob(w, j)
      PROVE  UNCHANGED <<wallet, record, held, debits>>
  BY <1>3 DEF TakeJob, TakeBack, BackoffEnds, billingVars
<1>4. ASSUME NEW p \in Pollers, \/ AcquireLock(p) \/ FindPollable(p) \/ ReleaseLock(p)
                                \/ StillRunning(p) \/ RetryLater(p) \/ FailTask(p)
      PROVE  UNCHANGED <<wallet, record, held, debits>>
  BY <1>4 DEF AcquireLock, FindPollable, ReleaseLock, StillRunning, RetryLater, FailTask,
     billingVars
<1>5. ASSUME NEW p \in Pollers, NEW s, \/ SkipUntraceable(p, s) \/ TimeOut(p, s)
                                       \/ DeferPoll(p, s) \/ Query(p, s)
      PROVE  UNCHANGED <<wallet, record, held, debits>>
  BY <1>5 DEF SkipUntraceable, TimeOut, DeferPoll, Query, billingVars
<1>6. ASSUME NEW p \in Pollers, \/ BeginSettle(p) \/ Succeed(p) \/ SettleThrew(p)
                                \/ RefundEnded(p) \/ PollThrows(p) \/ PollerDies(p)
      PROVE  UNCHANGED <<wallet, record, held, debits>>
  BY <1>6 DEF BeginSettle, Succeed, SettleThrew, RefundEnded, PollThrows, PollerDies,
     billingVars
<1>7. LockLapses => UNCHANGED <<wallet, record, held, debits>>
  BY DEF LockLapses, billingVars
<1> QED
  BY <1>1, <1>2, <1>3, <1>4, <1>5, <1>6, <1>7 DEF WorkerStep, PollStep

(* Money and records change inside the adapter, or are credited. *)
LEMMA MoneyMoves ==
  ASSUME [Next]_vars
  PROVE  \/ UNCHANGED <<wallet, record, debits>>
         \/ \E c \in Callers : BillingStep(c)
         \/ UNCHANGED <<record, debits>> /\ \E k \in ApiKeys : CreditWallet(k)
<1>1. CASE ApiStep
  <2>1. ASSUME NEW t \in Tasks, BeginCreate(t) \/ BillingInitialised(t) \/ RequestDies(t)
        PROVE  UNCHANGED <<wallet, record, debits>>
    BY <2>1 DEF BeginCreate, BillingInitialised, RequestDies
  <2>2. ASSUME NEW t \in Tasks, \/ InsertTask(t) \/ RecordKey(t) \/ EnqueueTask(t)
                                \/ CancelTask(t) \/ BeginPriority(t) \/ FindWaiting(t)
                                \/ RemoveWaiting(t) \/ AddAgain(t) \/ ChangeDies(t)
        PROVE  UNCHANGED <<wallet, record, debits>>
    BY <2>2 DEF InsertTask, RecordKey, EnqueueTask, CancelTask, BeginPriority,
                FindWaiting, RemoveWaiting, AddAgain, ChangeDies, billingVars
  <2>3. \A k \in ApiKeys : CreditWallet(k) => UNCHANGED <<record, debits>>
    BY DEF CreditWallet
  <2> QED
    BY <1>1, <2>1, <2>2, <2>3 DEF ApiStep
<1>2. CASE WorkerStep \/ PollStep
  BY <1>2, HandlersSpare
<1> QED
  BY <1>1, <1>2 DEF Next, vars, billingVars

Spared == OthersNeverPay /\ WalletCallsInternal

LEMMA SparedStart == Init => Spared
BY MoneyAssumption DEF Init, BillingInit, WalletInit, Spared, OthersNeverPay,
   WalletCallsInternal, Touching, NoCall

(* A wallet changes only in the hands of its client's calls. *)
LEMMA WalletInHand ==
  ASSUME HubInv, NEW c \in Callers, BillingStep(c)
  PROVE  \A k \in ApiKeys : wallet'[k] # wallet[k] => k = Key(c) /\ call[c].step \in Touching
<1>1. wallet \in WalletType
  BY DEF HubInv, BillingOK, BillingType
<1>2. CASE UNCHANGED wallet
  BY <1>2
<1>3. CASE FreezeEstimate(c)
  BY <1>1, <1>3 DEF FreezeEstimate, Freeze, At, Touching, WalletType
<1>4. CASE ReleaseForSettle(c) \/ ReleaseForRefund(c)
  BY <1>1, <1>4
  DEF ReleaseForSettle, ReleaseForRefund, UnfreezeFor, Unfreeze, At, Touching, WalletType
<1>5. CASE DebitActual(c)
  BY <1>1, <1>5 DEF DebitActual, Debit, At, Touching, WalletType
<1> QED
  BY <1>2, <1>3, <1>4, <1>5
  DEF BillingStep, CreateRecord, MarkPreDeducted, ReadForSettle, MarkFailed, MarkSettled,
      ReadForRefund, GiveUpRelease, MarkRefunded, CallThrows

LEMMA SparedStep ==
  ASSUME HubInv, Spared, [Next]_vars
  PROVE  Spared'
<1>1. ASSUME NEW c \in Callers, call'[c].step \in Touching
      PROVE  Internal(c)'
  <2>1. call'[c].task = call[c].task /\ Internal(c)
    BY <1>1, CallsFollow, BillingMoves DEF Spared, WalletCallsInternal, Touching
  <2> QED
    BY <2>1 DEF Internal, Key
<1>2. CASE UNCHANGED wallet
  BY <1>1, <1>2 DEF Spared, OthersNeverPay, WalletCallsInternal
<1>3. ASSUME NEW c \in Callers, BillingStep(c) PROVE OthersNeverPay'
  <2>1. \A k \in ApiKeys : Policy[k] # "internal" => wallet'[k] = wallet[k]
    BY <1>3, WalletInHand DEF Spared, WalletCallsInternal, Internal
  <2> QED
    BY <2>1 DEF Spared, OthersNeverPay
<1>4. ASSUME NEW k \in ApiKeys, CreditWallet(k) PROVE OthersNeverPay'
  <2>1. wallet \in WalletType
    BY DEF HubInv, BillingOK, BillingType
  <2>2. PICK a \in Nat :
          wallet' = [wallet EXCEPT ![k] =
            [open |-> TRUE, balance |-> wallet[k].balance + a, frozen |-> wallet[k].frozen]]
    BY <1>4, MoneyAssumption DEF CreditWallet, Credit
  <2>3. OpeningBalance[k] \in Nat
    BY MoneyAssumption
  <2> QED
    BY <2>1, <2>2, <2>3 DEF Spared, OthersNeverPay, WalletType
<1> QED
  BY <1>1, <1>2, <1>3, <1>4, MoneyMoves DEF Spared, WalletCallsInternal

(* billing.adapter.ts: whatever is settled or refunded for a client that   *)
(* is external, exempt or without a policy, its wallet is left alone.      *)
THEOREM WalletsOfOthers == Spec => []OthersNeverPay
<1>1. Spared => OthersNeverPay
  BY DEF Spared
<1> QED
  BY <1>1, HubInvariant, SparedStart, SparedStep, PTL DEF Spec

-----------------------------------------------------------------------------
(* A task polled to success was paid for *)

(* A request inside initBilling has created the record before it returns. *)
Recording(t) ==
  /\ call[t].task = t
  /\ call[t].step \in {"initBilling", "freeze", "markPreDeducted"} \cup Ended
  /\ call[t].step \in {"freeze", "markPreDeducted", "returned"} /\ IsInternal(t)
       => record[t] # "none"

(* An internal client's task has its record before it is inserted. *)
RecordFirst ==
  \A t \in Tasks :
    /\ request[t] = "billing" => Recording(t)
    /\ IsInternal(t) /\ (request[t] = "inserting" \/ Present(t)) => record[t] # "none"

(* A batch is read from the collection, which loses nothing. *)
CopiesPresent ==
  \A p \in Pollers :
    /\ \A s \in poller[p].batch : Present(s.task)
    /\ poller[p].pc \in InHand => Present(Current(p))

Settling == {"settle", "release", "debit", "markSettled", "markFailed", "returned", "threw"}

(* A settlement that did not throw has debited, or found no record. *)
Settled(c) ==
  /\ call[c].step \in Settling
  /\ call[c].step \in {"markSettled", "returned"} /\ Internal(c) => debits[call[c].task] > 0

Settlements ==
  \A p \in Pollers : poller[p].pc = "settling" => call[p].task = Current(p) /\ Settled(p)

AnswersSynchronous ==
  \A w \in Workers : worker[w].pc = "answered" => worker[w].task \in Synchronous

PaidFor ==
  /\ RecordFirst
  /\ CopiesPresent
  /\ Settlements
  /\ AnswersSynchronous
  /\ PolledSuccessIsPaid

(* Neither records nor debits are taken back. *)
LEMMA HistoryStays ==
  ASSUME HubInv, [Next]_vars
  PROVE  \A t \in Tasks : /\ record[t] # "none" => record'[t] # "none"
                          /\ debits[t] > 0 => debits'[t] > 0
<1> DEFINE Kept == \A t \in Tasks : /\ record[t] # "none" => record'[t] # "none"
                                    /\ debits[t] > 0 => debits'[t] > 0
<1> SUFFICES Kept
  OBVIOUS
<1>0. record \in [Tasks -> RecordStatus] /\ debits \in [Tasks -> Nat]
  BY DEF HubInv, BillingOK, BillingType
<1>1. CASE UNCHANGED <<record, debits>>
  BY <1>1
<1>2. ASSUME NEW c \in Callers, BillingStep(c) PROVE Kept
  <2>1. CASE CreateRecord(c) \/ MarkFailed(c)
    BY <1>0, <2>1 DEF CreateRecord, MarkFailed
  <2>2. CASE MarkPreDeducted(c) \/ MarkSettled(c) \/ MarkRefunded(c)
    BY <1>0, <2>2 DEF MarkPreDeducted, MarkSettled, MarkRefunded, MoveRecord
  <2>3. CASE DebitActual(c)
    BY <1>0, <2>3 DEF DebitActual
  <2>4. CASE \/ FreezeEstimate(c) \/ ReadForSettle(c) \/ ReleaseForSettle(c)
             \/ ReadForRefund(c) \/ ReleaseForRefund(c) \/ GiveUpRelease(c) \/ CallThrows(c)
    BY <2>4 DEF FreezeEstimate, ReadForSettle, ReleaseForSettle, ReadForRefund,
                ReleaseForRefund, GiveUpRelease, CallThrows
  <2> QED
    BY <1>2, <2>1, <2>2, <2>3, <2>4 DEF BillingStep
<1> QED
  BY <1>1, <1>2, MoneyMoves

(* Inside initBilling: the record comes first. *)
LEMMA RecordingStep ==
  ASSUME HubInv, NEW t \in Tasks, Recording(t), BillingStep(t)
  PROVE  Recording(t)'
<1>0. t \in Callers /\ record \in [Tasks -> RecordStatus]
  BY DEF Callers, HubInv, BillingOK, BillingType
<1>1. \A s : call[t].step # "idle" /\ Continue(t, s) => call'[t].step = s /\ call'[t].task = t
  BY <1>0, CallRecords DEF Recording
<1>2. CASE CreateRecord(t)
  BY <1>0, <1>1, <1>2 DEF CreateRecord, At, Recording, IsInternal, Key, Ended
<1>3. CASE FreezeEstimate(t)
  BY <1>0, <1>1, <1>3 DEF FreezeEstimate, At, Recording, Ended
<1>4. CASE MarkPreDeducted(t)
  BY <1>0, <1>1, <1>4 DEF MarkPreDeducted, MoveRecord, At, Recording, Ended
<1>5. CASE CallThrows(t)
  BY <1>0, <1>1, <1>5 DEF CallThrows, Recording, Ended
<1> QED
  BY <1>2, <1>3, <1>4, <1>5
  DEF Recording, BillingStep, ReadForSettle, ReleaseForSettle, DebitActual, MarkFailed,
      MarkSettled, ReadForRefund, ReleaseForRefund, GiveUpRelease, MarkRefunded, At, Ended

(* Inside settle: with a record, an internal client's debit comes first. *)
LEMMA SettledStep ==
  ASSUME HubInv, NEW c \in Callers, Settled(c), BillingStep(c),
         Internal(c) => record[call[c].task] # "none"
  PROVE  Settled(c)' /\ call'[c].task = call[c].task
<1>0. call[c].step # "idle" /\ call[c].task \in Tasks /\ debits \in [Tasks -> Nat]
  BY InsideCall DEF Settled, Settling, HubInv, BillingOK, BillingType
<1>1. /\ \A s : Continue(c, s) => call'[c].step = s
      /\ call'[c].task = call[c].task
  BY <1>0, CallRecords, BillingMoves
<1>2. Internal(c)' <=> Internal(c)
  BY <1>1 DEF Internal, Key
<1> DEFINE Goal == Settled(c)'
<1> SUFFICES Goal
  BY <1>1
<1>3. CASE ReadForSettle(c)
  BY <1>1, <1>2, <1>3 DEF ReadForSettle, Settled, Settling
<1>4. CASE ReleaseForSettle(c) \/ MarkFailed(c) \/ CallThrows(c)
  BY <1>1, <1>4 DEF ReleaseForSettle, MarkFailed, CallThrows, Settled, Settling
<1>5. CASE DebitActual(c)
  <2>1. CASE Continue(c, "markSettled") /\ debits' = [debits EXCEPT ![call[c].task] = @ + 1]
    BY <1>0, <1>1, <2>1 DEF Settled, Settling
  <2>2. CASE Continue(c, "markFailed")
    BY <1>1, <2>2 DEF Settled, Settling
  <2> QED
    BY <1>5, <2>1, <2>2 DEF DebitActual
<1>6. CASE MarkSettled(c)
  BY <1>1, <1>2, <1>6 DEF MarkSettled, At, Settled, Settling
<1> QED
  BY <1>3, <1>4, <1>5, <1>6
  DEF BillingStep, CreateRecord, FreezeEstimate, MarkPreDeducted, ReadForRefund,
      ReleaseForRefund, GiveUpRelease, MarkRefunded, At, Settled, Settling

-----------------------------------------------------------------------------
(* Who may bring a request, a task or a handler where *)

(* A request's call is touched by its own steps alone. *)
LEMMA RequestCalls ==
  ASSUME HubInv, [Next]_vars, NEW t \in Tasks
  PROVE  /\ request'[t] = "billing" =>
              \/ request[t] = "billing" /\ (call'[t] = call[t] \/ BillingStep(t))
              \/ Begin(t, t, "initBilling")
         /\ request'[t] = "inserting" =>
              request[t] = "inserting" \/ (request[t] = "billing" /\ At(t, "returned"))
<1> DEFINE Goal == /\ request'[t] = "billing" =>
                        \/ request[t] = "billing" /\ (call'[t] = call[t] \/ BillingStep(t))
                        \/ Begin(t, t, "initBilling")
                   /\ request'[t] = "inserting" =>
                        request[t] = "inserting" \/ (request[t] = "billing" /\ At(t, "returned"))
<1> SUFFICES Goal
  OBVIOUS
<1>0. /\ request \in [Tasks -> RequestState]
      /\ Tasks \subseteq Callers /\ Workers \subseteq Callers /\ Pollers \subseteq Callers
      /\ \A c \in Workers \cup Pollers : c # t
  BY PopulationAssumption DEF HubInv, ApiType, Callers
<1>1. CASE UNCHANGED <<request, call>>
  BY <1>1
<1>2. ASSUME UNCHANGED request, NEW c \in Callers \ {t}, \A d \in Callers \ {c} : call'[d] = call[d]
      PROVE  Goal
  BY <1>0, <1>2
<1>3. ASSUME NEW u \in Tasks, BeginCreate(u) PROVE Goal
  <2>1. CASE u = t
    BY <1>0, <1>3, <2>1 DEF BeginCreate, SetRequest
  <2>2. CASE u # t /\ (UNCHANGED call \/ Begin(u, u, "initBilling"))
    BY <1>0, <1>3, <2>2, CallRecords DEF BeginCreate, SetRequest
  <2> QED
    BY <1>3, <2>1, <2>2 DEF BeginCreate
<1>4. ASSUME NEW u \in Tasks, BillingInitialised(u) \/ RequestDies(u) PROVE Goal
  <2>1. CASE u = t
    BY <1>0, <1>4, <2>1 DEF BillingInitialised, RequestDies, SetRequest
  <2>2. CASE u # t
    <3>1. call'[t] = call[t]
      BY <1>0, <1>4, <2>2, CallRecords DEF BillingInitialised, RequestDies
    <3> QED
      BY <1>0, <1>4, <2>2, <3>1 DEF BillingInitialised, RequestDies, SetRequest
  <2> QED
    BY <2>1, <2>2
<1>5. ASSUME NEW u \in Tasks, InsertTask(u) \/ RecordKey(u) \/ EnqueueTask(u) PROVE Goal
  BY <1>0, <1>5 DEF InsertTask, RecordKey, EnqueueTask, SetRequest, billingVars
<1>6. CASE ApiStep
  <2>1. ASSUME NEW u \in Tasks, \/ CancelTask(u) \/ BeginPriority(u) \/ FindWaiting(u)
                                \/ RemoveWaiting(u) \/ AddAgain(u) \/ ChangeDies(u)
        PROVE  Goal
    BY <1>1, <2>1 DEF CancelTask, BeginPriority, FindWaiting, RemoveWaiting, AddAgain,
                      ChangeDies, billingVars, apiVars
  <2>2. ASSUME NEW k \in ApiKeys, CreditWallet(k) PROVE Goal
    BY <1>1, <2>2 DEF CreditWallet
  <2> QED
    BY <1>3, <1>4, <1>5, <1>6, <2>1, <2>2 DEF ApiStep
<1>7. CASE (WorkerStep \/ PollStep) /\ UNCHANGED apiVars
  <2>1. UNCHANGED request
    BY <1>7 DEF apiVars
  <2>2. \/ UNCHANGED call
        \/ \E c \in Workers \cup Pollers : \A d \in Callers \ {c} : call'[d] = call[d]
    BY <1>0, <1>7, WorkerCalls, PollCalls, CallRecords
  <2> QED
    BY <1>0, <1>1, <1>2, <2>1, <2>2
<1>8. ASSUME UNCHANGED apiVars, NEW c \in Callers, BillingStep(c) PROVE Goal
  <2>1. CASE c = t
    BY <1>8, <2>1 DEF apiVars
  <2>2. CASE c # t
    BY <1>2, <1>8, <2>2, BillingMoves DEF apiVars
  <2> QED
    BY <2>1, <2>2
<1> QED
  BY <1>1, <1>6, <1>7, <1>8 DEF Next, vars, apiVars, billingVars

(* Tasks are inserted by InsertTask, and become SUCCESS in two places. *)
LEMMA TasksFollow ==
  ASSUME HubInv, [Next]_vars, NEW t \in Tasks
  PROVE  /\ task'[t].status # "absent" => Present(t) \/ InsertTask(t)
         /\ task'[t].status = "SUCCESS" =>
              \/ task[t].status = "SUCCESS"
              \/ \E w \in Workers : SaveAnswer(w) /\ worker[w].task = t
              \/ \E p \in Pollers : Succeed(p) /\ Current(p) = t
<1> DEFINE Goal ==
         /\ task'[t].status # "absent" => Present(t) \/ InsertTask(t)
         /\ task'[t].status = "SUCCESS" =>
              \/ task[t].status = "SUCCESS"
              \/ \E w \in Workers : SaveAnswer(w) /\ worker[w].task = t
              \/ \E p \in Pollers : Succeed(p) /\ Current(p) = t
<1> SUFFICES Goal
  OBVIOUS
<1>0. task \in [Tasks -> TaskDoc]
  BY DEF HubInv, StoreType
<1>1. ASSUME task'[t].status = task[t].status PROVE Goal
  BY <1>1 DEF Present
<1>2. ASSUME NEW u, NEW from \in SUBSET Open, NEW to, UpdateStatus(u, from, to), to # "SUCCESS" \/ u # t
      PROVE  Goal
  <2>1. CASE u = t /\ task[t].status \in from
    <3>1. task'[t].status = to /\ Present(t)
      BY <1>0, <1>2, <2>1 DEF UpdateStatus, Present, Open, TaskDoc
    <3> QED
      BY <1>2, <2>1, <3>1
  <2>2. CASE ~(u = t /\ task[t].status \in from)
    BY <1>0, <1>1, <1>2, <2>2 DEF UpdateStatus, TaskDoc
  <2> QED
    BY <2>1, <2>2
<1>3. CASE ApiStep
  <2>1. ASSUME NEW u \in Tasks, InsertTask(u) PROVE Goal
    BY <1>0, <1>1, <2>1 DEF InsertTask, TaskDoc
  <2>2. ASSUME NEW u \in Tasks, CancelTask(u) PROVE Goal
    BY <1>2, <2>2 DEF CancelTask, Cancellable, Open
  <2>3. \/ UNCHANGED task
        \/ \E u \in Tasks : InsertTask(u) \/ CancelTask(u)
    BY <1>3 DEF ApiStep, BeginCreate, BillingInitialised, RecordKey, EnqueueTask,
                RequestDies, BeginPriority, FindWaiting, RemoveWaiting, AddAgain,
                ChangeDies, CreditWallet, storeVars
  <2> QED
    BY <1>1, <2>1, <2>2, <2>3
<1>4. CASE WorkerStep
  <2>1. ASSUME NEW w \in Workers, SaveAnswer(w) PROVE Goal
    <3>1. CASE worker[w].task = t
      <4>1. worker[w].pc # "idle" /\ (Present(t) \/ task'[t].status = task[t].status)
        BY <1>0, <2>1, <3>1 DEF SaveAnswer, WorkerAt, UpdateStatus, Present, TaskDoc
      <4> QED
        BY <1>1, <2>1, <3>1, <4>1
    <3>2. CASE worker[w].task # t
      BY <1>2, <2>1, <3>2 DEF SaveAnswer, Open
    <3> QED
      BY <3>1, <3>2
  <2>2. ASSUME NEW w \in Workers, FailUnroutable(w) \/ SaveAccepted(w) \/ FailSubmission(w)
        PROVE  Goal
    BY <1>2, <2>2 DEF FailUnroutable, SaveAccepted, FailSubmission, Open
  <2>3. \/ UNCHANGED task
        \/ \E w \in Workers : \/ SaveAnswer(w) \/ FailUnroutable(w)
                              \/ SaveAccepted(w) \/ FailSubmission(w)
    BY <1>4 DEF WorkerStep, TakeJob, TakeBack, BackoffEnds, LoadTask, SubmitThrows, Submit,
       SubmitRefused, SaveThrows, FinishJob, WorkerDies, storeVars
  <2> QED
    BY <1>1, <2>1, <2>2, <2>3
<1>5. CASE PollStep
  <2>1. ASSUME NEW p \in Pollers, Succeed(p) PROVE Goal
    <3>1. CASE Current(p) = t
      <4>1. Present(t) \/ task'[t].status = task[t].status
        BY <1>0, <2>1, <3>1 DEF Succeed, UpdateStatus, Present, TaskDoc
      <4> QED
        BY <1>1, <2>1, <3>1, <4>1
    <3>2. CASE Current(p) # t
      BY <1>2, <2>1, <3>2 DEF Succeed, Open
    <3> QED
      BY <3>1, <3>2
  <2>2. ASSUME NEW p \in Pollers, FailTask(p) \/ \E s : TimeOut(p, s) PROVE Goal
    BY <1>2, <2>2 DEF FailTask, TimeOut, Open
  <2>3. ASSUME NEW p \in Pollers, \/ RetryLater(p) \/ StillRunning(p) \/ \E s : DeferPoll(p, s)
        PROVE  Goal
    <3>1. CASE StillRunning(p)
      <4>1. \/ task'[t].status = task[t].status
            \/ task[t].status = "SUBMITTED" /\ task'[t].status = "PROCESSING"
        BY <1>0, <3>1 DEF StillRunning, TaskDoc
      <4> QED
        BY <1>1, <4>1 DEF Present
    <3>2. ASSUME NEW u, DeferNextPoll(u) PROVE Goal
      BY <1>0, <1>1, <3>2 DEF DeferNextPoll, TaskDoc
    <3> QED
      BY <2>3, <3>1, <3>2 DEF RetryLater, DeferPoll
  <2>4. ASSUME NEW p \in Pollers, \/ AcquireLock(p) \/ FindPollable(p) \/ ReleaseLock(p)
                                  \/ BeginSettle(p) \/ SettleThrew(p) \/ RefundEnded(p)
                                  \/ PollThrows(p) \/ PollerDies(p)
                                  \/ \E s : SkipUntraceable(p, s) \/ Query(p, s)
        PROVE  Goal
    BY <1>1, <2>4 DEF AcquireLock, FindPollable, ReleaseLock, BeginSettle, SettleThrew,
       RefundEnded, PollThrows, PollerDies, SkipUntraceable, Query, storeVars
  <2>5. CASE LockLapses
    BY <1>1, <2>5 DEF LockLapses, storeVars
  <2> QED
    BY <1>5, <2>1, <2>2, <2>3, <2>4, <2>5 DEF PollStep
<1>6. CASE TimePasses
  <2>1. task'[t].status = task[t].status
    BY <1>0, <1>6 DEF TimePasses, BecomesDue, BecomesOverdue, ProviderFinishes, TaskDoc
  <2> QED
    BY <1>1, <2>1
<1>7. CASE UNCHANGED task
  BY <1>1, <1>7
<1> QED
  BY <1>3, <1>4, <1>5, <1>6, <1>7 DEF Next, vars, storeVars

(* A cron handler's copies come from its batch, the batch from the store;  *)
(* and it settles until its call ends.                                     *)
PollerFollows(p) ==
  /\ \A s \in poller'[p].batch :
       s \in poller[p].batch \/ \E t \in Tasks : s.task = t /\ Present(t)
  /\ poller'[p].pc \in InHand =>
       \/ poller[p].pc \in InHand /\ poller'[p].current = poller[p].current
       \/ poller'[p].current \in poller[p].batch
  /\ poller'[p].pc = "settling" =>
       \/ BeginSettle(p)
       \/ poller[p].pc = "settling" /\ poller'[p].current = poller[p].current

LEMMA PollersFollow ==
  ASSUME HubInv, [Next]_vars
  PROVE  \A p \in Pollers : PollerFollows(p)
<1> DEFINE All == \A p \in Pollers : PollerFollows(p)
<1> SUFFICES All
  OBVIOUS
<1>0. poller \in [Pollers -> [pc : PollerPc, batch : SUBSET Copies,
                              current : Copies \cup {NoCopy}]]
  BY DEF HubInv, PollType
<1>1. CASE UNCHANGED poller
  BY <1>1 DEF PollerFollows
<1>2. ASSUME NEW p \in Pollers, NEW doc, poller' = [poller EXCEPT ![p] = doc],
             doc.batch \subseteq poller[p].batch, doc.pc \notin InHand
      PROVE  All
  BY <1>0, <1>2 DEF PollerFollows, InHand
<1>3. ASSUME NEW p \in Pollers, AcquireLock(p) PROVE All
  BY <1>0, <1>3 DEF AcquireLock, PollerTo, PollerFollows, InHand
<1>4. ASSUME NEW p \in Pollers, FindPollable(p) PROVE All
  BY <1>0, <1>4 DEF FindPollable, ReadBatch, CopyOf, FirstDue, Pollable, Present,
     PollerFollows, InHand
<1>5. ASSUME NEW p \in Pollers, NEW s, poller' = [poller EXCEPT ![p].batch = @ \ {s}]
      PROVE  All
  BY <1>0, <1>5 DEF PollerFollows
<1>6. ASSUME NEW p \in Pollers, NEW s \in poller[p].batch, NEW pc \in PollerPc \ {"settling"},
             WorkOn(p, s, pc)
      PROVE  All
  BY <1>0, <1>6 DEF WorkOn, PollerFollows
<1>7. ASSUME NEW p \in Pollers, NextInBatch(p) PROVE All
  <2> DEFINE doc == [pc |-> "polling", batch |-> poller[p].batch, current |-> NoCopy]
  <2>1. poller' = [poller EXCEPT ![p] = doc]
    BY <1>7 DEF NextInBatch
  <2>2. doc.batch \subseteq poller[p].batch /\ doc.pc \notin InHand
    BY DEF InHand
  <2> QED
    BY <1>2, <2>1, <2>2
<1>8. ASSUME NEW p \in Pollers, poller' = [poller EXCEPT ![p] = Idle] PROVE All
  BY <1>2, <1>8 DEF Idle, InHand
<1>9. ASSUME NEW p \in Pollers, FailTask(p) \/ BeginSettle(p) PROVE All
  BY <1>0, <1>9 DEF FailTask, BeginSettle, PollerTo, PollerAt, PollerFollows, InHand
<1>10. CASE PollStep
  <2>1. ASSUME NEW p \in Pollers, NEW s \in poller[p].batch,
               SkipUntraceable(p, s) \/ TimeOut(p, s) \/ DeferPoll(p, s) \/ Query(p, s)
        PROVE  All
    <3>1. \A pc \in {"refunding", "succeeded", "failed", "processing", "retryable", "fatal"} :
            pc \in PollerPc \ {"settling"}
      BY DEF PollerPc
    <3> QED
      BY <1>5, <1>6, <2>1, <3>1 DEF SkipUntraceable, TimeOut, DeferPoll, Query
  <2>2. ASSUME NEW p \in Pollers, \/ ReleaseLock(p) \/ StillRunning(p) \/ RetryLater(p)
                                  \/ Succeed(p) \/ SettleThrew(p) \/ RefundEnded(p)
                                  \/ PollThrows(p) \/ PollerDies(p)
        PROVE  All
    BY <1>5, <1>7, <1>8, <2>2 DEF ReleaseLock, StillRunning, RetryLater, Succeed,
       SettleThrew, RefundEnded, PollThrows, PollerDies
  <2>3. CASE LockLapses
    BY <1>1, <2>3 DEF LockLapses
  <2> QED
    BY <1>3, <1>4, <1>9, <1>10, <2>1, <2>2, <2>3 DEF PollStep
<1> QED
  BY <1>1, <1>10 DEF Next, vars, pollVars

(* While a poller settles, its call is the adapter's. *)
LEMMA SettlementCalls ==
  ASSUME HubInv, [Next]_vars, NEW p \in Pollers,
         poller[p].pc = "settling", poller'[p].pc = "settling"
  PROVE  call'[p] = call[p] \/ BillingStep(p)
<1>0. /\ poller \in [Pollers -> [pc : PollerPc, batch : SUBSET Copies,
                                 current : Copies \cup {NoCopy}]]
      /\ Tasks \subseteq Callers /\ Workers \subseteq Callers /\ Pollers \subseteq Callers
      /\ \A c \in Tasks \cup Workers : c # p
  BY PopulationAssumption DEF HubInv, PollType, Callers
<1>1. ASSUME NEW c \in Callers \ {p}, \A d \in Callers \ {c} : call'[d] = call[d]
      PROVE  call'[p] = call[p]
  BY <1>0, <1>1
<1>2. CASE ApiStep \/ WorkerStep
  <2>1. UNCHANGED call \/ \E c \in Tasks \cup Workers : \A d \in Callers \ {c} : call'[d] = call[d]
    BY <1>0, <1>2, ApiCalls, WorkerCalls, CallRecords
  <2> QED
    BY <1>0, <1>1, <2>1
<1>3. CASE PollStep
  <2>1. ASSUME NEW q \in Pollers,
               \/ FailTask(q) \/ BeginSettle(q) \/ Succeed(q) \/ SettleThrew(q)
               \/ RefundEnded(q) \/ PollerDies(q) \/ \E s : TimeOut(q, s)
        PROVE  q # p
    <3>1. \/ poller'[q].pc # "settling"
          \/ BeginSettle(q)
      BY <1>0, <2>1 DEF FailTask, Succeed, SettleThrew, RefundEnded, PollerDies, TimeOut,
         PollerTo, NextInBatch, WorkOn, Idle
    <3> QED
      BY <3>1 DEF BeginSettle, PollerAt
  <2>2. UNCHANGED call \/ \E q \in Pollers :
          /\ q # p
          /\ \A d \in Callers \ {q} : call'[d] = call[d]
    <3>1. ASSUME NEW q \in Pollers,
                 \/ AcquireLock(q) \/ FindPollable(q) \/ ReleaseLock(q)
                 \/ StillRunning(q) \/ RetryLater(q) \/ PollThrows(q)
                 \/ \E s : SkipUntraceable(q, s) \/ DeferPoll(q, s) \/ Query(q, s)
          PROVE  UNCHANGED call
      BY <3>1 DEF AcquireLock, FindPollable, ReleaseLock, StillRunning, RetryLater,
         PollThrows, SkipUntraceable, DeferPoll, Query, billingVars
    <3>2. ASSUME NEW q \in Pollers,
                 \/ FailTask(q) \/ BeginSettle(q) \/ Succeed(q) \/ SettleThrew(q)
                 \/ RefundEnded(q) \/ PollerDies(q) \/ \E s : TimeOut(q, s)
          PROVE  \A d \in Callers \ {q} : call'[d] = call[d]
      BY <1>0, <3>2, CallRecords DEF FailTask, BeginSettle, Succeed, SettleThrew,
         RefundEnded, PollerDies, TimeOut
    <3>3. LockLapses => UNCHANGED call
      BY DEF LockLapses, billingVars
    <3> QED
      BY <1>3, <2>1, <3>1, <3>2, <3>3 DEF PollStep
  <2> QED
    BY <1>0, <1>1, <2>2
<1>4. ASSUME NEW c \in Callers, BillingStep(c) PROVE call'[p] = call[p] \/ BillingStep(p)
  BY <1>0, <1>4, BillingMoves
<1>5. CASE UNCHANGED call
  BY <1>5
<1> QED
  BY <1>2, <1>3, <1>4, <1>5 DEF Next, vars, billingVars

(* Only a synchronous provider answers a worker. *)
LEMMA AnswersSynchronousStep ==
  ASSUME HubInv, AnswersSynchronous, [Next]_vars
  PROVE  AnswersSynchronous'
<1>0. worker \in [Workers -> Handlers]
  BY DEF HubInv, WorkerType
<1>1. CASE UNCHANGED worker
  BY <1>1 DEF AnswersSynchronous
<1>2. ASSUME NEW w \in Workers, \A v \in Workers \ {w} : worker'[v] = worker[v],
             worker'[w].pc = "answered" => worker'[w].task \in Synchronous
      PROVE  AnswersSynchronous'
  BY <1>2 DEF AnswersSynchronous
<1>3. ASSUME NEW w \in Workers, \E pc \in WorkerPc \ {"answered"} : WorkerTo(w, pc) \/ Return(w) \/ Throw(w)
      PROVE  AnswersSynchronous'
  BY <1>2, <1>3, WorkerMoves
<1>4. ASSUME NEW w \in Workers, NEW j \in JobIds, TakeJob(w, j) PROVE AnswersSynchronous'
  BY <1>0, <1>4 DEF TakeJob, AnswersSynchronous
<1>5. ASSUME NEW w \in Workers, Submit(w) PROVE AnswersSynchronous'
  <2>1. \/ \E pc : WorkerTo(w, pc) /\ (pc = "answered" => worker[w].task \in Synchronous)
        \/ Throw(w)
    BY <1>5 DEF Submit
  <2> QED
    BY <1>2, <2>1, WorkerMoves
<1>6. ASSUME NEW j \in JobIds, TakeBack(j) PROVE AnswersSynchronous'
  <2>1. \A w \in Workers : HandlerFollows(w)
    BY HandlersFollow
  <2>2. \A w \in Workers : worker'[w].pc = worker[w].pc /\ worker'[w].task = worker[w].task
    <3>1. ASSUME NEW w \in Workers, worker[w].job = j
          PROVE  LET doc == [worker[w] EXCEPT !.job = 0]
                 IN  doc.pc = worker[w].pc /\ doc.task = worker[w].task
      BY <1>0 DEF Handlers, NoHandler
    <3> QED
      BY <1>6, <3>1 DEF TakeBack
  <2> QED
    BY <2>2 DEF AnswersSynchronous
<1>7. ASSUME NEW w \in Workers, FinishJob(w) \/ WorkerDies(w) PROVE AnswersSynchronous'
  BY <1>0, <1>7 DEF FinishJob, WorkerDies, Return, NoHandler, AnswersSynchronous
<1>8. ASSUME NEW w \in Workers,
             \/ LoadTask(w) \/ SubmitThrows(w) \/ FailUnroutable(w) \/ SubmitRefused(w)
             \/ SaveThrows(w) \/ SaveAccepted(w) \/ SaveAnswer(w) \/ FailSubmission(w)
      PROVE  \E pc \in WorkerPc \ {"answered"} : WorkerTo(w, pc) \/ Return(w) \/ Throw(w)
  BY <1>8 DEF LoadTask, SubmitThrows, FailUnroutable, SubmitRefused, SaveThrows,
     SaveAccepted, SaveAnswer, FailSubmission, WorkerPc
<1>9. ASSUME NEW j \in JobIds, BackoffEnds(j) PROVE UNCHANGED worker
  BY <1>9 DEF BackoffEnds
<1>10. CASE WorkerStep
  BY <1>1, <1>3, <1>4, <1>5, <1>6, <1>7, <1>8, <1>9, <1>10 DEF WorkerStep
<1> QED
  BY <1>1, <1>10 DEF Next, vars

LEMMA PaidForStart == Init => PaidFor
BY PopulationAssumption
DEF Init, BillingInit, StoreInit, ApiInit, WorkerInit, PollInit, PaidFor, RecordFirst,
    CopiesPresent, Settlements, AnswersSynchronous, PolledSuccessIsPaid, Present, NoTask,
    Idle, InHand, NoHandler

(* The record is there before the task, so every settlement finds it and   *)
(* debits; and the poller that settled is the one that reports success.    *)
LEMMA PaidForStep ==
  ASSUME HubInv, PaidFor, [Next]_vars
  PROVE  PaidFor'
<1>0. /\ HubInv'
      /\ \A t \in Tasks : /\ Present(t) => task'[t].status # "absent"
                          /\ record[t] # "none" => record'[t] # "none"
                          /\ debits[t] > 0 => debits'[t] > 0
      /\ Tasks \subseteq Callers /\ Pollers \subseteq Callers
  BY HubStep, HubStutter, PresentStays, HistoryStays DEF Callers
<1>1. RecordFirst'
  <2> SUFFICES ASSUME NEW t \in Tasks
               PROVE  /\ request'[t] = "billing" => Recording(t)'
                      /\ IsInternal(t) /\ (request'[t] = "inserting" \/ task'[t].status # "absent")
                           => record'[t] # "none"
    BY DEF RecordFirst, Present, IsInternal
  <2>1. ASSUME request'[t] = "billing" PROVE Recording(t)'
    <3>1. CASE request[t] = "billing" /\ call'[t] = call[t]
      BY <1>0, <3>1 DEF PaidFor, RecordFirst, Recording, IsInternal
    <3>2. CASE request[t] = "billing" /\ BillingStep(t)
      BY <3>2, RecordingStep DEF PaidFor, RecordFirst
    <3>3. CASE Begin(t, t, "initBilling")
      BY <1>0, <3>3, CallRecords DEF Recording, Ended
    <3> QED
      BY <2>1, <3>1, <3>2, <3>3, RequestCalls
  <2>2. ASSUME IsInternal(t), request'[t] = "inserting" \/ task'[t].status # "absent"
        PROVE  record'[t] # "none"
    <3>1. \/ request[t] = "inserting" \/ Present(t)
          \/ request[t] = "billing" /\ At(t, "returned")
      BY <2>2, RequestCalls, TasksFollow DEF InsertTask
    <3> QED
      BY <1>0, <2>2, <3>1 DEF PaidFor, RecordFirst, Recording, At
  <2> QED
    BY <2>1, <2>2
<1>2. CopiesPresent'
  <2> SUFFICES ASSUME NEW p \in Pollers
               PROVE  /\ \A s \in poller'[p].batch : task'[s.task].status # "absent"
                      /\ poller'[p].pc \in InHand => task'[Current(p)'].status # "absent"
    BY DEF CopiesPresent, Present
  <2>0. PollerFollows(p)
    BY PollersFollow
  <2>1. poller[p].batch \subseteq Copies /\ (poller[p].pc \in InHand => Current(p) \in Tasks)
    BY DEF HubInv, PollType, CopiesNamed, Copies, Current
  <2>2. \A s \in poller[p].batch : s.task \in Tasks /\ task'[s.task].status # "absent"
    BY <1>0, <2>1 DEF Copies, PaidFor, CopiesPresent
  <2>3. poller[p].pc \in InHand => task'[Current(p)].status # "absent"
    BY <1>0, <2>1 DEF PaidFor, CopiesPresent
  <2> QED
    BY <1>0, <2>0, <2>2, <2>3 DEF PollerFollows, Current
<1>3. Settlements'
  <2> SUFFICES ASSUME NEW p \in Pollers, poller'[p].pc = "settling"
               PROVE  call'[p].task = Current(p)' /\ Settled(p)'
    BY DEF Settlements
  <2>1. CASE BeginSettle(p)
    <3>1. /\ call'[p].step = "settle" /\ call'[p].task = Current(p)
      BY <1>0, <2>1, CallRecords DEF BeginSettle
    <3>2. Current(p)' = Current(p)
      BY <2>1 DEF BeginSettle, PollerTo, Current, HubInv, PollType
    <3> QED
      BY <3>1, <3>2 DEF Settled, Settling
  <2>2. CASE poller[p].pc = "settling" /\ poller'[p].current = poller[p].current
    <3>0. /\ call[p].task = Current(p) /\ Settled(p) /\ Current(p)' = Current(p)
          /\ Current(p) \in Tasks
      BY <2>2 DEF PaidFor, Settlements, Current, HubInv, CopiesNamed, InHand, Copies
    <3>1. Internal(p) => record[call[p].task] # "none"
      BY <2>2, <3>0 DEF PaidFor, CopiesPresent, RecordFirst, InHand, Internal, IsInternal, Key
    <3>2. CASE call'[p] = call[p]
      BY <1>0, <3>0, <3>2 DEF Settled, Internal, Key
    <3>3. CASE BillingStep(p)
      BY <1>0, <3>0, <3>1, <3>3, SettledStep
    <3> QED
      BY <2>2, <3>2, <3>3, SettlementCalls
  <2> QED
    BY <2>1, <2>2, PollersFollow DEF PollerFollows
<1>4. AnswersSynchronous'
  BY AnswersSynchronousStep DEF PaidFor
<1>5. PolledSuccessIsPaid'
  <2> SUFFICES ASSUME NEW t \in Tasks, task'[t].status = "SUCCESS", IsInternal(t), t \notin Synchronous
               PROVE  debits'[t] > 0
    BY DEF PolledSuccessIsPaid, IsInternal
  <2>1. CASE task[t].status = "SUCCESS"
    BY <1>0, <2>1 DEF PaidFor, PolledSuccessIsPaid
  <2>2. ASSUME NEW w \in Workers, SaveAnswer(w) PROVE worker[w].task # t
    BY <2>2 DEF SaveAnswer, WorkerAt, PaidFor, AnswersSynchronous
  <2>3. ASSUME NEW p \in Pollers, Succeed(p), Current(p) = t PROVE debits'[t] > 0
    <3>1. call[p].task = t /\ call[p].step = "returned" /\ Settled(p)
      BY <2>3 DEF Succeed, At, PollerAt, PaidFor, Settlements
    <3>2. debits[t] > 0
      BY <3>1 DEF Settled, Internal, IsInternal, Key
    <3> QED
      BY <1>0, <3>2
  <2> QED
    BY <2>1, <2>2, <2>3, TasksFollow
<1> QED
  BY <1>1, <1>2, <1>3, <1>4, <1>5 DEF PaidFor

(* polling.service.ts settles first and reports success second: an         *)
(* internal client's task that was polled to success has been debited,     *)
(* whoever died, was late, threw or polled it as well.                     *)
THEOREM SuccessWasPaid == Spec => []PolledSuccessIsPaid
<1>1. PaidFor => PolledSuccessIsPaid
  BY DEF PaidFor
<1> QED
  BY <1>1, HubInvariant, PaidForStart, PaidForStep, PTL DEF Spec
=============================================================================
