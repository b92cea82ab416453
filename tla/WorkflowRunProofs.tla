------------------------- MODULE WorkflowRunProofs -------------------------
(***************************************************************************)
(* What a run of a workflow promises, for every workflow, any number of    *)
(* executors and retry requests, and everything that may go wrong at once. *)
(*                                                                         *)
(* The handlers decide on copies of different age. The argument is that an *)
(* entry of nodeStates that has ended never changes, so that whatever an   *)
(* old copy says of such an entry is still true: the last copy in which    *)
(* every node has ended is the state of the nodes for ever.                *)
(*                                                                         *)
(* The lease of a run is given back by the handler that ended it: such a   *)
(* handler goes on to release and to nothing else, and where nobody        *)
(* retries, an ended run stays ended.  That the lease expires while the    *)
(* run goes on gives nothing back, so it disturbs neither.                 *)
(*                                                                         *)
(* A cancellation takes its copy of the nodes in the step that ends the    *)
(* run.  A child task that is not in the copy has yet to be recorded by    *)
(* the executor that created it, which finds the run ended (Known); for    *)
(* this a job must be in one place only (Places).                          *)
(***************************************************************************)
EXTENDS WorkflowRun, FiniteSetTheorems, TLAPS

USE WorkflowAssumption

Points ==
  {"idle", "start", "save", "schedule", "skip", "enqueue", "add", "finalize", "release",
   "complete", "afterComplete", "succeed", "next", "fail", "afterFail", "failRun",
   "removeJobs", "cancelTasks", "acquire", "claim", "saveRetry", "spent",
   "evaluate", "createTask", "taskCreated", "compensate", "wait"}

UseView == {"skip", "enqueue", "add", "finalize"}

UseJob == {"add", "complete", "fail", "evaluate", "createTask", "taskCreated", "compensate", "wait"}

Loop == [todo : SUBSET Nodes, room : Int, view : Views]

Call == [pc : Points, job : Jobs \cup {None}, view : Views \cup {None},
         todo : SUBSET Nodes, room : Int, rest : Loop \cup {None}]

(* A call in progress by itself *)
Shape(c) ==
  /\ c \in Call
  /\ c.pc \in UseView => c.view \in Views
  /\ c.pc \in UseJob => c.job \in Jobs
  /\ c.pc = "finalize" => AllIn(c.view, Ended)

(* What a copy says of ended nodes, and of attempts, is true of nd *)
Agrees(view, nd) ==
  \A n \in Nodes : /\ view[n].status \in Ended => nd[n].status = view[n].status
                   /\ view[n].attempt = nd[n].attempt

Current(c, nd) ==
  /\ c.view # None \/ c.pc \in UseView => Agrees(c.view, nd)
  /\ c.rest # None => Agrees(c.rest.view, nd)

HandlersInv ==
  /\ WorkflowType /\ workflow \in Workflow
  /\ handler \in [Handlers -> Call]
  /\ \A h \in Handlers : Shape(handler[h]) /\ Current(handler[h], node)

SomeFailed == \E n \in Nodes : node[n].status = "failed"

(* The story of a run: a retry is only for a run with a failed node, which *)
(* stays failed, so that a cancelled run it sets running cannot succeed    *)
StoryInv ==
  /\ SucceededIsComplete
  /\ wasCancelled => status \in {"cancelled", "deleted"} \/ SomeFailed
  /\ \A n \in Nodes : node[n].status = "cancelled" => wasCancelled
  /\ status = "absent" => ~wasCancelled /\ ~SomeFailed
  /\ \A h \in Handlers :
       /\ handler[h].pc \in {"start", "save"} => h = Starter /\ status = "absent"
       /\ handler[h].pc \in {"acquire", "claim", "saveRetry"} => SomeFailed

(* The jobs of a node: none while it is pending, then one, added once *)
OnceInv ==
  /\ \A n \in Nodes : node[n].status = "pending" =>
       /\ \A a \in Attempts : added[<<n, a>>] = 0
       /\ \A h \in Handlers : handler[h].pc = "add" => handler[h].job[1] # n
  /\ \A h \in Handlers : handler[h].pc = "add" => added[handler[h].job] = 0
  /\ \A g, h \in Handlers : handler[g].pc = "add" /\ handler[h].pc = "add" /\ g # h =>
       handler[g].job # handler[h].job
  /\ EnqueuedOnce

-----------------------------------------------------------------------------
(* A handler comes to the call c *)

(* The points that mean more than where a handler is *)
NewPoint(h, c) ==
  /\ c.pc # "start"
  /\ c.pc = "save" => handler[h].pc = "start" /\ UNCHANGED status
  /\ c.pc \in {"claim", "saveRetry"} => handler[h].pc \in {"acquire", "claim"}
  /\ c.pc = "acquire" => SomeFailed
  /\ c.pc = "add" => /\ node[c.job[1]].status = "pending"
                     /\ node'[c.job[1]].status = "running"

Comes(h, c, nd) ==
  /\ handler' = [handler EXCEPT ![h] = c]
  /\ Shape(c) /\ Current(c, nd)

Plain(c) == c.pc \notin {"start", "save", "acquire", "claim", "saveRetry", "add"}

Arrives(h) == \E c : Comes(h, c, node') /\ NewPoint(h, c)

LEMMA HandlerSets == /\ Starter \in Handlers /\ Canceller \in Handlers
                     /\ Executors \subseteq Handlers /\ Retriers \subseteq Handlers
BY DEF Handlers

LEMMA IdleShape == Shape(Idle) /\ Current(Idle, node) /\ Plain(Idle) /\ Idle.rest = None
BY DEF Shape, Current, Idle, Call, Points, UseView, UseJob, Plain

(* Only the point changes *)
LEMMA PointShape ==
  ASSUME HandlersInv, NEW h \in Handlers, NEW pc \in Points \ {"skip", "enqueue", "add", "finalize"},
         pc \in UseJob => handler[h].job \in Jobs, Goto(h, pc)
  PROVE  \E c : Comes(h, c, node) /\ c.pc = pc
<1> DEFINE c == [handler[h] EXCEPT !.pc = pc]
<1>1. handler[h] \in Call /\ Shape(handler[h]) /\ Current(handler[h], node)
  BY DEF HandlersInv
<1>2. /\ c.pc = pc /\ c.view = handler[h].view /\ c.rest = handler[h].rest
      /\ c.job = handler[h].job /\ c \in Call
  BY <1>1 DEF Call
<1>3. Shape(c)
  BY <1>1, <1>2 DEF Shape, UseView
<1>4. Current(c, node)
  BY <1>1, <1>2 DEF Current, UseView
<1>5. handler' = [handler EXCEPT ![h] = c]
  BY DEF Goto
<1> HIDE DEF c
<1> QED
  BY <1>2, <1>3, <1>4, <1>5 DEF Comes

(* A call returns to the loop it was made from, with the loop's old copy *)
LEMMA ReturnShape ==
  ASSUME HandlersInv, NEW h \in Handlers, Return(h)
  PROVE  \E c : Comes(h, c, node) /\ Plain(c)
<1>1. handler[h] \in Call /\ Current(handler[h], node)
  BY DEF HandlersInv
<1>2. CASE handler[h].rest = None
  <2>1. handler' = [handler EXCEPT ![h] = Idle]
    BY <1>2 DEF Return
  <2> QED
    BY <2>1, IdleShape DEF Comes
<1>3. CASE handler[h].rest # None
  <2> DEFINE loop == handler[h].rest
             c == [Idle EXCEPT !.pc = "enqueue", !.view = loop.view, !.todo = loop.todo,
                               !.room = loop.room]
  <2>1. loop \in Loop
    BY <1>1, <1>3 DEF Call
  <2>2. handler' = [handler EXCEPT ![h] = c]
    BY <1>3 DEF Return
  <2>3. /\ c.pc = "enqueue" /\ c.view = loop.view /\ c.rest = None /\ c.job = None
        /\ c \in Call
    BY <2>1 DEF Idle, Call, Loop, Points
  <2>4. Agrees(loop.view, node)
    BY <1>1, <1>3, <2>1 DEF Current
  <2>5. loop.view \in Views
    BY <2>1 DEF Loop
  <2> HIDE DEF c, loop
  <2> QED
    BY <2>2, <2>3, <2>4, <2>5 DEF Comes, Plain, Shape, Current, UseJob
<1> QED
  BY <1>2, <1>3

LEMMA CurrentLater ==
  ASSUME NEW c, Current(c, node),
         \A n \in Nodes : /\ node[n].status \in Ended => node'[n].status = node[n].status
                          /\ node'[n].attempt = node[n].attempt
  PROVE  Current(c, node')
BY DEF Current, Agrees

-----------------------------------------------------------------------------
(* The entries of nodeStates *)

Forward ==
  \A n \in Nodes : /\ node[n].status \in Ended => node'[n].status = node[n].status
                   /\ node'[n].attempt = node[n].attempt
                   /\ node'[n].status = "pending" => node[n].status = "pending"
                   /\ node'[n].status = "cancelled" => node[n].status = "cancelled" \/ CancelRun

(* One entry changes its status, by an update filtered on a running run *)
LEMMA SetForward ==
  ASSUME HandlersInv, NEW n \in Nodes, NEW s \in {"running", "succeeded", "failed", "skipped"},
         node[n].status \notin Ended, Set(n, s)
  PROVE  Forward /\ node' \in Views
<1>1. node \in [Nodes -> NodeState]
  BY DEF HandlersInv, WorkflowType, Views
<1>2. node' = [node EXCEPT ![n] = [node[n] EXCEPT !.status = s]]
  BY DEF Set
<1>3. /\ [node[n] EXCEPT !.status = s] \in NodeState /\ [node[n] EXCEPT !.status = s].status = s
      /\ [node[n] EXCEPT !.status = s].attempt = node[n].attempt
  BY <1>1 DEF NodeState, Ended
<1>4. node' \in Views
  BY <1>1, <1>2, <1>3 DEF Views
<1>5. \A m \in Nodes : /\ node'[m].status = IF m = n THEN s ELSE node[m].status
                       /\ node'[m].attempt = node[m].attempt
  BY <1>1, <1>2, <1>3
<1> QED
  BY <1>4, <1>5 DEF Forward, Ended

LEMMA SameForward == UNCHANGED node => Forward
BY DEF Forward

LEMMA NodeKept ==
  ASSUME HandlersInv, WorkflowNext
  PROVE  Forward /\ node' \in Views
<1>0. node \in [Nodes -> NodeState] /\ node \in Views
  BY DEF HandlersInv, WorkflowType, Views
<1>1. \A h \in Handlers : handler[h] \in Call /\ Shape(handler[h])
  BY DEF HandlersInv
<1>2. CASE UNCHANGED node
  BY <1>0, <1>2, SameForward
<1>3. ASSUME NEW h \in Handlers, SkipOne(h) PROVE Forward /\ node' \in Views
  <2>1. PICK n \in handler[h].todo :
          IF Claims(n, "pending") THEN Set(n, "skipped") ELSE UNCHANGED node
    BY <1>3 DEF SkipOne
  <2>2. n \in Nodes
    BY <1>1 DEF Call
  <2>3. CASE Claims(n, "pending")
    BY <2>1, <2>2, <2>3, SetForward DEF Claims, Ended
  <2> QED
    BY <1>2, <2>1, <2>3
<1>4. ASSUME NEW h \in Handlers, EnqueueNext(h) PROVE Forward /\ node' \in Views
  <2>1. UNCHANGED node \/ \E n \in handler[h].todo : Claimable(n) /\ Set(n, "running")
    BY <1>4 DEF EnqueueNext
  <2>2. ASSUME NEW n \in handler[h].todo, Claimable(n) /\ Set(n, "running")
        PROVE Forward /\ node' \in Views
    <3>1. n \in Nodes
      BY <1>1 DEF Call
    <3> QED
      BY <2>2, <3>1, SetForward DEF Claimable, Claims, Ended
  <2> QED
    BY <1>2, <2>1, <2>2
<1>5. ASSUME NEW h \in Handlers, ClaimComplete(h) PROVE Forward /\ node' \in Views
  <2>1. At(h, "complete")
    BY <1>5 DEF ClaimComplete
  <2>2. NodeOf(h) \in Nodes
    BY <1>1, <2>1 DEF At, Shape, UseJob, NodeOf, Jobs
  <2>3. CASE Claims(NodeOf(h), "running")
    <3>1. PICK b \in Branches \cup {None} :
            node' = [node EXCEPT ![NodeOf(h)].status = "succeeded", ![NodeOf(h)].out = b]
      BY <1>5, <2>3 DEF ClaimComplete
    <3> DEFINE s == [node[NodeOf(h)] EXCEPT !.status = "succeeded", !.out = b]
    <3>2. s \in NodeState /\ s.status = "succeeded" /\ s.attempt = node[NodeOf(h)].attempt
      BY <1>0, <2>2 DEF NodeState, Ended
    <3>3. node' = [node EXCEPT ![NodeOf(h)] = s]
      BY <3>1, <1>0, <2>2
    <3> HIDE DEF s
    <3>4. \A m \in Nodes :
            /\ node'[m].status = IF m = NodeOf(h) THEN "succeeded" ELSE node[m].status
            /\ node'[m].attempt = node[m].attempt
      BY <1>0, <3>2, <3>3
    <3>5. node' \in Views
      BY <1>0, <3>2, <3>3 DEF Views
    <3> QED
      BY <2>2, <2>3, <3>4, <3>5 DEF Forward, Ended, Claims
  <2> QED
    BY <1>2, <1>5, <2>3 DEF ClaimComplete
<1>6. ASSUME NEW h \in Handlers, ClaimFailed(h) PROVE Forward /\ node' \in Views
  <2>1. At(h, "fail")
    BY <1>6 DEF ClaimFailed
  <2>2. NodeOf(h) \in Nodes
    BY <1>1, <2>1 DEF At, Shape, UseJob, NodeOf, Jobs
  <2>3. CASE Claims(NodeOf(h), "running")
    BY <1>6, <2>2, <2>3, SetForward DEF ClaimFailed, Claims, Ended
  <2> QED
    BY <1>2, <1>6, <2>3 DEF ClaimFailed
<1>7. ASSUME NEW x \in Executors, OnTaskCreated(x) PROVE Forward /\ node' \in Views
  <2>1. UNCHANGED node \/ node' = [node EXCEPT ![NodeOf(x)].task = TRUE]
    BY <1>7 DEF OnTaskCreated
  <2>2. CASE node' = [node EXCEPT ![NodeOf(x)].task = TRUE]
    <3>1. \A m \in Nodes : /\ node'[m].status = node[m].status
                           /\ node'[m].attempt = node[m].attempt
                           /\ node'[m] \in NodeState
      BY <1>0, <2>2 DEF NodeState
    <3>2. node' = [m \in Nodes |-> node'[m]]
      BY <1>0, <2>2
    <3> QED
      BY <3>1, <3>2 DEF Forward, Views
  <2> QED
    BY <1>2, <2>1, <2>2
<1>8. ASSUME CancelRun PROVE Forward /\ node' \in Views
  <2>1. node' = [n \in Nodes |-> [node[n] EXCEPT !.status =
                  IF @ \in {"pending", "running"} THEN "cancelled" ELSE @]]
    BY <1>8 DEF CancelRun
  <2>2. \A m \in Nodes :
          /\ node'[m] \in NodeState
          /\ node'[m].attempt = node[m].attempt
          /\ node'[m].status = IF node[m].status \in {"pending", "running"} THEN "cancelled"
                               ELSE node[m].status
    BY <1>0, <2>1 DEF NodeState, Ended
  <2> QED
    BY <1>8, <2>1, <2>2 DEF Forward, Views, Ended
<1>9. \A r \in Retriers : SaveRetry(r) => UNCHANGED node
  BY DEF SaveRetry, RetrySaves
<1> QED
  BY <1>2, <1>3, <1>4, <1>5, <1>6, <1>7, <1>8, <1>9
     DEF WorkflowNext, AcquireToStart, SaveRun, StartThrows, Proceeds, AddThrows, Executes,
         Stall, Retries, Cancels, TaskEnds, DeleteWorkflow, OtherRuns, LeaseExpires, StatsOnly,
         ReadToSchedule, Finalize, ReleaseRun, AddJob, AfterComplete, SucceedRun, ScheduleNext,
         AfterFail, FailRun, TakeJob, Evaluate, CreateTask, Compensate, Await,
         RemoveJobs, CancelTasks, FindFailed, AcquireToRetry, ClaimRetry, RetryThrows

LEMMA TypeKept ==
  ASSUME HandlersInv, WorkflowNext
  PROVE  WorkflowType' /\ workflow' \in Workflow
<1>0. /\ status \in {"absent", "deleted", "running", "succeeded", "failed", "cancelled"}
      /\ defined \in BOOLEAN
      /\ slots \in Slots
      /\ queue \subseteq Jobs
      /\ task \in [Jobs -> {"none", "open", "asked", "succeeded", "failed"}]
      /\ stalls \in 0..MaxStalls /\ added \in [Jobs -> Nat] /\ wasCancelled \in BOOLEAN
      /\ workflow \in Workflow
  BY DEF HandlersInv, WorkflowType
<1>1. \A h \in Handlers : handler[h].pc \in UseJob => JobOf(h) \in Jobs
  BY DEF HandlersInv, Shape, JobOf
<1>2. workflow' = workflow /\ environment' = environment
  BY ZenonT(60) DEF WorkflowNext, fixed, AcquireToStart, SaveRun, StartThrows, Proceeds, AddThrows, Executes,
         Stall, Retries, Cancels, TaskEnds, DeleteWorkflow, OtherRuns, LeaseExpires, StatsOnly,
         ReadToSchedule, SkipOne, Finalize, ReleaseRun, EnqueueNext, AddJob, ClaimComplete,
         AfterComplete, SucceedRun, ScheduleNext, ClaimFailed, AfterFail, FailRun,
         TakeJob, Evaluate, CreateTask, OnTaskCreated, Compensate, Await,
         CancelRun, RemoveJobs, CancelTasks, FindFailed, AcquireToRetry, ClaimRetry, SaveRetry,
         RetryThrows
<1>3. status' \in {"absent", "deleted", "running", "succeeded", "failed", "cancelled"}
  BY <1>0, ZenonT(60) DEF WorkflowNext, AcquireToStart, SaveRun, StartThrows, Proceeds, AddThrows, Executes,
         Stall, Retries, Cancels, TaskEnds, DeleteWorkflow, OtherRuns, LeaseExpires, StatsOnly,
         ReadToSchedule, SkipOne, Finalize, ReleaseRun, EnqueueNext, AddJob, ClaimComplete,
         AfterComplete, SucceedRun, ScheduleNext, ClaimFailed, AfterFail, FailRun,
         TakeJob, Evaluate, CreateTask, OnTaskCreated, Compensate, Await,
         CancelRun, RemoveJobs, CancelTasks, FindFailed, AcquireToRetry, ClaimRetry, SaveRetry,
         RetryThrows
<1>4. defined' \in BOOLEAN /\ wasCancelled' \in BOOLEAN
  BY <1>0, ZenonT(60) DEF WorkflowNext, AcquireToStart, SaveRun, StartThrows, Proceeds, AddThrows, Executes,
         Stall, Retries, Cancels, TaskEnds, DeleteWorkflow, OtherRuns, LeaseExpires, StatsOnly,
         ReadToSchedule, SkipOne, Finalize, ReleaseRun, EnqueueNext, AddJob, ClaimComplete,
         AfterComplete, SucceedRun, ScheduleNext, ClaimFailed, AfterFail, FailRun,
         TakeJob, Evaluate, CreateTask, OnTaskCreated, Compensate, Await,
         CancelRun, RemoveJobs, CancelTasks, FindFailed, AcquireToRetry, ClaimRetry, SaveRetry,
         RetryThrows
<1>5. slots' \in Slots
  <2>1. CASE UNCHANGED slots
    BY <1>0, <2>1
  <2>2. CASE \E s \in {"free", "held", "without"} : slots' = [slots EXCEPT !.mine = s]
    BY <1>0, <2>2 DEF Slots
  <2>3. CASE HasRoom /\ slots' = [slots EXCEPT !.others = @ + 1]
    BY <1>0, <2>3 DEF HasRoom, Slots
  <2>4. CASE slots.others > 0 /\ slots' = [slots EXCEPT !.others = @ - 1]
    BY <1>0, <2>4 DEF Slots
  <2>5. Admitted => \E s \in {"free", "held", "without"} : slots' = [slots EXCEPT !.mine = s]
    BY DEF Admitted
  <2> QED
    BY <2>1, <2>2, <2>3, <2>4, <2>5
       DEF WorkflowNext, AcquireToStart, SaveRun, StartThrows, Proceeds, AddThrows, Executes,
         Stall, Retries, Cancels, TaskEnds, DeleteWorkflow, OtherRuns, LeaseExpires, StatsOnly,
         ReadToSchedule, SkipOne, Finalize, ReleaseRun, EnqueueNext, AddJob, ClaimComplete,
         AfterComplete, SucceedRun, ScheduleNext, ClaimFailed, AfterFail, FailRun,
         TakeJob, Evaluate, CreateTask, OnTaskCreated, Compensate, Await,
         CancelRun, RemoveJobs, CancelTasks, FindFailed, AcquireToRetry, ClaimRetry, SaveRetry,
         RetryThrows
<1>6. queue' \subseteq Jobs /\ stalls' \in 0..MaxStalls /\ added' \in [Jobs -> Nat]
  <2>1. CASE UNCHANGED <<queue, stalls, added>>
    BY <1>0, <2>1
  <2>2. ASSUME NEW h \in Handlers, AddJob(h)
        PROVE  queue' \subseteq Jobs /\ stalls' \in 0..MaxStalls /\ added' \in [Jobs -> Nat]
    BY <1>0, <1>1, <2>2 DEF AddJob, At, UseJob
  <2>3. ASSUME NEW x \in Executors, TakeJob(x)
        PROVE  queue' \subseteq Jobs /\ stalls' \in 0..MaxStalls /\ added' \in [Jobs -> Nat]
    BY <1>0, <2>3 DEF TakeJob
  <2>4. ASSUME NEW x \in Executors, Stall(x)
        PROVE  queue' \subseteq Jobs /\ stalls' \in 0..MaxStalls /\ added' \in [Jobs -> Nat]
    BY <1>0, <1>1, <2>4, HandlerSets DEF Stall, UseJob
  <2>5. CASE RemoveJobs
    BY <1>0, <2>5 DEF RemoveJobs
  <2> QED
    BY <2>1, <2>2, <2>3, <2>4, <2>5
       DEF WorkflowNext, AcquireToStart, SaveRun, StartThrows, Proceeds, AddThrows, Executes,
         Retries, Cancels, TaskEnds, DeleteWorkflow, OtherRuns, LeaseExpires, StatsOnly,
         ReadToSchedule, SkipOne, Finalize, ReleaseRun, EnqueueNext, ClaimComplete,
         AfterComplete, SucceedRun, ScheduleNext, ClaimFailed, AfterFail, FailRun,
         Evaluate, CreateTask, OnTaskCreated, Compensate, Await,
         CancelRun, CancelTasks, FindFailed, AcquireToRetry, ClaimRetry, SaveRetry,
         RetryThrows
<1>7. task' \in [Jobs -> {"none", "open", "asked", "succeeded", "failed"}]
  <2>1. CASE UNCHANGED task
    BY <1>0, <2>1
  <2>2. ASSUME NEW x \in Executors, CreateTask(x) \/ Compensate(x)
        PROVE  task' \in [Jobs -> {"none", "open", "asked", "succeeded", "failed"}]
    BY <1>0, <2>2 DEF CreateTask, Compensate, AskToCancel
  <2>3. CASE CancelTasks
    BY <1>0, <2>3 DEF CancelTasks
  <2>4. ASSUME NEW j \in Jobs, TaskEnds(j)
        PROVE  task' \in [Jobs -> {"none", "open", "asked", "succeeded", "failed"}]
    BY <1>0, <2>4 DEF TaskEnds
  <2> QED
    BY <2>1, <2>2, <2>3, <2>4
       DEF WorkflowNext, AcquireToStart, SaveRun, StartThrows, Proceeds, AddThrows, Executes,
         Stall, Retries, Cancels, DeleteWorkflow, OtherRuns, LeaseExpires, StatsOnly,
         ReadToSchedule, SkipOne, Finalize, ReleaseRun, EnqueueNext, AddJob, ClaimComplete,
         AfterComplete, SucceedRun, ScheduleNext, ClaimFailed, AfterFail, FailRun,
         TakeJob, Evaluate, OnTaskCreated, Await,
         CancelRun, RemoveJobs, FindFailed, AcquireToRetry, ClaimRetry, SaveRetry,
         RetryThrows
<1> QED
  BY <1>0, <1>2, <1>3, <1>4, <1>5, <1>6, <1>7, NodeKept DEF WorkflowType

-----------------------------------------------------------------------------
(* The calls in progress *)

LEMMA ComesArrives ==
  ASSUME HandlersInv, WorkflowNext, NEW h \in Handlers, NEW c, Comes(h, c, node), Plain(c)
  PROVE  Arrives(h)
<1>1. Current(c, node')
  BY NodeKept, CurrentLater DEF Comes, Forward
<1> QED
  BY <1>1 DEF Arrives, Comes, NewPoint, Plain

PlainPoints == Points \ (UseView \cup {"start", "save", "acquire", "claim", "saveRetry"})

LEMMA GotoArrives ==
  ASSUME HandlersInv, WorkflowNext, NEW h \in Handlers, NEW pc \in PlainPoints,
         pc \in UseJob => handler[h].job \in Jobs, Goto(h, pc)
  PROVE  Arrives(h)
<1>1. PICK c : Comes(h, c, node) /\ c.pc = pc
  BY PointShape DEF PlainPoints, UseView
<1> QED
  BY <1>1, ComesArrives DEF PlainPoints, UseView, Plain

LEMMA ReturnArrives ==
  ASSUME HandlersInv, WorkflowNext, NEW h \in Handlers, Return(h)
  PROVE  Arrives(h)
BY ReturnShape, ComesArrives

(* The handler that made a start or a retry throw gives the lease back *)
LEMMA ReleaseArrives ==
  ASSUME HandlersInv, WorkflowNext, NEW h \in Handlers,
         handler' = [handler EXCEPT ![h] = [Idle EXCEPT !.pc = "release"]]
  PROVE  Arrives(h)
<1> DEFINE c == [Idle EXCEPT !.pc = "release"]
<1>1. Shape(c) /\ Current(c, node) /\ Plain(c)
  BY DEF Shape, Current, Idle, Call, Points, UseView, UseJob, Plain
<1> HIDE DEF c
<1>2. Comes(h, c, node)
  BY <1>1 DEF Comes, c
<1> QED
  BY <1>1, <1>2, ComesArrives

(* scheduleReadyNodes, once the nodes to skip have been skipped *)
LEMMA AfterSkipsShape ==
  ASSUME HandlersInv, NEW h \in Handlers, NEW view \in Views, Agrees(view, node)
  PROVE  /\ Shape(AfterSkips(h, view)) /\ Current(AfterSkips(h, view), node)
         /\ Plain(AfterSkips(h, view))
<1> DEFINE room == workflow.maxParallelism - Cardinality(RunningIn(view))
           f == [handler[h] EXCEPT !.pc = "finalize", !.view = view, !.todo = {}]
           e == [handler[h] EXCEPT !.pc = "enqueue", !.view = view,
                   !.todo = ReadyNodes(view), !.room = room]
<1>0. handler[h] \in Call /\ Current(handler[h], node)
  BY DEF HandlersInv
<1>1. CASE AllIn(view, Ended)
  <2>1. AfterSkips(h, view) = f
    BY <1>1 DEF AfterSkips
  <2>2. /\ f.pc = "finalize" /\ f.view = view /\ f.rest = handler[h].rest
        /\ f \in Call
    BY <1>0 DEF Call, Points
  <2> HIDE DEF f
  <2> QED
    BY <1>0, <1>1, <2>1, <2>2 DEF Shape, Current, Plain, UseJob
<1>2. CASE ~AllIn(view, Ended)
  <2>1. AfterSkips(h, view) = e
    BY <1>2 DEF AfterSkips
  <2>2. room \in Int
    <3>1. RunningIn(view) \subseteq Nodes
      BY DEF RunningIn
    <3>2. Cardinality(RunningIn(view)) \in Nat
      BY <3>1, FS_Subset, FS_CardinalityType
    <3>3. workflow.maxParallelism \in Nat
      BY DEF HandlersInv, Workflow
    <3> QED
      BY <3>2, <3>3
  <2>3. ReadyNodes(view) \subseteq Nodes
    BY DEF ReadyNodes
  <2> HIDE DEF room
  <2>4. /\ e.pc = "enqueue" /\ e.view = view /\ e.rest = handler[h].rest
        /\ e \in Call
    BY <1>0, <2>2, <2>3 DEF Call, Points
  <2> HIDE DEF e
  <2> QED
    BY <1>0, <2>1, <2>4 DEF Shape, Current, Plain, UseJob
<1> QED
  BY <1>1, <1>2

LEMMA ScheduleArrives ==
  ASSUME HandlersInv, WorkflowNext, NEW h \in Handlers, ReadToSchedule(h)
  PROVE  Arrives(h)
<1>0. /\ handler[h] \in Call /\ Current(handler[h], node)
      /\ handler \in [Handlers -> Call] /\ node \in Views
  BY DEF HandlersInv, WorkflowType
<1>1. CASE status # "running"
  BY <1>1, ReturnArrives DEF ReadToSchedule
<1>2. CASE status = "running" /\ ToSkip(node) # {}
  <2> DEFINE c == [handler[h] EXCEPT !.pc = "skip", !.view = node, !.todo = ToSkip(node),
                                     !.room = 0]
  <2>1. handler' = [handler EXCEPT ![h] = c]
    BY <1>2 DEF ReadToSchedule
  <2>2. ToSkip(node) \in SUBSET Nodes /\ node \in Views \cup {None} /\ 0 \in Int
    BY <1>0 DEF ToSkip
  <2>3. c.pc = "skip" /\ c.view = node /\ c.rest = handler[h].rest /\ c \in Call
    BY <1>0, <2>2 DEF Call, Points
  <2> HIDE DEF c
  <2>4. Agrees(node, node)
    BY DEF Agrees
  <2>5. Shape(c) /\ Current(c, node) /\ Plain(c)
    BY <1>0, <2>3, <2>4 DEF Shape, Current, Plain, UseJob
  <2> QED
    BY <2>1, <2>5, ComesArrives DEF Comes
<1>3. CASE status = "running" /\ ToSkip(node) = {}
  <2>1. handler' = [handler EXCEPT ![h] = AfterSkips(h, node)]
    BY <1>0, <1>3 DEF ReadToSchedule
  <2>2. Agrees(node, node)
    BY DEF Agrees
  <2> QED
    BY <1>0, <2>1, <2>2, AfterSkipsShape, ComesArrives DEF Comes
<1> QED
  BY <1>1, <1>2, <1>3

LEMMA SkipArrives ==
  ASSUME HandlersInv, WorkflowNext, NEW h \in Handlers, SkipOne(h)
  PROVE  Arrives(h)
<1>0. /\ handler[h] \in Call /\ Current(handler[h], node) /\ Shape(handler[h])
      /\ handler[h].pc = "skip"
  BY DEF HandlersInv, SkipOne, At
<1>1. handler[h].view \in Views /\ Agrees(handler[h].view, node)
  BY <1>0 DEF Shape, Current, UseView
<1>2. PICK n \in handler[h].todo, skipped \in Int, left \in SUBSET Nodes :
        handler' = [handler EXCEPT ![h] =
               IF left # {} THEN [@ EXCEPT !.todo = left, !.room = skipped]
               ELSE IF skipped > 0 THEN [@ EXCEPT !.pc = "schedule", !.todo = {}, !.view = None]
               ELSE AfterSkips(h, handler[h].view)]
  <2>1. PICK n \in handler[h].todo :
         LET skipped == handler[h].room + (IF Claims(n, "pending") THEN 1 ELSE 0)
              left == handler[h].todo \ {n}
          IN handler' = [handler EXCEPT ![h] =
               IF left # {} THEN [@ EXCEPT !.todo = left, !.room = skipped]
               ELSE IF skipped > 0 THEN [@ EXCEPT !.pc = "schedule", !.todo = {}, !.view = None]
               ELSE AfterSkips(h, handler[h].view)]
    BY DEF SkipOne
  <2>2. /\ handler[h].room + (IF Claims(n, "pending") THEN 1 ELSE 0) \in Int
        /\ handler[h].todo \ {n} \in SUBSET Nodes
    BY <1>0 DEF Call
  <2> QED
    BY <2>1, <2>2
<1>3. handler \in [Handlers -> Call]
  BY DEF HandlersInv
<1>4. CASE left # {}
  <2> DEFINE c == [handler[h] EXCEPT !.todo = left, !.room = skipped]
  <2>1. handler' = [handler EXCEPT ![h] = c]
    BY <1>2, <1>3, <1>4
  <2>2. /\ c.pc = "skip" /\ c.view = handler[h].view /\ c.rest = handler[h].rest
        /\ c \in Call
    BY <1>0, <1>2 DEF Call
  <2> HIDE DEF c
  <2>3. Shape(c) /\ Current(c, node) /\ Plain(c)
    BY <1>0, <1>1, <2>2 DEF Shape, Current, Plain, UseJob
  <2> QED
    BY <2>1, <2>3, ComesArrives DEF Comes
<1>5. CASE left = {} /\ skipped > 0
  <2> DEFINE c == [handler[h] EXCEPT !.pc = "schedule", !.todo = {}, !.view = None]
  <2>1. handler' = [handler EXCEPT ![h] = c]
    BY <1>2, <1>3, <1>5
  <2>2. c.pc = "schedule" /\ c.view = None /\ c.rest = handler[h].rest /\ c \in Call
    BY <1>0 DEF Call, Points
  <2> HIDE DEF c
  <2>3. Shape(c) /\ Current(c, node) /\ Plain(c)
    BY <1>0, <2>2 DEF Shape, Current, Plain, UseJob, UseView
  <2> QED
    BY <2>1, <2>3, ComesArrives DEF Comes
<1>6. CASE left = {} /\ ~(skipped > 0)
  <2>1. handler' = [handler EXCEPT ![h] = AfterSkips(h, handler[h].view)]
    BY <1>2, <1>3, <1>6
  <2> QED
    BY <1>1, <2>1, AfterSkipsShape, ComesArrives DEF Comes
<1> QED
  BY <1>4, <1>5, <1>6

(* enqueueNode claims the node before it adds the job *)
LEMMA EnqueueArrives ==
  ASSUME HandlersInv, WorkflowNext, NEW h \in Handlers, EnqueueNext(h)
  PROVE  Arrives(h)
<1>0. /\ handler[h] \in Call /\ Current(handler[h], node) /\ Shape(handler[h])
      /\ handler[h].pc = "enqueue" /\ handler \in [Handlers -> Call]
      /\ node \in [Nodes -> NodeState]
  BY DEF HandlersInv, EnqueueNext, At, WorkflowType, Views
<1>1. handler[h].view \in Views /\ Agrees(handler[h].view, node)
  BY <1>0 DEF Shape, Current, UseView
<1>2. CASE Return(h)
  BY <1>2, ReturnArrives
<1>3. ASSUME NEW n \in handler[h].todo, Claimable(n), Set(n, "running"),
             handler' = [handler EXCEPT ![h].pc = "add", ![h].todo = @ \ {n},
                           ![h].job = <<n, handler[h].view[n].attempt>>]
      PROVE  Arrives(h)
  <2> DEFINE job == <<n, handler[h].view[n].attempt>>
             c == [handler[h] EXCEPT !.pc = "add", !.todo = @ \ {n}, !.job = job]
  <2>1. n \in Nodes
    BY <1>0 DEF Call
  <2>2. job \in Jobs /\ job[1] = n
    BY <1>1, <2>1 DEF Jobs, Views, NodeState
  <2> HIDE DEF job
  <2>3. handler' = [handler EXCEPT ![h] = c]
    BY <1>0, <1>3 DEF job
  <2>4. /\ c.pc = "add" /\ c.job = job /\ c.view = handler[h].view /\ c.rest = handler[h].rest
        /\ c \in Call
    BY <1>0, <2>2 DEF Call, Points
  <2>5. node[n].status = "pending" /\ node'[n].status = "running"
    BY <1>0, <1>3, <2>1 DEF Claimable, Claims, Set, NodeState
  <2> HIDE DEF c
  <2>6. Shape(c) /\ Current(c, node)
    BY <1>0, <1>1, <2>2, <2>4 DEF Shape, Current, UseJob, UseView
  <2>7. Current(c, node')
    BY <2>6, NodeKept, CurrentLater DEF Forward
  <2> QED
    BY <2>2, <2>3, <2>4, <2>5, <2>6, <2>7 DEF Arrives, Comes, NewPoint
<1>4. ASSUME NEW n \in handler[h].todo, handler' = [handler EXCEPT ![h].todo = @ \ {n}]
      PROVE  Arrives(h)
  <2> DEFINE c == [handler[h] EXCEPT !.todo = @ \ {n}]
  <2>1. handler' = [handler EXCEPT ![h] = c]
    BY <1>0, <1>4
  <2>2. /\ c.pc = "enqueue" /\ c.view = handler[h].view /\ c.rest = handler[h].rest
        /\ c \in Call
    BY <1>0 DEF Call
  <2> HIDE DEF c
  <2>3. Shape(c) /\ Current(c, node) /\ Plain(c)
    BY <1>0, <1>1, <2>2 DEF Shape, Current, Plain, UseJob
  <2> QED
    BY <2>1, <2>3, ComesArrives DEF Comes
<1> QED
  BY <1>2, <1>3, <1>4 DEF EnqueueNext

LEMMA AddArrives ==
  ASSUME HandlersInv, WorkflowNext, NEW h \in Handlers, AddJob(h) \/ AddThrows(h)
  PROVE  Arrives(h)
<1>0. /\ handler[h] \in Call /\ Current(handler[h], node) /\ Shape(handler[h])
      /\ handler[h].pc = "add" /\ handler \in [Handlers -> Call]
  BY DEF HandlersInv, AddJob, AddThrows, At
<1>1. handler[h].view \in Views /\ Agrees(handler[h].view, node) /\ handler[h].job \in Jobs
  BY <1>0 DEF Shape, Current, UseView, UseJob
<1>2. CASE AddJob(h)
  <2>1. PICK k \in Int : k = handler[h].room - 1
    BY <1>0 DEF Call
  <2> DEFINE c == [handler[h] EXCEPT !.pc = "enqueue", !.room = k]
  <2>2. handler' = [handler EXCEPT ![h] = c]
    BY <1>0, <1>2, <2>1 DEF AddJob
  <2>3. /\ c.pc = "enqueue" /\ c.view = handler[h].view /\ c.rest = handler[h].rest
        /\ c \in Call
    BY <1>0 DEF Call, Points
  <2> HIDE DEF c
  <2>4. Shape(c) /\ Current(c, node) /\ Plain(c)
    BY <1>0, <1>1, <2>3 DEF Shape, Current, Plain, UseJob
  <2> QED
    BY <2>2, <2>4, ComesArrives DEF Comes
<1>3. CASE AddThrows(h)
  <2> DEFINE loop == [todo |-> handler[h].todo, room |-> handler[h].room,
                      view |-> handler[h].view]
             c == [handler[h] EXCEPT !.pc = "fail", !.rest = loop]
  <2>1. handler' = [handler EXCEPT ![h] = c]
    BY <1>0, <1>3 DEF AddThrows
  <2>2. loop \in Loop /\ loop.view = handler[h].view
    BY <1>0, <1>1 DEF Loop, Call
  <2> HIDE DEF loop
  <2>3. /\ c.pc = "fail" /\ c.view = handler[h].view /\ c.rest = loop
        /\ c.job = handler[h].job /\ c \in Call
    BY <1>0, <2>2 DEF Call, Points
  <2> HIDE DEF c
  <2>4. Shape(c) /\ Current(c, node) /\ Plain(c)
    BY <1>0, <1>1, <2>2, <2>3 DEF Shape, Current, Plain, UseView
  <2> QED
    BY <2>1, <2>4, ComesArrives DEF Comes
<1> QED
  BY <1>2, <1>3

(* The requests that start, cancel and retry *)
LEMMA RequestArrives ==
  ASSUME HandlersInv, WorkflowNext
  PROVE  /\ AcquireToStart \/ SaveRun \/ StartThrows => Arrives(Starter)
         /\ Cancels => Arrives(Canceller)
         /\ \A r \in Retriers : Retries(r) => Arrives(r)
<1>0. \A h \in Handlers : handler[h] \in Call /\ Current(handler[h], node) /\ Shape(handler[h])
  BY DEF HandlersInv
<1>1. ASSUME NEW h \in Handlers, NEW pc \in {"save", "acquire", "claim", "saveRetry"}, Goto(h, pc),
             pc = "save" => handler[h].pc = "start" /\ UNCHANGED status,
             pc \in {"claim", "saveRetry"} => handler[h].pc \in {"acquire", "claim"},
             pc = "acquire" => SomeFailed
      PROVE  Arrives(h)
  <2>1. PICK c : Comes(h, c, node) /\ c.pc = pc
    BY <1>1, PointShape DEF Points, UseJob
  <2>2. Current(c, node')
    BY <2>1, NodeKept, CurrentLater DEF Comes, Forward
  <2> QED
    BY <1>1, <2>1, <2>2 DEF Arrives, Comes, NewPoint
<1>2. ASSUME AcquireToStart PROVE Arrives(Starter)
  BY <1>1, <1>2, HandlerSets DEF AcquireToStart, At
<1>3. ASSUME SaveRun PROVE Arrives(Starter)
  BY <1>3, GotoArrives, HandlerSets DEF SaveRun, PlainPoints, Points, UseView, UseJob
<1>4. ASSUME StartThrows PROVE Arrives(Starter)
  BY <1>4, ReleaseArrives, HandlerSets DEF StartThrows
<1>5. ASSUME RemoveJobs \/ CancelTasks PROVE Arrives(Canceller)
  BY <1>5, GotoArrives, HandlerSets DEF RemoveJobs, CancelTasks, PlainPoints, Points, UseView, UseJob
<1>6. ASSUME CancelRun PROVE Arrives(Canceller)
  <2>1. PICK v \in Views : v = node'
    BY NodeKept
  <2> DEFINE c == [Idle EXCEPT !.pc = "removeJobs", !.view = v]
  <2>2. handler' = [handler EXCEPT ![Canceller] = c]
    BY <1>6, <2>1 DEF CancelRun
  <2>3. c.pc = "removeJobs" /\ c.view = v /\ c.rest = None /\ c \in Call
    <3>1. Idle \in Call /\ Idle.rest = None
      BY IdleShape DEF Shape
    <3> QED
      BY <3>1 DEF Call, Points
  <2> HIDE DEF c
  <2>4. Agrees(v, node')
    BY <2>1 DEF Agrees
  <2>5. Shape(c) /\ Current(c, node') /\ Plain(c)
    BY <2>3, <2>4 DEF Shape, Current, Plain, UseView, UseJob
  <2> QED
    BY <2>2, <2>5 DEF Arrives, Comes, NewPoint, Plain
<1>7. ASSUME NEW r \in Retriers, FindFailed(r) PROVE Arrives(r)
  <2> DEFINE c == [handler[r] EXCEPT !.pc = "acquire", !.view = node]
  <2>0. r \in Handlers /\ handler \in [Handlers -> Call] /\ node \in Views \cup {None}
    BY HandlerSets DEF HandlersInv, WorkflowType
  <2>1. handler' = [handler EXCEPT ![r] = c]
    BY <1>7, <2>0 DEF FindFailed
  <2>2. c.pc = "acquire" /\ c.view = node /\ c.rest = handler[r].rest /\ c \in Call
    <3>1. handler[r] \in Call
      BY <2>0
    <3>2. "acquire" \in Points
      BY DEF Points
    <3> QED
      BY <2>0, <3>1, <3>2 DEF Call
  <2> HIDE DEF c
  <2>3. Agrees(node, node)
    BY DEF Agrees
  <2>4. Shape(c) /\ Current(c, node)
    BY <1>0, <2>0, <2>2, <2>3 DEF Shape, Current, UseView, UseJob
  <2>5. Current(c, node')
    BY <2>4, NodeKept, CurrentLater DEF Forward
  <2>6. SomeFailed
    BY <1>7 DEF FindFailed, SomeFailed
  <2> QED
    BY <2>1, <2>2, <2>4, <2>5, <2>6 DEF Arrives, Comes, NewPoint
<1>8. ASSUME NEW r \in Retriers, AcquireToRetry(r) \/ ClaimRetry(r) PROVE Arrives(r)
  BY <1>1, <1>8, GotoArrives, HandlerSets
     DEF AcquireToRetry, ClaimRetry, At, PlainPoints, Points, UseView, UseJob
<1>9. ASSUME NEW r \in Retriers, SaveRetry(r) PROVE Arrives(r)
  BY <1>9, GotoArrives, HandlerSets DEF SaveRetry, PlainPoints, Points, UseView, UseJob
<1>10. ASSUME NEW r \in Retriers, RetryThrows(r) PROVE Arrives(r)
  BY <1>10, ReleaseArrives, HandlerSets DEF RetryThrows
<1> QED
  BY <1>2, <1>3, <1>4, <1>5, <1>6, <1>7, <1>8, <1>9, <1>10 DEF Cancels, Retries

(* What follows the end of a node *)
LEMMA ProceedArrives ==
  ASSUME HandlersInv, WorkflowNext, NEW h \in Handlers, Proceeds(h)
  PROVE  Arrives(h)
<1>1. CASE Finalize(h) \/ ReleaseRun(h)
  BY <1>1, ReturnArrives, GotoArrives
     DEF Finalize, ReleaseRun, PlainPoints, Points, UseView, UseJob
<1>2. CASE ClaimComplete(h) \/ AfterComplete(h) \/ SucceedRun(h) \/ ScheduleNext(h)
  BY <1>2, ReturnArrives, GotoArrives
     DEF ClaimComplete, AfterComplete, SucceedRun, ScheduleNext, PlainPoints, Points,
         UseView, UseJob
<1>3. CASE ClaimFailed(h) \/ AfterFail(h) \/ FailRun(h)
  BY <1>3, ReturnArrives, GotoArrives
     DEF ClaimFailed, AfterFail, FailRun, PlainPoints, Points, UseView, UseJob
<1> QED
  BY <1>1, <1>2, <1>3, ScheduleArrives, SkipArrives, EnqueueArrives, AddArrives DEF Proceeds

LEMMA ExecuteArrives ==
  ASSUME HandlersInv, WorkflowNext, NEW x \in Executors, Executes(x)
  PROVE  Arrives(x)
<1>0. /\ x \in Handlers /\ handler \in [Handlers -> Call]
      /\ handler[x] \in Call /\ Current(handler[x], node) /\ Shape(handler[x])
  BY HandlerSets DEF HandlersInv
<1>1. CASE TakeJob(x)
  <2>1. PICK j \in queue, pc \in {"createTask", "evaluate"} :
          handler' = [handler EXCEPT ![x].job = j, ![x].pc = pc]
    BY <1>1 DEF TakeJob
  <2> DEFINE c == [handler[x] EXCEPT !.job = j, !.pc = pc]
  <2>2. handler' = [handler EXCEPT ![x] = c]
    BY <1>0, <2>1
  <2>3. j \in Jobs
    BY <2>1 DEF HandlersInv, WorkflowType
  <2>4. /\ c.pc = pc /\ c.job = j /\ c.view = handler[x].view /\ c.rest = handler[x].rest
        /\ c \in Call
    BY <1>0, <2>1, <2>3 DEF Call, Points
  <2> HIDE DEF c
  <2>5. Shape(c) /\ Current(c, node) /\ Plain(c)
    BY <1>0, <2>1, <2>3, <2>4 DEF Shape, Current, Plain, UseView
  <2> QED
    BY <1>0, <2>2, <2>5, ComesArrives DEF Comes
<1>2. CASE Evaluate(x)
  <2>1. handler[x].job \in Jobs
    BY <1>0, <1>2 DEF Evaluate, At, Shape, UseJob
  <2> QED
    BY <1>0, <1>2, <2>1, GotoArrives DEF Evaluate, PlainPoints, Points, UseView
<1>3. CASE CreateTask(x) \/ OnTaskCreated(x) \/ Compensate(x) \/ Await(x)
  <2>1. handler[x].job \in Jobs
    BY <1>0, <1>3 DEF CreateTask, OnTaskCreated, Compensate, Await, At, Shape, UseJob
  <2>2. \E pc \in {"taskCreated", "fail", "wait", "compensate", "complete"} : Goto(x, pc)
    BY <1>3 DEF CreateTask, OnTaskCreated, Compensate, Await
  <2> QED
    BY <1>0, <2>1, <2>2, GotoArrives DEF PlainPoints, Points, UseView
<1> QED
  BY <1>1, <1>2, <1>3 DEF Executes

LEMMA StepArrives ==
  ASSUME HandlersInv, WorkflowNext
  PROVE  UNCHANGED handler \/ \E h \in Handlers : Arrives(h)
<1>1. CASE \/ \E x \in Executors : Stall(x)
           \/ \E j \in Jobs : TaskEnds(j)
           \/ DeleteWorkflow \/ OtherRuns \/ LeaseExpires
  BY <1>1 DEF Stall, TaskEnds, DeleteWorkflow, OtherRuns, LeaseExpires
<1> QED
  BY <1>1, RequestArrives, ProceedArrives, ExecuteArrives, AddArrives, HandlerSets
     DEF WorkflowNext

LEMMA HandlersKept ==
  ASSUME HandlersInv, WorkflowNext
  PROVE  HandlersInv'
<1>1. CASE UNCHANGED handler
  <2>1. \A h \in Handlers : Current(handler[h], node')
    BY NodeKept, CurrentLater DEF HandlersInv, Forward
  <2> QED
    BY <1>1, <2>1, TypeKept DEF HandlersInv
<1>2. ASSUME NEW h \in Handlers, Arrives(h) PROVE HandlersInv'
  <2>1. PICK c : handler' = [handler EXCEPT ![h] = c] /\ Shape(c) /\ Current(c, node')
    BY <1>2 DEF Arrives, Comes
  <2>2. handler' \in [Handlers -> Call]
    BY <2>1 DEF HandlersInv, Shape
  <2>3. ASSUME NEW g \in Handlers
        PROVE  Shape(handler'[g]) /\ Current(handler'[g], node')
    <3>1. CASE g = h
      BY <2>1, <3>1 DEF HandlersInv
    <3>2. CASE g # h
      <4>1. handler'[g] = handler[g] /\ Shape(handler[g]) /\ Current(handler[g], node)
        BY <2>1, <3>2 DEF HandlersInv
      <4> QED
        BY <4>1, NodeKept, CurrentLater DEF Forward
    <3> QED
      BY <3>1, <3>2
  <2> QED
    BY <2>2, <2>3, TypeKept DEF HandlersInv
<1> QED
  BY <1>1, <1>2, StepArrives

-----------------------------------------------------------------------------
(* The invariants *)

IInv == HandlersInv /\ StoryInv /\ OnceInv

LEMMA RunStarts == WorkflowInit => IInv
<1> SUFFICES ASSUME WorkflowInit PROVE IInv
  OBVIOUS
<1>1. PICK s \in Scenarios : workflow = s.workflow
  BY DEF WorkflowInit
<1>2. workflow \in Workflow
  BY <1>1
<1>3. node \in Views /\ \A n \in Nodes : node[n].status \in {"pending", "skipped"}
  BY DEF WorkflowInit, Views, NodeState, Ended, Attempts
<1>4. WorkflowType
  <2>1. /\ slots \in Slots
        /\ stalls \in 0..MaxStalls
    BY DEF WorkflowInit, Slots
  <2>2. /\ task \in [Jobs -> {"none", "open", "asked", "succeeded", "failed"}]
        /\ added \in [Jobs -> Nat]
    BY DEF WorkflowInit
  <2>3. status = "absent" /\ defined = TRUE /\ queue = {} /\ wasCancelled = FALSE
    BY DEF WorkflowInit
  <2> QED
    BY <1>3, <2>1, <2>2, <2>3 DEF WorkflowType
<1>5. ASSUME NEW h \in Handlers
      PROVE  Shape(handler[h]) /\ Current(handler[h], node)
             /\ handler[h].pc = IF h = Starter THEN "start" ELSE "idle"
  <2> DEFINE c == [Idle EXCEPT !.pc = IF h = Starter THEN "start" ELSE "idle"]
  <2>1. handler[h] = c
    BY DEF WorkflowInit
  <2>2. /\ c.pc = IF h = Starter THEN "start" ELSE "idle"
        /\ c.view = None /\ c.rest = None /\ c \in Call
    <3>1. Idle \in Call /\ Idle.rest = None /\ Idle.view = None
      BY IdleShape DEF Shape, Idle
    <3> QED
      BY <3>1 DEF Call, Points
  <2> HIDE DEF c
  <2> QED
    BY <2>1, <2>2 DEF Shape, Current, UseView, UseJob
<1>6. HandlersInv
  <2>1. handler = [h \in Handlers |-> handler[h]]
    BY DEF WorkflowInit
  <2>2. \A h \in Handlers : handler[h] \in Call
    BY <1>5 DEF Shape
  <2> QED
    BY <1>2, <1>4, <1>5, <2>1, <2>2 DEF HandlersInv
<1>7. StoryInv
  <2>1. status = "absent" /\ ~wasCancelled
    BY DEF WorkflowInit
  <2>2. ~SomeFailed /\ \A n \in Nodes : node[n].status # "cancelled"
    BY <1>3 DEF SomeFailed
  <2>3. \A h \in Handlers : /\ handler[h].pc \in {"start", "save"} => h = Starter
                            /\ handler[h].pc \notin {"acquire", "claim", "saveRetry"}
    BY <1>5
  <2> QED
    BY <2>1, <2>2, <2>3 DEF StoryInv, SucceededIsComplete
<1>8. OnceInv
  <2>1. \A j \in Jobs : added[j] = 0
    BY DEF WorkflowInit
  <2>2. \A h \in Handlers : handler[h].pc # "add"
    BY <1>5
  <2>3. \A n \in Nodes, a \in Attempts : <<n, a>> \in Jobs
    BY DEF Jobs
  <2> QED
    BY <2>1, <2>2, <2>3 DEF OnceInv, EnqueuedOnce
<1> QED
  BY <1>6, <1>7, <1>8 DEF IInv

(* Who changes the status of a run, and the nodes *)
LEMMA StatusSteps ==
  ASSUME WorkflowNext
  PROVE  \/ status' = status
         \/ SaveRun \/ StartThrows \/ CancelRun
         \/ status = "running" /\ status' = "failed"
         \/ status = "failed" /\ status' = "running"
         \/ \E r \in Retriers : SaveRetry(r)
         \/ /\ status = "running" /\ status' = "succeeded" /\ UNCHANGED node
            /\ \/ AllIn(node, {"succeeded", "skipped"})
               \/ \E h \in Handlers : Finalize(h)
BY ZenonT(60) DEF WorkflowNext, AcquireToStart, Proceeds, AddThrows, Executes,
       Stall, Retries, Cancels, TaskEnds, DeleteWorkflow, OtherRuns, LeaseExpires, StatsOnly,
       ReadToSchedule, SkipOne, Finalize, ReleaseRun, EnqueueNext, AddJob, ClaimComplete,
       AfterComplete, SucceedRun, ScheduleNext, ClaimFailed, AfterFail, FailRun,
       TakeJob, Evaluate, CreateTask, OnTaskCreated, Compensate, Await,
       RemoveJobs, CancelTasks, FindFailed, AcquireToRetry, ClaimRetry,
       RetryThrows, NodesSettled

LEMMA NodeSteps ==
  ASSUME WorkflowNext
  PROVE  /\ status # "running" => UNCHANGED node
         /\ UNCHANGED wasCancelled \/ CancelRun
         /\ UNCHANGED added \/ \E h \in Handlers : AddJob(h)
BY ZenonT(60) DEF WorkflowNext, AcquireToStart, SaveRun, StartThrows, Proceeds, AddThrows, Executes,
       Stall, Retries, Cancels, TaskEnds, DeleteWorkflow, OtherRuns, LeaseExpires, StatsOnly,
       ReadToSchedule, SkipOne, Finalize, ReleaseRun, EnqueueNext, AddJob, ClaimComplete,
       AfterComplete, SucceedRun, ScheduleNext, ClaimFailed, AfterFail, FailRun,
       TakeJob, Evaluate, CreateTask, OnTaskCreated, Compensate, Await, Claims, Claimable,
       CancelRun, RemoveJobs, CancelTasks, FindFailed, AcquireToRetry, ClaimRetry, SaveRetry,
       RetrySaves, RetryThrows

(* The copy in which finishing a run saw every node ended is up to date, so *)
(* that no node has failed without being seen; and had one been cancelled,  *)
(* another would have failed before.                                        *)
LEMMA FinalizeComplete ==
  ASSUME HandlersInv, StoryInv, NEW h \in Handlers, Finalize(h),
         status = "running", status' = "succeeded"
  PROVE  AllIn(node, {"succeeded", "skipped"})
<1>1. At(h, "finalize") /\ NodesSettled(Ended)
      /\ ~\E n \in Nodes : handler[h].view[n].status = "failed"
  BY DEF Finalize
<1>2. AllIn(handler[h].view, Ended) /\ Agrees(handler[h].view, node)
  BY <1>1 DEF HandlersInv, Shape, Current, At, UseView
<1>3. ~SomeFailed
  BY <1>1, <1>2 DEF SomeFailed, Agrees, AllIn
<1>4. ~wasCancelled
  BY <1>3 DEF StoryInv
<1>5. \A n \in Nodes : node[n].status \in Ended /\ node[n].status \notin {"failed", "cancelled"}
  BY <1>1, <1>3, <1>4 DEF NodesSettled, AllIn, SomeFailed, StoryInv
<1> QED
  BY <1>5 DEF AllIn, Ended

LEMMA StoryKept ==
  ASSUME HandlersInv, StoryInv, WorkflowNext
  PROVE  StoryInv'
<1>1. SomeFailed => SomeFailed'
  BY NodeKept DEF SomeFailed, Forward, Ended
<1>2. \A r \in Retriers : SaveRetry(r) => SomeFailed
  BY HandlerSets DEF SaveRetry, At, StoryInv
<1>3. SaveRun => status = "absent"
  BY HandlerSets DEF SaveRun, At, StoryInv
<1>4. SucceededIsComplete'
  <2> SUFFICES ASSUME status' = "succeeded"
               PROVE  AllIn(node, {"succeeded", "skipped"}) /\ UNCHANGED node
    BY DEF SucceededIsComplete, AllIn
  <2>1. CASE status' = status
    BY <2>1, NodeSteps DEF StoryInv, SucceededIsComplete
  <2>2. ~SaveRun /\ ~StartThrows /\ ~CancelRun /\ ~\E r \in Retriers : SaveRetry(r)
    BY DEF SaveRun, StartThrows, CancelRun, SaveRetry
  <2> QED
    BY <2>1, <2>2, StatusSteps, FinalizeComplete
<1>5. (wasCancelled => status \in {"cancelled", "deleted"} \/ SomeFailed)'
  <2>1. CASE CancelRun
    BY <2>1 DEF CancelRun
  <2>2. CASE wasCancelled /\ UNCHANGED wasCancelled
    <3>1. CASE SomeFailed
      BY <1>1, <3>1
    <3>2. CASE status \in {"cancelled", "deleted"}
      <4>1. status' = status \/ StartThrows \/ SomeFailed
        BY <1>2, <1>3, <3>2, StatusSteps DEF CancelRun
      <4> QED
        BY <1>1, <3>2, <4>1 DEF StartThrows
    <3> QED
      BY <2>2, <3>1, <3>2 DEF StoryInv
  <2> QED
    BY <2>1, <2>2, NodeSteps
<1>6. (\A n \in Nodes : node[n].status = "cancelled" => wasCancelled)'
  <2>1. CancelRun => wasCancelled'
    BY DEF CancelRun
  <2>2. wasCancelled => wasCancelled'
    BY <2>1, NodeSteps
  <2>3. \A n \in Nodes : node'[n].status = "cancelled" => node[n].status = "cancelled" \/ CancelRun
    BY NodeKept DEF Forward
  <2>4. \A n \in Nodes : node[n].status = "cancelled" => wasCancelled
    BY DEF StoryInv
  <2> QED
    BY <2>1, <2>2, <2>3, <2>4
<1>7. (status = "absent" => ~wasCancelled /\ ~SomeFailed)'
  <2> SUFFICES ASSUME status' = "absent" PROVE ~wasCancelled' /\ ~SomeFailed'
    OBVIOUS
  <2>1. status = "absent"
    BY StatusSteps DEF SaveRun, StartThrows, CancelRun, SaveRetry
  <2>2. UNCHANGED node /\ UNCHANGED wasCancelled
    BY <2>1, NodeSteps DEF CancelRun
  <2> QED
    BY <2>1, <2>2 DEF StoryInv, SomeFailed
<1>8. ASSUME NEW h \in Handlers, handler'[h].pc \in {"acquire", "claim", "saveRetry"}
      PROVE  SomeFailed'
  <2>1. CASE handler'[h] = handler[h]
    BY <1>1, <1>8, <2>1 DEF StoryInv
  <2>2. ASSUME NEW c, Comes(h, c, node'), NewPoint(h, c) PROVE SomeFailed'
    <3>1. handler'[h] = c
      BY <2>2 DEF Comes, HandlersInv
    <3> QED
      BY <1>1, <1>8, <2>2, <3>1 DEF NewPoint, StoryInv
  <2>3. UNCHANGED handler \/ \E g \in Handlers : \E c : Comes(g, c, node') /\ NewPoint(g, c)
    BY StepArrives DEF Arrives
  <2> QED
    BY <2>1, <2>2, <2>3 DEF Comes, HandlersInv
<1>9. ASSUME NEW h \in Handlers, handler'[h].pc \in {"start", "save"}
      PROVE  h = Starter /\ status' = "absent"
  <2>1. handler[h].pc \in {"start", "save"}
    <3>1. CASE handler'[h] = handler[h]
      BY <1>9, <3>1
    <3>2. ASSUME NEW c, Comes(h, c, node'), NewPoint(h, c)
          PROVE handler[h].pc \in {"start", "save"}
      <4>1. handler'[h] = c
        BY <3>2 DEF Comes, HandlersInv
      <4> QED
        BY <1>9, <3>2, <4>1 DEF NewPoint
    <3>3. UNCHANGED handler \/ \E g \in Handlers : \E c : Comes(g, c, node') /\ NewPoint(g, c)
      BY StepArrives DEF Arrives
    <3> QED
      BY <3>1, <3>2, <3>3 DEF Comes, HandlersInv
  <2>2. h = Starter /\ status = "absent" /\ ~SomeFailed
    BY <2>1 DEF StoryInv
  <2>3. ~SaveRun /\ ~StartThrows
    <3>1. SaveRun => handler'[Starter].pc = "schedule"
      BY HandlerSets DEF SaveRun, Goto, HandlersInv, Call
    <3>2. StartThrows => handler'[Starter].pc = "release"
      BY HandlerSets DEF StartThrows, Idle, HandlersInv
    <3> QED
      BY <1>9, <2>2, <3>1, <3>2
  <2> QED
    BY <1>2, <2>2, <2>3, StatusSteps DEF CancelRun
<1> QED
  BY <1>4, <1>5, <1>6, <1>7, <1>8, <1>9 DEF StoryInv

LEMMA OnceKept ==
  ASSUME HandlersInv, OnceInv, WorkflowNext
  PROVE  OnceInv'
<1>0. /\ added \in [Jobs -> Nat] /\ handler \in [Handlers -> Call]
      /\ \A h \in Handlers : handler[h].pc = "add" => handler[h].job \in Jobs
  BY DEF HandlersInv, WorkflowType, Shape, UseJob
<1>1. \A n \in Nodes : node'[n].status = "pending" => node[n].status = "pending"
  BY NodeKept DEF Forward
<1>2. \A n \in Nodes, a \in Attempts : <<n, a>> \in Jobs /\ <<n, a>>[1] = n
  BY DEF Jobs
<1>3. ASSUME NEW h \in Handlers, AddJob(h) PROVE OnceInv'
  <2> DEFINE j == handler[h].job
  <2>1. /\ handler[h].pc = "add" /\ j \in Jobs /\ added[j] = 0
        /\ added' = [added EXCEPT ![j] = 1]
    <3>1. handler[h].pc = "add" /\ added' = [added EXCEPT ![j] = @ + 1]
      BY <1>3 DEF AddJob, At, JobOf
    <3>2. added[j] = 0 /\ j \in Jobs
      BY <1>0, <3>1 DEF OnceInv
    <3> QED
      BY <3>1, <3>2
  <2>2. /\ handler'[h].pc = "enqueue"
        /\ \A g \in Handlers : g # h => handler'[g] = handler[g]
    BY <1>0, <1>3 DEF AddJob, Call
  <2>3. \A i \in Jobs : added'[i] = IF i = j THEN 1 ELSE added[i]
    BY <1>0, <2>1
  <2>4. ASSUME NEW n \in Nodes, node'[n].status = "pending"
        PROVE  /\ \A a \in Attempts : added'[<<n, a>>] = 0
               /\ \A g \in Handlers : handler'[g].pc = "add" => handler'[g].job[1] # n
    <3>1. node[n].status = "pending" /\ j[1] # n
      BY <1>1, <2>1, <2>4 DEF OnceInv
    <3> QED
      BY <1>2, <2>2, <2>3, <3>1 DEF OnceInv
  <2>5. \A g \in Handlers : handler'[g].pc = "add" => added'[handler'[g].job] = 0
    BY <1>0, <2>1, <2>2, <2>3 DEF OnceInv
  <2>6. \A g, k \in Handlers : handler'[g].pc = "add" /\ handler'[k].pc = "add" /\ g # k =>
          handler'[g].job # handler'[k].job
    BY <2>2 DEF OnceInv
  <2>7. \A i \in Jobs : added'[i] <= 1
    BY <2>3 DEF OnceInv, EnqueuedOnce
  <2> QED
    BY <2>4, <2>5, <2>6, <2>7 DEF OnceInv, EnqueuedOnce
<1>4. CASE UNCHANGED added /\ UNCHANGED handler
  BY <1>1, <1>4 DEF OnceInv, EnqueuedOnce
<1>5. ASSUME UNCHANGED added, NEW h \in Handlers, Arrives(h) PROVE OnceInv'
  <2>1. PICK c : /\ handler' = [handler EXCEPT ![h] = c] /\ Shape(c) /\ NewPoint(h, c)
    BY <1>5 DEF Arrives, Comes
  <2>2. handler'[h] = c /\ \A g \in Handlers : g # h => handler'[g] = handler[g]
    BY <1>0, <2>1
  <2>3. CASE c.pc # "add"
    BY <1>1, <1>5, <2>2, <2>3 DEF OnceInv, EnqueuedOnce
  <2>4. CASE c.pc = "add"
    <3>1. PICK n \in Nodes, a \in Attempts : c.job = <<n, a>>
      BY <2>1, <2>4 DEF Shape, UseJob, Jobs
    <3>2. c.job[1] = n /\ node[n].status = "pending" /\ node'[n].status = "running"
      BY <2>1, <2>4, <3>1 DEF NewPoint
    <3>3. /\ added[c.job] = 0
          /\ \A g \in Handlers : handler[g].pc = "add" => handler[g].job[1] # n
      BY <3>1, <3>2 DEF OnceInv
    <3>4. ASSUME NEW m \in Nodes, node'[m].status = "pending"
          PROVE  /\ \A b \in Attempts : added[<<m, b>>] = 0
                 /\ \A g \in Handlers : handler'[g].pc = "add" => handler'[g].job[1] # m
      BY <1>1, <2>2, <3>2, <3>4 DEF OnceInv
    <3>5. \A g \in Handlers : handler'[g].pc = "add" => added[handler'[g].job] = 0
      BY <2>2, <3>3 DEF OnceInv
    <3>6. \A g, k \in Handlers : handler'[g].pc = "add" /\ handler'[k].pc = "add" /\ g # k =>
            handler'[g].job # handler'[k].job
      BY <2>2, <3>2, <3>3 DEF OnceInv
    <3> QED
      BY <1>5, <3>4, <3>5, <3>6 DEF OnceInv, EnqueuedOnce
  <2> QED
    BY <2>3, <2>4
<1> QED
  BY <1>3, <1>4, <1>5, NodeSteps, StepArrives

LEMMA RunKept == IInv /\ [WorkflowNext]_runVars => IInv'
<1> SUFFICES ASSUME IInv, [WorkflowNext]_runVars PROVE IInv'
  OBVIOUS
<1>1. CASE WorkflowNext
  BY <1>1, HandlersKept, StoryKept, OnceKept DEF IInv
<1>2. CASE UNCHANGED runVars
  BY <1>2 DEF runVars, fixed, IInv, HandlersInv, StoryInv, OnceInv, WorkflowType, Workflow,
              Shape, Current, Agrees, SucceededIsComplete, SomeFailed, AllIn, EnqueuedOnce
<1> QED
  BY <1>1, <1>2

-----------------------------------------------------------------------------
(* workflow-execution.service.ts: every document, lease, job and handler   *)
(* keeps its shape: no copy names a node the run does not have, and no     *)
(* handler goes on without the copy it decides on.                         *)
THEOREM WorkflowTyped == WorkflowSpec => []WorkflowType
<1>1. IInv => WorkflowType
  BY DEF IInv, HandlersInv
<1> QED
  BY <1>1, RunStarts, RunKept, PTL DEF WorkflowSpec

(* workflow-execution.service.ts: a run is reported succeeded only with    *)
(* every node succeeded or skipped, whichever of several handlers finishes *)
(* it and however old its copy is.                                         *)
THEOREM RunIsComplete == WorkflowSpec => []SucceededIsComplete
<1>1. IInv => SucceededIsComplete
  BY DEF IInv, StoryInv
<1> QED
  BY <1>1, RunStarts, RunKept, PTL DEF WorkflowSpec

(* docs/workflow-and-portal.md 7.18: a cancelled run never succeeds, not   *)
(* even when a retry that had claimed it sets it to running again, for the *)
(* node whose failure allowed the retry stays failed.                      *)
THEOREM CancellationHolds == WorkflowSpec => []CancelledNeverSucceeds
<1>1. IInv => CancelledNeverSucceeds
  BY DEF IInv, StoryInv, CancelledNeverSucceeds, SucceededIsComplete, SomeFailed, AllIn
<1> QED
  BY <1>1, RunStarts, RunKept, PTL DEF WorkflowSpec

(* enqueueNode: the claim of a node comes before its job is added, and no  *)
(* node is pending again, so that no job is added twice.                   *)
THEOREM JobsAreAddedOnce == WorkflowSpec => []EnqueuedOnce
<1>1. IInv => EnqueuedOnce
  BY DEF IInv, OnceInv
<1> QED
  BY <1>1, RunStarts, RunKept, PTL DEF WorkflowSpec

-----------------------------------------------------------------------------
(* The lease.  A handler that ends a run goes on to give the lease back,   *)
(* and the run stays ended, so that nobody gives back the lease of a run   *)
(* that is running.  A retry breaks this: it makes an ended run run again. *)

Leaving == {"release", "removeJobs", "cancelTasks"}

LeaseInv ==
  /\ \A r \in Retriers : handler[r].pc = "idle"
  /\ status = "running" => slots.mine # "free"
  /\ slots.mine # "free" /\ status # "running" =>
       \E h \in Handlers : handler[h].pc \in Leaving \cup {"save"}
  /\ \A h \in Handlers : handler[h].pc \in Leaving => status \notin {"absent", "running"}
  /\ \A h \in Handlers : handler[h].pc = "save" => slots.mine # "free"

(* h comes to one of the points in S, nobody else moves *)
Turns(h, S) ==
  handler'[h].pc \in S /\ \A g \in Handlers : g # h => handler'[g] = handler[g]

Elsewhere == Points \ (Leaving \cup {"start", "save"})

(* A handler is sent somewhere, or returns.                                *)
LEMMA TurnsOut ==
  ASSUME HandlersInv, NEW h \in Handlers
  PROVE  /\ \A pc : Goto(h, pc) => Turns(h, {pc})
         /\ Return(h) => Turns(h, {"idle", "enqueue"})
<1>1. handler \in [Handlers -> Call]
  BY DEF HandlersInv
<1>2. ASSUME NEW pc, Goto(h, pc) PROVE Turns(h, {pc})
  BY <1>1, <1>2 DEF Goto, Turns, Call
<1>3. ASSUME Return(h) PROVE Turns(h, {"idle", "enqueue"})
  <2>1. Idle.pc = "idle" /\ \A v, t, m : [Idle EXCEPT !.pc = "enqueue", !.view = v,
                                           !.todo = t, !.room = m].pc = "enqueue"
    BY DEF Idle
  <2> QED
    BY <1>1, <1>3, <2>1 DEF Return, Turns
<1> QED
  BY <1>2, <1>3

(* A step that neither ends the run nor has to do with the lease.          *)
LEMMA LeaseUntouched ==
  ASSUME LeaseInv, UNCHANGED status, (slots'.mine = "free") = (slots.mine = "free"),
         \/ UNCHANGED handler
         \/ \E h \in Handlers \ Retriers :
              handler[h].pc \notin Leaving \cup {"save"} /\ Turns(h, Elsewhere)
  PROVE  LeaseInv'
<1>1. CASE UNCHANGED handler
  BY <1>1 DEF LeaseInv
<1>2. CASE \E h \in Handlers \ Retriers :
             handler[h].pc \notin Leaving \cup {"save"} /\ Turns(h, Elsewhere)
  <2>1. PICK h \in Handlers \ Retriers :
          handler[h].pc \notin Leaving \cup {"save"} /\ Turns(h, Elsewhere)
    BY <1>2
  <2>2. \A g \in Handlers : handler'[g].pc \in Leaving \cup {"save"} =>
          handler[g].pc = handler'[g].pc
    BY <2>1 DEF Turns, Elsewhere, Leaving
  <2>3. \A g \in Handlers : handler[g].pc \in Leaving \cup {"save"} =>
          handler'[g].pc = handler[g].pc
    BY <2>1 DEF Turns
  <2>4. \A r \in Retriers : handler'[r].pc = "idle"
    BY <2>1, HandlerSets DEF LeaseInv, Turns
  <2> QED
    BY <2>2, <2>3, <2>4 DEF LeaseInv
<1> QED
  BY <1>1, <1>2

(* The run ends in the hands of h, which will see to the lease.            *)
LEMMA LeaseOwed ==
  ASSUME LeaseInv, StoryInv, NEW h \in Handlers \ Retriers, Turns(h, Leaving), UNCHANGED slots,
         \/ status = "running" /\ status' \in {"succeeded", "failed", "cancelled"}
         \/ status' = "deleted"
         \/ UNCHANGED status /\ handler[h].pc \in Leaving
  PROVE  LeaseInv'
<1>1. \A r \in Retriers : handler'[r].pc = "idle"
  BY HandlerSets DEF LeaseInv, Turns
<1>2. status' \notin {"absent", "running"}
  BY DEF LeaseInv
<1>3. \A g \in Handlers : handler'[g].pc = "save" => handler[g].pc = "save"
  BY DEF Turns, Leaving
<1> QED
  BY <1>1, <1>2, <1>3 DEF LeaseInv, Turns

(* What a handler does once it has begun, except to release.               *)
LEMMA ProceedKeepsLease ==
  ASSUME HandlersInv, StoryInv, LeaseInv, NEW h \in Handlers, Proceeds(h) \/ AddThrows(h)
  PROVE  LeaseInv'
<1>1. handler \in [Handlers -> Call]
  BY DEF HandlersInv
<1>2. /\ handler[h].pc \in {"schedule", "skip", "finalize", "release", "enqueue", "add",
                            "complete", "afterComplete", "succeed", "next", "fail",
                            "afterFail", "failRun"}
      /\ h \notin Retriers
  <2>1. handler[h].pc \in {"schedule", "skip", "finalize", "release", "enqueue", "add",
                           "complete", "afterComplete", "succeed", "next", "fail",
                           "afterFail", "failRun"}
    BY DEF Proceeds, ReadToSchedule, SkipOne, Finalize, ReleaseRun, EnqueueNext, AddJob,
           ClaimComplete, AfterComplete, SucceedRun, ScheduleNext, ClaimFailed, AfterFail,
           FailRun, AddThrows, At
  <2> QED
    BY <2>1 DEF LeaseInv
<1>3. CASE \E pc \in Elsewhere : Goto(h, pc) /\ UNCHANGED <<status, slots>> /\ ~At(h, "release")
  <2>1. Turns(h, Elsewhere)
    BY <1>3, TurnsOut DEF Turns
  <2> QED
    BY <1>2, <1>3, <2>1, LeaseUntouched DEF At, Leaving
<1>4. CASE Return(h) /\ UNCHANGED <<status, slots>> /\ ~At(h, "release")
  <2>1. Turns(h, Elsewhere)
    BY <1>4, TurnsOut DEF Turns, Elsewhere, Points, Leaving
  <2> QED
    BY <1>2, <1>4, <2>1, LeaseUntouched DEF At, Leaving
<1>5. CASE /\ \E c : handler' = [handler EXCEPT ![h] = c] /\ c.pc \in Elsewhere
           /\ UNCHANGED <<status, slots>> /\ ~At(h, "release")
  <2>1. Turns(h, Elsewhere)
    BY <1>1, <1>5 DEF Turns
  <2> QED
    BY <1>2, <1>5, <2>1, LeaseUntouched DEF At, Leaving
<1>6. \A view : AfterSkips(h, view).pc \in Elsewhere
  BY <1>1 DEF AfterSkips, Call, Elsewhere, Points, Leaving
<1>7. CASE ReadToSchedule(h)
  <2> DEFINE c == IF ToSkip(node) # {}
                  THEN [handler[h] EXCEPT !.pc = "skip", !.view = node,
                                          !.todo = ToSkip(node), !.room = 0]
                  ELSE AfterSkips(h, node)
  <2>1. UNCHANGED <<status, slots>> /\ ~At(h, "release")
    BY <1>7 DEF ReadToSchedule, StatsOnly, At
  <2>2. Return(h) \/ handler' = [handler EXCEPT ![h] = c]
    BY <1>7 DEF ReadToSchedule
  <2>3. [handler[h] EXCEPT !.pc = "skip", !.view = node, !.todo = ToSkip(node), !.room = 0].pc = "skip"
    BY <1>1 DEF Call
  <2>4. c.pc \in Elsewhere
    BY <1>6, <2>3 DEF Elsewhere, Points, Leaving
  <2> HIDE DEF c
  <2> QED
    BY <1>4, <1>5, <2>1, <2>2, <2>4
<1>8. CASE SkipOne(h)
  <2>1. /\ \A t, m : [handler[h] EXCEPT !.todo = t, !.room = m].pc = handler[h].pc
        /\ \A t, v : [handler[h] EXCEPT !.pc = "schedule", !.todo = t, !.view = v].pc = "schedule"
    BY <1>1 DEF Call
  <2>2. handler[h].pc = "skip" /\ UNCHANGED <<status, slots>>
    BY <1>8 DEF SkipOne, At
  <2>3. {"skip", "schedule"} \subseteq Elsewhere
    BY DEF Elsewhere, Points, Leaving
  <2>4. PICK left, skipped :
          handler' = [handler EXCEPT ![h] =
            IF left # {} THEN [@ EXCEPT !.todo = left, !.room = skipped]
            ELSE IF skipped > 0 THEN [@ EXCEPT !.pc = "schedule", !.todo = {}, !.view = None]
            ELSE AfterSkips(h, handler[h].view)]
    BY <1>8 DEF SkipOne
  <2> DEFINE c == IF left # {} THEN [handler[h] EXCEPT !.todo = left, !.room = skipped]
                  ELSE IF skipped > 0
                  THEN [handler[h] EXCEPT !.pc = "schedule", !.todo = {}, !.view = None]
                  ELSE AfterSkips(h, handler[h].view)
  <2>5. handler' = [handler EXCEPT ![h] = c]
    BY <2>4
  <2>6. c.pc \in Elsewhere
    BY <1>6, <2>1, <2>2, <2>3
  <2> HIDE DEF c
  <2> QED
    BY <1>5, <2>2, <2>5, <2>6 DEF At
<1>9. CASE EnqueueNext(h)
  <2>1. UNCHANGED <<status, slots>> /\ ~At(h, "release")
    BY <1>9 DEF EnqueueNext, At
  <2>2. CASE Return(h)
    BY <1>4, <2>1, <2>2
  <2>3. CASE ~Return(h)
    <3>1. handler[h].pc = "enqueue"
      BY <1>9 DEF EnqueueNext, At
    <3>2. PICK n \in handler[h].todo :
            \/ handler' = [handler EXCEPT ![h].pc = "add", ![h].todo = @ \ {n},
                                           ![h].job = <<n, handler[h].view[n].attempt>>]
            \/ handler' = [handler EXCEPT ![h].todo = @ \ {n}]
      BY <1>9, <2>3 DEF EnqueueNext
    <3>3. handler'[h].pc \in {"add", "enqueue"}
      BY <1>1, <3>1, <3>2 DEF Call
    <3>4. \A g \in Handlers : g # h => handler'[g] = handler[g]
      BY <1>1, <3>2
    <3>5. Turns(h, Elsewhere)
      BY <3>3, <3>4 DEF Turns, Elsewhere, Points, Leaving
    <3> QED
      BY <1>2, <2>1, <3>1, <3>5, LeaseUntouched DEF Leaving
  <2> QED
    BY <2>2, <2>3
<1>10. CASE AddJob(h) \/ AddThrows(h)
  <2>1. Turns(h, {"enqueue", "fail"}) /\ handler[h].pc = "add" /\ UNCHANGED <<status, slots>>
    BY <1>1, <1>10 DEF AddJob, AddThrows, At, StatsOnly, Turns, Call
  <2> QED
    BY <1>2, <2>1, LeaseUntouched DEF Turns, Elsewhere, Points, Leaving
<1>11. CASE ClaimComplete(h) \/ AfterComplete(h) \/ ScheduleNext(h) \/ ClaimFailed(h) \/ AfterFail(h)
  BY <1>3, <1>4, <1>11
     DEF ClaimComplete, AfterComplete, ScheduleNext, ClaimFailed, AfterFail, At, StatsOnly,
         Elsewhere, Points, Leaving
<1>12. CASE Finalize(h) \/ SucceedRun(h) \/ FailRun(h)
  <2>1. CASE Goto(h, "release") /\ status = "running" /\ status' \in {"succeeded", "failed"}
    <3>1. Turns(h, Leaving) /\ UNCHANGED slots
      BY <1>12, <2>1, TurnsOut DEF Turns, Leaving, Finalize, SucceedRun, FailRun
    <3> QED
      BY <1>2, <2>1, <3>1, LeaseOwed
  <2> QED
    BY <1>3, <1>4, <1>12, <2>1
       DEF Finalize, SucceedRun, FailRun, At, Elsewhere, Points, Leaving
<1>13. CASE ReleaseRun(h)
  <2>1. status \notin {"absent", "running"} /\ status' = status /\ handler[h].pc = "release"
    BY <1>13 DEF ReleaseRun, At, LeaseInv, Leaving
  <2>2. slots'.mine = "free"
    BY <1>13 DEF ReleaseRun, HandlersInv, WorkflowType, Slots
  <2>3. Turns(h, {"idle", "enqueue"})
    BY <1>13, TurnsOut DEF ReleaseRun
  <2>4. \A g \in Handlers : handler'[g].pc # "save"
    BY <2>1, <2>3 DEF Turns, StoryInv
  <2>5. \A r \in Retriers : handler'[r].pc = "idle"
    BY <1>2, <2>3, HandlerSets DEF LeaseInv, Turns
  <2> QED
    BY <2>1, <2>2, <2>4, <2>5 DEF LeaseInv
<1> QED
  BY <1>7, <1>8, <1>9, <1>10, <1>11, <1>12, <1>13 DEF Proceeds

(* The request that starts the run.                                        *)
LEMMA StartKeepsLease ==
  ASSUME HandlersInv, StoryInv, LeaseInv, AcquireToStart \/ SaveRun \/ StartThrows
  PROVE  LeaseInv'
<1>1. Starter \in Handlers \ Retriers /\ handler \in [Handlers -> Call]
  BY HandlerSets, HandlerAssumption DEF HandlersInv
<1>2. CASE AcquireToStart
  <2>1. Turns(Starter, {"save"}) /\ handler[Starter].pc = "start" /\ UNCHANGED status
    BY <1>1, <1>2, TurnsOut DEF AcquireToStart, At
  <2>2. slots'.mine # "free"
    BY <1>2 DEF AcquireToStart, Admitted, HandlersInv, WorkflowType, Slots
  <2>3. \A r \in Retriers : handler'[r].pc = "idle"
    BY <1>1, <2>1, HandlerSets DEF LeaseInv, Turns
  <2>4. \A g \in Handlers : handler'[g].pc \in Leaving => handler[g].pc \in Leaving
    BY <2>1 DEF Turns, Leaving
  <2>5. handler'[Starter].pc = "save"
    BY <2>1 DEF Turns
  <2> QED
    BY <1>1, <2>1, <2>2, <2>3, <2>4, <2>5 DEF LeaseInv
<1>3. CASE SaveRun
  <2>1. Turns(Starter, {"schedule"}) /\ handler[Starter].pc = "save" /\ UNCHANGED slots
    BY <1>1, <1>3, TurnsOut DEF SaveRun, At
  <2>2. slots.mine # "free" /\ status = "absent" /\ status' = "running"
    BY <1>1, <1>3, <2>1 DEF SaveRun, LeaseInv, StoryInv
  <2>3. \A r \in Retriers : handler'[r].pc = "idle"
    BY <1>1, <2>1, HandlerSets DEF LeaseInv, Turns
  <2>4. \A g \in Handlers : handler'[g].pc \notin Leaving
    BY <2>1, <2>2 DEF LeaseInv, Turns, Leaving
  <2> QED
    BY <2>1, <2>2, <2>3, <2>4 DEF LeaseInv
<1>4. CASE StartThrows
  <2>1. [Idle EXCEPT !.pc = "release"].pc = "release"
    BY DEF Idle
  <2>2. Turns(Starter, Leaving) /\ status' = "deleted" /\ UNCHANGED slots
    BY <1>1, <1>4, <2>1 DEF StartThrows, Turns, Leaving
  <2> QED
    BY <1>1, <2>2, LeaseOwed
<1> QED
  BY <1>2, <1>3, <1>4

(* The request that cancels it.                                            *)
LEMMA CancelKeepsLease ==
  ASSUME HandlersInv, StoryInv, LeaseInv, Cancels
  PROVE  LeaseInv'
<1>1. Canceller \in Handlers \ Retriers /\ handler \in [Handlers -> Call]
  BY HandlerSets, HandlerAssumption DEF HandlersInv
<1>2. \A v : [Idle EXCEPT !.pc = "removeJobs", !.view = v].pc = "removeJobs"
  BY DEF Idle
<1>3. Turns(Canceller, Leaving) /\ UNCHANGED slots
  <2>1. CASE CancelRun
    BY <1>1, <1>2, <2>1 DEF CancelRun, Turns, Leaving
  <2>2. CASE RemoveJobs \/ CancelTasks
    <3>1. Turns(Canceller, {"cancelTasks"}) \/ Turns(Canceller, {"release"})
      BY <1>1, <2>2, TurnsOut DEF RemoveJobs, CancelTasks
    <3> QED
      BY <2>2, <3>1 DEF RemoveJobs, CancelTasks, Turns, Leaving
  <2> QED
    BY <2>1, <2>2 DEF Cancels
<1>4. \/ status = "running" /\ status' = "cancelled"
      \/ UNCHANGED status /\ handler[Canceller].pc \in Leaving
  BY DEF Cancels, CancelRun, RemoveJobs, CancelTasks, At, Leaving
<1> QED
  BY <1>1, <1>3, <1>4, LeaseOwed

(* The executors have nothing to do with the lease.                        *)
LEMMA ExecuteKeepsLease ==
  ASSUME HandlersInv, LeaseInv, NEW x \in Executors, Executes(x)
  PROVE  LeaseInv'
<1>1. x \in Handlers \ Retriers /\ handler \in [Handlers -> Call]
  BY HandlerSets, HandlerAssumption DEF HandlersInv
<1>2. UNCHANGED <<status, slots>>
  BY DEF Executes, TakeJob, Evaluate, CreateTask, OnTaskCreated, Compensate, Await, StatsOnly
<1>3. handler[x].pc \in {"idle", "evaluate", "createTask", "taskCreated", "compensate", "wait"}
  BY DEF Executes, TakeJob, Evaluate, CreateTask, OnTaskCreated, Compensate, Await, At
<1>4. Turns(x, {"createTask", "evaluate", "complete", "fail", "taskCreated", "wait", "compensate"})
  <2>1. CASE TakeJob(x)
    BY <1>1, <2>1 DEF TakeJob, Turns, Call
  <2>2. CASE \E pc \in {"createTask", "evaluate", "complete", "fail", "taskCreated", "wait",
                        "compensate"} : Goto(x, pc)
    BY <1>1, <2>2, TurnsOut DEF Turns
  <2> QED
    BY <2>1, <2>2 DEF Executes, Evaluate, CreateTask, OnTaskCreated, Compensate, Await
<1> QED
  BY <1>1, <1>2, <1>3, <1>4, LeaseUntouched DEF Turns, Elsewhere, Points, Leaving

(* Every step of a deployment without retries.                             *)
LEMMA LeaseKept ==
  ASSUME HandlersInv, StoryInv, LeaseInv, "retry" \notin environment, WorkflowNext
  PROVE  LeaseInv'
<1>1. \A r \in Retriers : ~Retries(r)
  BY DEF Retries, FindFailed, AcquireToRetry, ClaimRetry, SaveRetry, RetryThrows, At, LeaseInv
<1>2. CASE \/ \E x \in Executors : Stall(x)
           \/ \E j \in Jobs : TaskEnds(j)
           \/ DeleteWorkflow \/ OtherRuns \/ LeaseExpires
  <2>1. UNCHANGED <<status, handler>> /\ (slots'.mine = "free") = (slots.mine = "free")
    BY <1>2
       DEF Stall, TaskEnds, DeleteWorkflow, OtherRuns, LeaseExpires, HandlersInv, WorkflowType, Slots
  <2> QED
    BY <2>1, LeaseUntouched
<1> QED
  BY <1>1, <1>2, StartKeepsLease, ProceedKeepsLease, ExecuteKeepsLease, CancelKeepsLease
     DEF WorkflowNext

(* What may happen besides is chosen once.                                 *)
LEMMA EnvironmentStays == WorkflowNext => UNCHANGED environment
BY ZenonT(60)
   DEF WorkflowNext, AcquireToStart, SaveRun, StartThrows, Proceeds, AddThrows, Executes,
       Stall, Retries, Cancels, TaskEnds, DeleteWorkflow, OtherRuns, LeaseExpires, StatsOnly,
       ReadToSchedule, SkipOne, Finalize, ReleaseRun, EnqueueNext, AddJob, ClaimComplete,
       AfterComplete, SucceedRun, ScheduleNext, ClaimFailed, AfterFail, FailRun,
       TakeJob, Evaluate, CreateTask, OnTaskCreated, Compensate, Await,
       CancelRun, RemoveJobs, CancelTasks, FindFailed, AcquireToRetry, ClaimRetry, SaveRetry,
       RetryThrows, fixed

(* acquireRun and releaseRun: whoever ends the run and wherever its start  *)
(* failed, a lease is held only by a running run, and a run that is        *)
(* running was admitted and has not had its lease given back, though that  *)
(* may have expired; as long as nobody retries a failed run.               *)
THEOREM LeaseHolds == WorkflowSpec => []LeaseMatchesRun
<1> DEFINE Inv == IInv /\ ("retry" \notin environment => LeaseInv)
<1>1. WorkflowInit => Inv
  <2> SUFFICES ASSUME WorkflowInit PROVE LeaseInv
    BY RunStarts
  <2>1. \A h \in Handlers : handler[h].pc \in {"start", "idle"} /\ (h # Starter => handler[h].pc = "idle")
    BY DEF WorkflowInit, Idle
  <2>2. slots.mine = "free" /\ status = "absent"
    BY DEF WorkflowInit
  <2> QED
    BY <2>1, <2>2, HandlerSets, HandlerAssumption DEF LeaseInv, Leaving
<1>2. Inv /\ [WorkflowNext]_runVars => Inv'
  <2> SUFFICES ASSUME Inv, [WorkflowNext]_runVars, "retry" \notin environment' PROVE LeaseInv'
    BY RunKept
  <2>1. CASE UNCHANGED runVars
    BY <2>1 DEF runVars, fixed, LeaseInv
  <2>2. CASE WorkflowNext
    <3>1. UNCHANGED environment
      BY <2>2, EnvironmentStays
    <3> QED
      BY <2>2, <3>1, LeaseKept DEF IInv
  <2> QED
    BY <2>1, <2>2
<1>3. Inv => LeaseMatchesRun
  BY DEF LeaseInv, LeaseMatchesRun, Calm, Leaving
<1> QED
  BY <1>1, <1>2, <1>3, PTL DEF WorkflowSpec

-----------------------------------------------------------------------------
(* Cancellation.  Without retries and stalled jobs a job is in one place,  *)
(* the queue or one handler's hands, and while the run is running its node *)
(* is running.  So an executor can record its task as long as the run is   *)
(* running, and one that finds it ended asks the task to stop itself.      *)

Holds(h) == handler[h].pc \in UseJob

InHand(j) == j \in queue \/ \E h \in Handlers : Holds(h) /\ JobOf(h) = j

Places ==
  /\ \A j \in Jobs : InHand(j) => j[2] = node[j[1]].attempt
  /\ \A h \in Handlers : Holds(h) => JobOf(h) \notin queue
  /\ \A g, h \in Handlers : Holds(g) /\ Holds(h) /\ g # h => JobOf(g) # JobOf(h)
  /\ \A j \in Jobs : InHand(j) => /\ status # "absent"
                                  /\ status = "running" => node[j[1]].status = "running"

Recording(j, S) == \E x \in Executors : handler[x].pc \in S /\ JobOf(x) = j

Noted(view, j) == view[j[1]].task /\ view[j[1]].attempt = j[2]

Cancelling == {"removeJobs", "cancelTasks"}

(* A task that is open is recorded, or about to be; after a cancellation it *)
(* is in the canceller's copy, or its executor will ask it to stop.         *)
Known ==
  /\ \A j \in Jobs : task[j] = "open" /\ status \in {"absent", "running"} =>
       Recording(j, {"taskCreated"}) \/ Noted(node, j)
  /\ \A x \in Executors : handler[x].pc = "compensate" => status \notin {"absent", "running"}
  /\ \A j \in Jobs : task[j] = "open" /\ status = "cancelled" =>
       \/ Recording(j, {"taskCreated", "compensate"})
       \/ handler[Canceller].pc \in Cancelling /\ Noted(handler[Canceller].view, j)

(* h moves on with the job it has, or without one                          *)
Moves(h) ==
  /\ \A g \in Handlers : g # h => handler'[g] = handler[g]
  /\ handler'[h].pc \in UseJob => Holds(h) /\ handler'[h].job = handler[h].job
  /\ handler[h].pc \notin {"taskCreated", "compensate"} /\ handler'[h].pc # "compensate"
  /\ handler[h].pc \in Cancelling =>
       handler'[h].pc \in Cancelling /\ handler'[h].view = handler[h].view

(* Meanwhile only the node of a job it gives up stops running              *)
Follows(h) ==
  /\ UNCHANGED task /\ queue' \subseteq queue
  /\ \A n \in Nodes : node'[n].attempt = node[n].attempt /\ node'[n].task = node[n].task
  /\ \A n \in Nodes : node[n].status = "running" =>
       \/ node'[n].status = "running"
       \/ Holds(h) /\ JobOf(h)[1] = n /\ handler'[h].pc \notin UseJob
  /\ \/ status' = status \/ status' \in {"succeeded", "failed", "deleted"}
     \/ status = "absent" /\ status' = "running"

LEMMA JobIsPair == \A i, j \in Jobs : i[1] = j[1] /\ i[2] = j[2] => i = j
BY DEF Jobs

(* Most steps are of this kind.                                            *)
LEMMA QuietKeeps ==
  ASSUME HandlersInv, Places, Known, NEW h \in Handlers, Moves(h), Follows(h)
  PROVE  Places' /\ Known'
<1>1. \A g \in Handlers : handler'[g].pc \in UseJob => Holds(g) /\ handler'[g].job = JobOf(g)
  BY DEF Moves, Holds, JobOf
<1>2. \A j \in Jobs : InHand(j)' => InHand(j)
  BY <1>1 DEF InHand, Holds, JobOf, Follows
<1>3. \A g \in Handlers : Holds(g) => JobOf(g) \in Jobs
  BY DEF HandlersInv, Shape, Holds, JobOf
<1>4. ASSUME NEW j \in Jobs, InHand(j)'
      PROVE  status' # "absent" /\ (status' = "running" => node'[j[1]].status = "running")
  <2>1. InHand(j) /\ status # "absent" /\ j[2] = node[j[1]].attempt
    BY <1>2, <1>4 DEF Places
  <2>2. status' # "absent" /\ (status' = "running" => status = "running")
    BY <2>1 DEF Follows
  <2>3. ASSUME status = "running" PROVE node'[j[1]].status = "running"
    <3>1. node[j[1]].status = "running" /\ j[1] \in Nodes
      BY <2>1, <2>3 DEF Places, Jobs
    <3>2. ASSUME Holds(h), JobOf(h)[1] = j[1], handler'[h].pc \notin UseJob PROVE FALSE
      <4>1. InHand(JobOf(h)) /\ JobOf(h) \in Jobs
        BY <1>3, <3>2 DEF InHand
      <4>2. JobOf(h) = j
        BY <2>1, <3>2, <4>1, JobIsPair DEF Places
      <4>3. j \notin queue'
        BY <3>2, <4>2 DEF Places, Follows
      <4>4. PICK g \in Handlers : handler'[g].pc \in UseJob /\ handler'[g].job = j
        BY <1>4, <4>3 DEF InHand, Holds, JobOf
      <4>5. g # h /\ Holds(g) /\ JobOf(g) = j
        BY <1>1, <3>2, <4>4
      <4> QED
        BY <3>2, <4>2, <4>5 DEF Places
    <3> QED
      BY <3>1, <3>2 DEF Follows
  <2> QED
    BY <2>2, <2>3
<1>5. Places'
  <2>1. \A j \in Jobs : InHand(j)' => j[2] = node'[j[1]].attempt
    BY <1>2 DEF Places, Follows, Jobs
  <2>2. \A g \in Handlers : handler'[g].pc \in UseJob => handler'[g].job \notin queue'
    BY <1>1 DEF Places, Follows
  <2>3. \A g, k \in Handlers : handler'[g].pc \in UseJob /\ handler'[k].pc \in UseJob /\ g # k =>
          handler'[g].job # handler'[k].job
    BY <1>1 DEF Places
  <2> QED
    BY <1>4, <2>1, <2>2, <2>3 DEF Places, Holds, JobOf
<1>6. \A S \in {{"taskCreated"}, {"taskCreated", "compensate"}}, j \in Jobs :
        Recording(j, S) => Recording(j, S)'
  BY HandlerSets DEF Recording, Moves, JobOf
<1>7. \A j \in Jobs : Noted(node, j) => Noted(node, j)'
  BY DEF Noted, Follows, Jobs
<1>8. \A x \in Executors : handler'[x].pc = "compensate" => handler[x].pc = "compensate"
  BY HandlerSets DEF Moves
<1>9. \A j \in Jobs :
        handler[Canceller].pc \in Cancelling /\ Noted(handler[Canceller].view, j) =>
        handler'[Canceller].pc \in Cancelling /\ Noted(handler'[Canceller].view, j)
  BY HandlerSets DEF Moves, Noted
<1>10. /\ status' \in {"absent", "running"} => status \in {"absent", "running"}
       /\ status' = "cancelled" => status = "cancelled"
       /\ task' = task
  BY DEF Follows
<1>11. Known'
  <2>1. \A j \in Jobs : task'[j] = "open" /\ status' \in {"absent", "running"} =>
          Recording(j, {"taskCreated"})' \/ Noted(node, j)'
    BY <1>6, <1>7, <1>10 DEF Known
  <2>2. \A x \in Executors : handler'[x].pc = "compensate" => status' \notin {"absent", "running"}
    BY <1>8, <1>10 DEF Known
  <2>3. \A j \in Jobs : task'[j] = "open" /\ status' = "cancelled" =>
          \/ Recording(j, {"taskCreated", "compensate"})'
          \/ handler'[Canceller].pc \in Cancelling /\ Noted(handler'[Canceller].view, j)
    BY <1>6, <1>9, <1>10 DEF Known
  <2> QED
    BY <2>1, <2>2, <2>3 DEF Known, Noted
<1> QED
  BY <1>5, <1>11

LEMMA MovesOut ==
  ASSUME HandlersInv, NEW h \in Handlers,
         handler[h].pc \notin {"taskCreated", "compensate"} \cup Cancelling
  PROVE  /\ \A pc \in Points \ {"compensate"} :
              Goto(h, pc) /\ (pc \in UseJob => Holds(h)) => Moves(h)
         /\ Return(h) => Moves(h)
         /\ \A c : handler' = [handler EXCEPT ![h] = c] /\ c.pc \notin UseJob => Moves(h)
<1>1. handler \in [Handlers -> Call]
  BY DEF HandlersInv
<1>2. ASSUME NEW pc \in Points \ {"compensate"}, Goto(h, pc), pc \in UseJob => Holds(h)
      PROVE  Moves(h)
  <2>1. handler'[h].pc = pc /\ handler'[h].job = handler[h].job
    BY <1>1, <1>2 DEF Goto, Call
  <2>2. \A g \in Handlers : g # h => handler'[g] = handler[g]
    BY <1>1, <1>2 DEF Goto
  <2> QED
    BY <1>2, <2>1, <2>2 DEF Moves
<1>3. ASSUME Return(h) PROVE Moves(h)
  BY <1>3, TurnsOut DEF Turns, Moves, UseJob
<1>4. ASSUME NEW c, handler' = [handler EXCEPT ![h] = c], c.pc \notin UseJob PROVE Moves(h)
  BY <1>1, <1>4 DEF Moves, UseJob
<1> QED
  BY <1>2, <1>3, <1>4

(* A step that changes neither nodes nor tasks *)
LEMMA FollowsPlain ==
  ASSUME NEW h, UNCHANGED <<node, task>>, queue' \subseteq queue,
         \/ status' = status \/ status' \in {"succeeded", "failed", "deleted"}
         \/ status = "absent" /\ status' = "running"
  PROVE  Follows(h)
BY DEF Follows

LEMMA FollowsSet ==
  ASSUME HandlersInv, NEW h, NEW n \in Nodes, NEW s, Set(n, s),
         UNCHANGED <<task, queue, status>>,
         \/ node[n].status # "running"
         \/ Holds(h) /\ JobOf(h)[1] = n /\ handler'[h].pc \notin UseJob
  PROVE  Follows(h)
<1>1. node \in [Nodes -> NodeState]
  BY DEF HandlersInv, WorkflowType, Views
<1>2. node' = [node EXCEPT ![n] = [node[n] EXCEPT !.status = s]]
  BY DEF Set
<1>3. \A m \in Nodes : node'[m].attempt = node[m].attempt /\ node'[m].task = node[m].task
  BY <1>1, <1>2 DEF NodeState
<1>4. \A m \in Nodes : m # n => node'[m].status = node[m].status
  BY <1>1, <1>2
<1> QED
  BY <1>3, <1>4 DEF Follows

(* Scheduling and what follows the end of a node *)
LEMMA ProceedQuiet ==
  ASSUME HandlersInv, NEW h \in Handlers,
         \/ ReadToSchedule(h) \/ SkipOne(h) \/ Finalize(h) \/ ReleaseRun(h)
         \/ AfterComplete(h) \/ SucceedRun(h) \/ ScheduleNext(h) \/ AfterFail(h) \/ FailRun(h)
         \/ ClaimComplete(h) \/ ClaimFailed(h) \/ AddThrows(h)
  PROVE  Moves(h) /\ Follows(h)
<1>0. /\ handler \in [Handlers -> Call] /\ handler[h] \in Call /\ Shape(handler[h])
      /\ node \in [Nodes -> NodeState]
  BY DEF HandlersInv, WorkflowType, Views
<1>1. handler[h].pc \notin {"taskCreated", "compensate"} \cup Cancelling
  BY DEF ReadToSchedule, SkipOne, Finalize, ReleaseRun, AfterComplete, SucceedRun, ScheduleNext,
         AfterFail, FailRun, ClaimComplete, ClaimFailed, AddThrows, At, Cancelling
<1>2. \A view : AfterSkips(h, view).pc \in {"finalize", "enqueue"}
  BY <1>0 DEF AfterSkips, Call
<1>3. CASE ReadToSchedule(h)
  <2> DEFINE c == IF ToSkip(node) # {}
                  THEN [handler[h] EXCEPT !.pc = "skip", !.view = node,
                                          !.todo = ToSkip(node), !.room = 0]
                  ELSE AfterSkips(h, node)
  <2>1. [handler[h] EXCEPT !.pc = "skip", !.view = node, !.todo = ToSkip(node), !.room = 0].pc = "skip"
    BY <1>0 DEF Call
  <2>2. c.pc \notin UseJob
    BY <1>2, <2>1 DEF UseJob
  <2>3. Return(h) \/ handler' = [handler EXCEPT ![h] = c]
    BY <1>3 DEF ReadToSchedule
  <2> HIDE DEF c
  <2>4. Moves(h)
    BY <1>1, <2>2, <2>3, MovesOut
  <2> QED
    BY <1>3, <2>4, FollowsPlain DEF ReadToSchedule, StatsOnly
<1>4. CASE SkipOne(h)
  <2>1. /\ \A t, m : [handler[h] EXCEPT !.todo = t, !.room = m].pc = handler[h].pc
        /\ \A t, v : [handler[h] EXCEPT !.pc = "schedule", !.todo = t, !.view = v].pc = "schedule"
    BY <1>0 DEF Call
  <2>2. handler[h].pc = "skip" /\ UNCHANGED <<status, task, queue>>
    BY <1>4 DEF SkipOne, At
  <2>3. PICK n \in handler[h].todo :
          /\ IF Claims(n, "pending") THEN Set(n, "skipped") ELSE UNCHANGED node
          /\ LET skipped == handler[h].room + (IF Claims(n, "pending") THEN 1 ELSE 0)
                 left == handler[h].todo \ {n}
             IN handler' = [handler EXCEPT ![h] =
               IF left # {} THEN [@ EXCEPT !.todo = left, !.room = skipped]
               ELSE IF skipped > 0 THEN [@ EXCEPT !.pc = "schedule", !.todo = {}, !.view = None]
               ELSE AfterSkips(h, handler[h].view)]
    BY <1>4 DEF SkipOne
  <2> DEFINE skipped == handler[h].room + (IF Claims(n, "pending") THEN 1 ELSE 0)
             left == handler[h].todo \ {n}
             c == IF left # {} THEN [handler[h] EXCEPT !.todo = left, !.room = skipped]
                  ELSE IF skipped > 0
                  THEN [handler[h] EXCEPT !.pc = "schedule", !.todo = {}, !.view = None]
                  ELSE AfterSkips(h, handler[h].view)
  <2>4. handler' = [handler EXCEPT ![h] = c]
    BY <2>3
  <2>5. c.pc \notin UseJob
    BY <1>2, <2>1, <2>2 DEF UseJob
  <2> HIDE DEF c
  <2>6. Moves(h)
    BY <1>1, <2>4, <2>5, MovesOut
  <2>7. n \in Nodes
    BY <1>0 DEF Call
  <2>8. Follows(h)
    BY <2>2, <2>3, <2>7, FollowsSet, FollowsPlain DEF Claims
  <2> QED
    BY <2>6, <2>8
<1>5. CASE \/ Finalize(h) \/ ReleaseRun(h) \/ AfterComplete(h) \/ SucceedRun(h)
           \/ ScheduleNext(h) \/ AfterFail(h) \/ FailRun(h)
  <2>1. Return(h) \/ \E pc \in {"release", "succeed", "next", "schedule", "failRun"} : Goto(h, pc)
    BY <1>5 DEF Finalize, ReleaseRun, AfterComplete, SucceedRun, ScheduleNext, AfterFail, FailRun
  <2>2. Moves(h)
    BY <1>1, <2>1, MovesOut DEF Points, UseJob
  <2>3. /\ UNCHANGED <<node, task, queue>>
        /\ status' = status \/ status' \in {"succeeded", "failed"}
    BY <1>5 DEF Finalize, ReleaseRun, AfterComplete, SucceedRun, ScheduleNext, AfterFail, FailRun,
                StatsOnly
  <2> QED
    BY <2>2, <2>3, FollowsPlain
<1>6. CASE ClaimComplete(h) \/ ClaimFailed(h)
  <2>1. Return(h) \/ \E pc \in {"afterComplete", "afterFail"} : Goto(h, pc)
    BY <1>6 DEF ClaimComplete, ClaimFailed
  <2>2. Moves(h)
    BY <1>1, <2>1, MovesOut DEF Points, UseJob
  <2>3. handler'[h].pc \notin UseJob
    BY <2>1, TurnsOut DEF Turns, UseJob
  <2>4. Holds(h) /\ JobOf(h) \in Jobs /\ UNCHANGED <<status, task, queue>>
    BY <1>0, <1>6 DEF ClaimComplete, ClaimFailed, At, Holds, JobOf, UseJob, Shape
  <2>5. NodeOf(h) \in Nodes /\ NodeOf(h) = JobOf(h)[1]
    BY <2>4 DEF NodeOf, JobOf, Jobs
  <2>6. CASE UNCHANGED node
    BY <2>2, <2>4, <2>6, FollowsPlain
  <2>7. CASE Set(NodeOf(h), "failed")
    BY <2>2, <2>3, <2>4, <2>5, <2>7, FollowsSet
  <2>8. ASSUME NEW b, node' = [node EXCEPT ![NodeOf(h)].status = "succeeded",
                                           ![NodeOf(h)].out = b]
        PROVE  Follows(h)
    <3>1. \A n \in Nodes : node'[n].attempt = node[n].attempt /\ node'[n].task = node[n].task
      BY <1>0, <2>5, <2>8 DEF NodeState
    <3>2. \A n \in Nodes : n # NodeOf(h) => node'[n].status = node[n].status
      BY <1>0, <2>5, <2>8
    <3> QED
      BY <2>3, <2>4, <2>5, <3>1, <3>2 DEF Follows
  <2> QED
    BY <1>6, <2>2, <2>6, <2>7, <2>8 DEF ClaimComplete, ClaimFailed
<1>7. CASE AddThrows(h)
  <2>1. handler[h].pc = "add" /\ UNCHANGED <<status, node, task, queue>>
    BY <1>7 DEF AddThrows, At, StatsOnly
  <2>2. handler'[h].pc = "fail" /\ handler'[h].job = handler[h].job
        /\ \A g \in Handlers : g # h => handler'[g] = handler[g]
    BY <1>0, <1>7 DEF AddThrows, Call
  <2>3. Moves(h)
    BY <1>1, <2>1, <2>2 DEF Moves, Holds, UseJob
  <2> QED
    BY <2>1, <2>3, FollowsPlain
<1> QED
  BY <1>3, <1>4, <1>5, <1>6, <1>7

(* A node is claimed: its job is in the hands of the handler that did.     *)
LEMMA EnqueueKeeps ==
  ASSUME HandlersInv, Places, Known, NEW h \in Handlers, EnqueueNext(h)
  PROVE  Places' /\ Known'
<1>0. /\ handler \in [Handlers -> Call] /\ handler[h] \in Call /\ handler[h].pc = "enqueue"
      /\ handler[h].view \in Views /\ Agrees(handler[h].view, node)
      /\ node \in [Nodes -> NodeState] /\ UNCHANGED <<status, task, queue>>
  BY DEF HandlersInv, WorkflowType, Views, EnqueueNext, At, Shape, Current, UseView
<1>1. handler[h].pc \notin {"taskCreated", "compensate"} \cup Cancelling
  BY <1>0 DEF Cancelling
<1>2. CASE Return(h) /\ UNCHANGED node
  BY <1>0, <1>1, <1>2, MovesOut, FollowsPlain, QuietKeeps
<1>3. ASSUME NEW n \in handler[h].todo, UNCHANGED node, handler' = [handler EXCEPT ![h].todo = @ \ {n}]
      PROVE  Places' /\ Known'
  <2>1. handler' = [handler EXCEPT ![h] = [handler[h] EXCEPT !.todo = @ \ {n}]]
    BY <1>0, <1>3
  <2>2. [handler[h] EXCEPT !.todo = @ \ {n}].pc \notin UseJob
    BY <1>0 DEF Call, UseJob
  <2> QED
    BY <1>0, <1>1, <1>3, <2>1, <2>2, MovesOut, FollowsPlain, QuietKeeps
<1>4. ASSUME NEW n \in handler[h].todo, Claimable(n), Set(n, "running"),
             handler' = [handler EXCEPT ![h].pc = "add", ![h].todo = @ \ {n},
                           ![h].job = <<n, handler[h].view[n].attempt>>]
      PROVE  Places' /\ Known'
  <2> DEFINE job == <<n, handler[h].view[n].attempt>>
  <2>1. n \in Nodes /\ status = "running" /\ node[n].status = "pending"
    BY <1>0, <1>4 DEF Call, Claimable, Claims
  <2>2. job \in Jobs /\ job[1] = n /\ job[2] = node[n].attempt
    BY <1>0, <2>1 DEF Jobs, Views, NodeState, Agrees
  <2>3. handler'[h].pc = "add" /\ handler'[h].job = job
    BY <1>0, <1>4 DEF Call
  <2> HIDE DEF job
  <2>4. \A g \in Handlers : g # h => handler'[g] = handler[g]
    BY <1>0, <1>4
  <2>5. \A m \in Nodes : /\ node'[m].status = IF m = n THEN "running" ELSE node[m].status
                         /\ node'[m].attempt = node[m].attempt /\ node'[m].task = node[m].task
    BY <1>0, <1>4, <2>1 DEF Set, NodeState
  <2>6. \A j \in Jobs : InHand(j) => j[1] # n
    BY <2>1 DEF Places
  <2>7. \A g \in Handlers : Holds(g) => JobOf(g) \in Jobs /\ InHand(JobOf(g))
    BY DEF HandlersInv, Shape, Holds, JobOf, InHand
  <2>8. ~InHand(job)
    BY <2>2, <2>6
  <2>9. \A j \in Jobs : InHand(j)' => InHand(j) \/ j = job
    BY <1>0, <2>3, <2>4 DEF InHand, Holds, JobOf
  <2>10. Places'
    <3>1. \A j \in Jobs : InHand(j)' => j[2] = node'[j[1]].attempt
      BY <2>2, <2>5, <2>9 DEF Places, Jobs
    <3>2. \A g \in Handlers : handler'[g].pc \in UseJob => handler'[g].job \notin queue'
      BY <1>0, <2>3, <2>4, <2>8 DEF Places, InHand, Holds, JobOf
    <3>3. \A g \in Handlers : g # h /\ handler'[g].pc \in UseJob => handler'[g].job # job
      BY <2>4, <2>7, <2>8 DEF Holds, JobOf
    <3>4. \A g, k \in Handlers : handler'[g].pc \in UseJob /\ handler'[k].pc \in UseJob /\ g # k =>
            handler'[g].job # handler'[k].job
      BY <2>3, <2>4, <3>3 DEF Places, Holds, JobOf
    <3>5. \A j \in Jobs : InHand(j)' => status' # "absent" /\ node'[j[1]].status = "running"
      BY <1>0, <2>1, <2>2, <2>5, <2>9 DEF Places, Jobs
    <3> QED
      BY <3>1, <3>2, <3>4, <3>5 DEF Places, Holds, JobOf
  <2>11. \A j \in Jobs : Recording(j, {"taskCreated"}) => Recording(j, {"taskCreated"})'
    BY <1>0, <2>4, HandlerSets DEF Recording, JobOf
  <2>12. \A j \in Jobs : Noted(node, j) => Noted(node, j)'
    BY <2>5 DEF Noted, Jobs
  <2>13. \A x \in Executors : handler'[x].pc = "compensate" => handler[x].pc = "compensate"
    BY <2>3, <2>4, HandlerSets
  <2> QED
    BY <1>0, <2>1, <2>10, <2>11, <2>12, <2>13 DEF Known
<1> QED
  BY <1>2, <1>3, <1>4 DEF EnqueueNext

(* A job comes to another place: from hand to queue, or back.              *)
LEMMA PassKeeps ==
  ASSUME HandlersInv, Places, Known, NEW h \in Handlers,
         AddJob(h) \/ (h \in Executors /\ TakeJob(h))
  PROVE  Places' /\ Known'
<1>0. /\ handler \in [Handlers -> Call] /\ handler[h] \in Call /\ Shape(handler[h])
      /\ queue \subseteq Jobs /\ UNCHANGED <<status, node, task>>
  BY DEF HandlersInv, WorkflowType, AddJob, TakeJob
<1>1. \A g \in Handlers : g # h => handler'[g] = handler[g]
  BY <1>0 DEF AddJob, TakeJob
<1>2. handler[h].pc \in {"add", "idle"} /\ handler'[h].pc \in {"enqueue", "createTask", "evaluate"}
  <2>1. CASE AddJob(h)
    BY <1>0, <2>1 DEF AddJob, At, Call
  <2>2. CASE TakeJob(h)
    <3>1. PICK j \in queue, pc \in {"createTask", "evaluate"} :
            handler' = [handler EXCEPT ![h].job = j, ![h].pc = pc]
      BY <2>2 DEF TakeJob
    <3> QED
      BY <1>0, <2>2, <3>1 DEF TakeJob, At, Call
  <2> QED
    BY <2>1, <2>2
<1>3. Places'
  <2>1. CASE AddJob(h)
    <3>1. /\ Holds(h) /\ queue' = queue \cup {JobOf(h)} /\ handler'[h].pc = "enqueue"
      BY <1>0, <2>1 DEF AddJob, At, Holds, UseJob, Call
    <3>2. \A j \in Jobs : InHand(j)' => InHand(j)
      BY <1>1, <3>1 DEF InHand, Holds, JobOf, UseJob
    <3>3. \A g \in Handlers : handler'[g].pc \in UseJob => g # h /\ handler'[g] = handler[g]
      BY <1>1, <3>1 DEF UseJob
    <3>4. \A g \in Handlers : handler'[g].pc \in UseJob => handler'[g].job \notin queue'
      BY <3>1, <3>3 DEF Places, Holds, JobOf
    <3>5. \A g, k \in Handlers : handler'[g].pc \in UseJob /\ handler'[k].pc \in UseJob /\ g # k =>
            handler'[g].job # handler'[k].job
      BY <3>3 DEF Places, Holds, JobOf
    <3> QED
      BY <1>0, <3>2, <3>4, <3>5 DEF Places, Holds, JobOf
  <2>2. CASE h \in Executors /\ TakeJob(h)
    <3>1. PICK j \in queue : queue' = queue \ {j} /\ handler'[h].job = j
      <4>1. PICK j \in queue :
              /\ queue' = queue \ {j}
              /\ handler' = [handler EXCEPT ![h].job = j,
                   ![h].pc = IF j[1] \in workflow.models THEN "createTask" ELSE "evaluate"]
        BY <2>2 DEF TakeJob
      <4>2. handler[h] \in Call /\ handler \in [Handlers -> Call]
        BY <1>0
      <4>3. handler'[h].job = j
        BY <4>1, <4>2 DEF Call
      <4> QED
        BY <4>1, <4>3
    <3>2. \A i \in Jobs : InHand(i)' => InHand(i)
      BY <1>1, <3>1 DEF InHand, Holds, JobOf
    <3>3. \A g \in Handlers : g # h /\ Holds(g) => JobOf(g) # j
      BY <3>1 DEF Places
    <3>4. \A g \in Handlers : handler'[g].pc \in UseJob => handler'[g].job \notin queue'
      BY <1>1, <3>1 DEF Places, Holds, JobOf
    <3>5. \A g, k \in Handlers : handler'[g].pc \in UseJob /\ handler'[k].pc \in UseJob /\ g # k =>
            handler'[g].job # handler'[k].job
      BY <1>1, <3>1, <3>3 DEF Places, Holds, JobOf
    <3> QED
      BY <1>0, <3>2, <3>4, <3>5 DEF Places, Holds, JobOf
  <2> QED
    BY <2>1, <2>2
<1>4. \A S \in {{"taskCreated"}, {"taskCreated", "compensate"}}, j \in Jobs :
        Recording(j, S) => Recording(j, S)'
  BY <1>1, <1>2, HandlerSets DEF Recording, JobOf
<1>5. \A x \in Executors : handler'[x].pc = "compensate" => handler[x].pc = "compensate"
  BY <1>1, <1>2, HandlerSets
<1>6. handler[Canceller].pc \in Cancelling => handler'[Canceller] = handler[Canceller]
  BY <1>1, <1>2, HandlerSets DEF Cancelling
<1>7. Known'
  <2>1. \A j \in Jobs : Noted(node, j) => Noted(node, j)'
    BY <1>0 DEF Noted
  <2>2. \A j \in Jobs : task'[j] = "open" /\ status' \in {"absent", "running"} =>
          Recording(j, {"taskCreated"})' \/ Noted(node, j)'
    BY <1>0, <1>4, <2>1 DEF Known
  <2>3. \A x \in Executors : handler'[x].pc = "compensate" => status' \notin {"absent", "running"}
    BY <1>0, <1>5 DEF Known
  <2>4. \A j \in Jobs : task'[j] = "open" /\ status' = "cancelled" =>
          \/ Recording(j, {"taskCreated", "compensate"})'
          \/ handler'[Canceller].pc \in Cancelling /\ Noted(handler'[Canceller].view, j)
    BY <1>0, <1>4, <1>6 DEF Known
  <2> QED
    BY <2>2, <2>3, <2>4 DEF Known, Noted
<1> QED
  BY <1>3, <1>7

(* An executor and the child task of its node.                             *)
LEMMA ExecuteKeeps ==
  ASSUME HandlersInv, Places, Known, NEW x \in Executors, Executes(x)
  PROVE  Places' /\ Known'
<1>0. /\ x \in Handlers /\ x # Canceller /\ handler \in [Handlers -> Call]
      /\ handler[x] \in Call /\ Shape(handler[x])
      /\ node \in [Nodes -> NodeState]
      /\ task \in [Jobs -> {"none", "open", "asked", "succeeded", "failed"}]
  BY HandlerSets, HandlerAssumption DEF HandlersInv, WorkflowType, Views
<1>1. CASE TakeJob(x)
  BY <1>0, <1>1, PassKeeps
<1>2. ASSUME Evaluate(x) \/ Await(x) \/ (CreateTask(x) /\ UNCHANGED task /\ Goto(x, "fail"))
      PROVE  Places' /\ Known'
  <2>1. /\ handler[x].pc \in {"evaluate", "wait", "createTask"}
        /\ \E pc \in {"complete", "fail"} : Goto(x, pc)
        /\ UNCHANGED <<status, node, task, queue>>
    BY <1>2 DEF Evaluate, Await, CreateTask, At, StatsOnly
  <2>2. Moves(x)
    BY <1>0, <2>1, MovesOut DEF Points, UseJob, Cancelling, Holds
  <2> QED
    BY <1>0, <2>1, <2>2, FollowsPlain, QuietKeeps
<1>3. ASSUME NEW pc \in {"taskCreated", "compensate", "wait"}, Goto(x, pc),
             handler[x].pc \in {"createTask", "taskCreated", "compensate"},
             UNCHANGED <<status, queue>>,
             \A n \in Nodes : node'[n].status = node[n].status /\ node'[n].attempt = node[n].attempt
      PROVE  /\ Places' /\ JobOf(x) \in Jobs /\ InHand(JobOf(x))
             /\ handler'[x].pc = pc /\ handler'[x].job = JobOf(x)
             /\ \A g \in Handlers : g # x => handler'[g] = handler[g]
  <2>1. handler'[x].pc = pc /\ handler'[x].job = JobOf(x)
    BY <1>0, <1>3 DEF Goto, Call, JobOf
  <2>2. \A g \in Handlers : g # x => handler'[g] = handler[g]
    BY <1>0, <1>3 DEF Goto
  <2>3. Holds(x) /\ JobOf(x) \in Jobs
    BY <1>0, <1>3 DEF Holds, JobOf, UseJob, Shape
  <2>4. \A g \in Handlers : /\ handler'[g].pc \in UseJob => Holds(g)
                            /\ handler'[g].job = JobOf(g)
    BY <2>1, <2>2, <2>3 DEF Holds, JobOf
  <2>5. \A j \in Jobs : InHand(j)' => InHand(j)
    BY <1>3, <2>4 DEF InHand, Holds, JobOf
  <2>6. \A j \in Jobs : InHand(j)' =>
          /\ j[2] = node'[j[1]].attempt /\ status' # "absent"
          /\ status' = "running" => node'[j[1]].status = "running"
    BY <1>3, <2>5 DEF Places, Jobs
  <2>7. \A g \in Handlers : handler'[g].pc \in UseJob => handler'[g].job \notin queue'
    BY <1>3, <2>4 DEF Places
  <2>8. \A g, k \in Handlers : handler'[g].pc \in UseJob /\ handler'[k].pc \in UseJob /\ g # k =>
          handler'[g].job # handler'[k].job
    BY <2>4 DEF Places
  <2>9. Places'
    BY <2>6, <2>7, <2>8 DEF Places, Holds, JobOf
  <2> QED
    BY <1>0, <2>1, <2>2, <2>3, <2>9 DEF InHand
<1>4. ASSUME CreateTask(x), task' = [task EXCEPT ![JobOf(x)] = IF @ = "none" THEN "open" ELSE @],
             Goto(x, "taskCreated")
      PROVE  Places' /\ Known'
  <2>1. handler[x].pc = "createTask" /\ UNCHANGED <<status, node, queue>>
    BY <1>4 DEF CreateTask, At
  <2>2. /\ Places' /\ JobOf(x) \in Jobs
        /\ handler'[x].pc = "taskCreated" /\ handler'[x].job = JobOf(x)
        /\ \A g \in Handlers : g # x => handler'[g] = handler[g]
    BY <1>3, <1>4, <2>1
  <2>3. \A j \in Jobs : j # JobOf(x) => task'[j] = task[j]
    BY <1>0, <1>4
  <2>4. \A S \in {{"taskCreated"}, {"taskCreated", "compensate"}}, j \in Jobs :
          Recording(j, S) \/ j = JobOf(x) => Recording(j, S)'
    BY <2>1, <2>2, HandlerSets DEF Recording, JobOf
  <2>5. \A j \in Jobs : task'[j] = "open" /\ status' \in {"absent", "running"} =>
          Recording(j, {"taskCreated"})' \/ Noted(node, j)'
    BY <2>1, <2>3, <2>4 DEF Known, Noted
  <2>6. \A y \in Executors : handler'[y].pc = "compensate" => status' \notin {"absent", "running"}
    BY <2>1, <2>2, HandlerSets DEF Known
  <2>7. \A j \in Jobs : task'[j] = "open" /\ status' = "cancelled" =>
          \/ Recording(j, {"taskCreated", "compensate"})'
          \/ handler'[Canceller].pc \in Cancelling /\ Noted(handler'[Canceller].view, j)
    BY <1>0, <2>1, <2>2, <2>3, <2>4, HandlerSets DEF Known
  <2> QED
    BY <2>2, <2>5, <2>6, <2>7 DEF Known, Noted
<1>5. ASSUME OnTaskCreated(x), Claims(NodeOf(x), "running") PROVE Places' /\ Known'
  <2>1. /\ handler[x].pc = "taskCreated" /\ Goto(x, "wait") /\ status = "running"
        /\ node' = [node EXCEPT ![NodeOf(x)].task = TRUE] /\ UNCHANGED <<status, queue, task>>
    BY <1>5 DEF OnTaskCreated, At, Claims
  <2>2. \A n \in Nodes : /\ node'[n].status = node[n].status /\ node'[n].attempt = node[n].attempt
                         /\ node'[n].task = IF n = NodeOf(x) THEN TRUE ELSE node[n].task
    BY <1>0, <2>1 DEF NodeState
  <2>3. /\ Places' /\ JobOf(x) \in Jobs /\ InHand(JobOf(x)) /\ handler'[x].pc = "wait"
        /\ \A g \in Handlers : g # x => handler'[g] = handler[g]
    BY <1>3, <2>1, <2>2
  <2>4. PICK i \in Jobs : i = JobOf(x)
    BY <2>3
  <2>5. i[1] = NodeOf(x) /\ i[1] \in Nodes /\ i[2] = node[i[1]].attempt
    BY <2>3, <2>4 DEF NodeOf, JobOf, Places, Jobs
  <2>6. Noted(node, i)'
    BY <2>2, <2>5 DEF Noted
  <2>7. \A j \in Jobs : Noted(node, j) => Noted(node, j)'
    BY <2>2 DEF Noted, Jobs
  <2>8. \A j \in Jobs : j # i /\ Recording(j, {"taskCreated"}) => Recording(j, {"taskCreated"})'
    BY <2>3, <2>4, HandlerSets DEF Recording, JobOf
  <2>9. \A y \in Executors : handler'[y].pc = "compensate" => handler[y].pc = "compensate"
    BY <2>3, HandlerSets
  <2>10. \A j \in Jobs : task'[j] = "open" => Recording(j, {"taskCreated"})' \/ Noted(node, j)'
    BY <2>1, <2>6, <2>7, <2>8 DEF Known
  <2> QED
    BY <2>1, <2>3, <2>9, <2>10 DEF Known, Noted
<1>6. ASSUME OnTaskCreated(x), ~Claims(NodeOf(x), "running") PROVE Places' /\ Known'
  <2>1. /\ handler[x].pc = "taskCreated" /\ Goto(x, "compensate")
        /\ UNCHANGED <<status, node, queue, task>>
    BY <1>6 DEF OnTaskCreated, At
  <2>2. /\ Places' /\ JobOf(x) \in Jobs /\ InHand(JobOf(x))
        /\ handler'[x].pc = "compensate" /\ handler'[x].job = JobOf(x)
        /\ \A g \in Handlers : g # x => handler'[g] = handler[g]
    BY <1>3, <2>1
  <2>3. status \notin {"absent", "running"}
    BY <1>6, <2>2 DEF Places, Claims, NodeOf, JobOf
  <2>4. \A j \in Jobs : Recording(j, {"taskCreated", "compensate"}) =>
                        Recording(j, {"taskCreated", "compensate"})'
    BY <2>2, HandlerSets DEF Recording, JobOf
  <2>5. \A j \in Jobs : task'[j] = "open" /\ status' = "cancelled" =>
          \/ Recording(j, {"taskCreated", "compensate"})'
          \/ handler'[Canceller].pc \in Cancelling /\ Noted(handler'[Canceller].view, j)
    BY <1>0, <2>1, <2>2, <2>4, HandlerSets DEF Known
  <2> QED
    BY <2>1, <2>2, <2>3, <2>5 DEF Known, Noted
<1>7. ASSUME Compensate(x) PROVE Places' /\ Known'
  <2>1. /\ handler[x].pc = "compensate" /\ Goto(x, "wait") /\ UNCHANGED <<status, node, queue>>
        /\ task' = IF status = "cancelled" THEN AskToCancel(JobOf(x)) ELSE task
    BY <1>7 DEF Compensate, At
  <2>2. /\ Places' /\ JobOf(x) \in Jobs /\ handler'[x].pc = "wait"
        /\ \A g \in Handlers : g # x => handler'[g] = handler[g]
    BY <1>3, <2>1
  <2>3. status \notin {"absent", "running"}
    BY <2>1 DEF Known
  <2>4. \A j \in Jobs : task'[j] = "open" /\ status = "cancelled" => task[j] = "open" /\ j # JobOf(x)
    BY <1>0, <2>1, <2>2 DEF AskToCancel
  <2>5. \A j \in Jobs : j # JobOf(x) /\ Recording(j, {"taskCreated", "compensate"}) =>
                        Recording(j, {"taskCreated", "compensate"})'
    BY <2>2, HandlerSets DEF Recording, JobOf
  <2>6. \A j \in Jobs : task'[j] = "open" /\ status' = "cancelled" =>
          \/ Recording(j, {"taskCreated", "compensate"})'
          \/ handler'[Canceller].pc \in Cancelling /\ Noted(handler'[Canceller].view, j)
    BY <1>0, <2>1, <2>2, <2>4, <2>5, HandlerSets DEF Known
  <2> QED
    BY <2>1, <2>2, <2>3, <2>6 DEF Known, Noted
<1> QED
  BY <1>1, <1>2, <1>4, <1>5, <1>6, <1>7 DEF Executes, CreateTask

(* The request that starts the run.                                        *)
LEMMA StartKeeps ==
  ASSUME HandlersInv, StoryInv, Places, Known, AcquireToStart \/ SaveRun \/ StartThrows
  PROVE  Places' /\ Known'
<1>1. Starter \in Handlers /\ handler[Starter].pc \in {"start", "save", "schedule", "enqueue"}
  BY HandlerSets DEF AcquireToStart, SaveRun, StartThrows, At
<1>2. handler[Starter].pc \notin {"taskCreated", "compensate"} \cup Cancelling
  BY <1>1 DEF Cancelling
<1>3. Moves(Starter)
  <2>1. [Idle EXCEPT !.pc = "release"].pc \notin UseJob
    BY DEF Idle, UseJob
  <2>2. CASE StartThrows
    BY <1>1, <1>2, <2>1, <2>2, MovesOut DEF StartThrows
  <2>3. CASE Goto(Starter, "save") \/ Goto(Starter, "schedule")
    BY <1>1, <1>2, <2>3, MovesOut DEF Points, UseJob
  <2> QED
    BY <2>2, <2>3 DEF AcquireToStart, SaveRun
<1>4. UNCHANGED <<node, task, queue>>
  BY DEF AcquireToStart, SaveRun, StartThrows
<1>5. \/ status' = status \/ status' = "deleted"
      \/ status = "absent" /\ status' = "running"
  BY <1>1 DEF AcquireToStart, SaveRun, StartThrows, StoryInv, At
<1> QED
  BY <1>1, <1>3, <1>4, <1>5, FollowsPlain, QuietKeeps

(* The request that cancels it: it takes a copy in the step that cancels,  *)
(* so a task that is not in the copy has an executor yet to record it.     *)
LEMMA CancelKeeps ==
  ASSUME HandlersInv, LeaseInv, Places, Known, Cancels
  PROVE  Places' /\ Known'
<1>0. /\ Canceller \in Handlers /\ Executors \subseteq Handlers /\ Canceller \notin Executors
      /\ handler \in [Handlers -> Call] /\ node \in [Nodes -> NodeState]
      /\ task \in [Jobs -> {"none", "open", "asked", "succeeded", "failed"}]
  BY HandlerSets, HandlerAssumption DEF HandlersInv, WorkflowType, Views
<1>1. CASE CancelRun
  <2>1. /\ status = "running" /\ status' = "cancelled" /\ UNCHANGED <<queue, task>>
    BY <1>1 DEF CancelRun
  <2>2. \A n \in Nodes : node'[n].attempt = node[n].attempt /\ node'[n].task = node[n].task
    <3> SUFFICES ASSUME NEW n \in Nodes
                 PROVE  node'[n].attempt = node[n].attempt /\ node'[n].task = node[n].task
      OBVIOUS
    <3>1. PICK s : node'[n] = [node[n] EXCEPT !.status = s]
      BY <1>1 DEF CancelRun
    <3>2. node[n] \in NodeState
      BY <1>0
    <3> QED
      BY <3>1, <3>2 DEF NodeState
  <2>3. handler'[Canceller] = [Idle EXCEPT !.pc = "removeJobs", !.view = node']
    BY <1>0, <1>1 DEF CancelRun
  <2>4. handler'[Canceller].pc = "removeJobs" /\ handler'[Canceller].view = node'
    BY <2>3 DEF Idle
  <2>5. \A g \in Handlers : g # Canceller => handler'[g] = handler[g]
    BY <1>0, <1>1 DEF CancelRun
  <2>6. \A g \in Handlers : handler'[g].pc \in UseJob => g # Canceller /\ Holds(g) /\ handler'[g] = handler[g]
    BY <2>4, <2>5 DEF UseJob, Holds
  <2>7. \A j \in Jobs : InHand(j)' => InHand(j)
    BY <2>1, <2>6 DEF InHand, Holds, JobOf
  <2>8. Places'
    <3>1. \A j \in Jobs : InHand(j)' => j[2] = node'[j[1]].attempt
      BY <2>2, <2>7 DEF Places, Jobs
    <3>2. \A g \in Handlers : handler'[g].pc \in UseJob => handler'[g].job \notin queue'
      BY <2>1, <2>6 DEF Places, JobOf
    <3>3. \A g, k \in Handlers : handler'[g].pc \in UseJob /\ handler'[k].pc \in UseJob /\ g # k =>
            handler'[g].job # handler'[k].job
      BY <2>6 DEF Places, JobOf
    <3> QED
      BY <2>1, <3>1, <3>2, <3>3 DEF Places, Holds, JobOf
  <2>9. \A j \in Jobs : Recording(j, {"taskCreated"}) => Recording(j, {"taskCreated", "compensate"})'
    BY <1>0, <2>5 DEF Recording, JobOf
  <2>10. \A j \in Jobs : Noted(node, j) => Noted(handler'[Canceller].view, j)
    BY <2>2, <2>4 DEF Noted, Jobs
  <2> QED
    BY <2>1, <2>4, <2>8, <2>9, <2>10 DEF Known, Cancelling, Noted
<1>2. CASE RemoveJobs
  <2>1. /\ handler[Canceller].pc = "removeJobs" /\ handler'[Canceller].pc = "cancelTasks"
        /\ handler'[Canceller].view = handler[Canceller].view
    BY <1>0, <1>2 DEF RemoveJobs, At, Goto, Call
  <2>2. \A g \in Handlers : g # Canceller => handler'[g] = handler[g]
    BY <1>0, <1>2 DEF RemoveJobs, Goto
  <2>3. Moves(Canceller)
    BY <2>1, <2>2 DEF Moves, UseJob, Cancelling
  <2>4. Follows(Canceller)
    BY <1>2, FollowsPlain DEF RemoveJobs
  <2> QED
    BY <1>0, <2>3, <2>4, QuietKeeps
<1>3. CASE CancelTasks
  <2>1. handler[Canceller].pc = "cancelTasks" /\ UNCHANGED <<status, node, queue>>
    BY <1>3 DEF CancelTasks, At
  <2>2. status \notin {"absent", "running"}
    BY <1>0, <2>1 DEF LeaseInv, Leaving
  <2>3. handler'[Canceller].pc = "release"
    BY <1>0, <1>3 DEF CancelTasks, Goto, Call
  <2>4. \A g \in Handlers : g # Canceller => handler'[g] = handler[g]
    BY <1>0, <1>3 DEF CancelTasks, Goto
  <2>5. \A g \in Handlers : handler'[g].pc \in UseJob => Holds(g) /\ handler'[g] = handler[g]
    BY <2>3, <2>4 DEF UseJob, Holds
  <2>6. Places'
    BY <2>1, <2>5 DEF Places, InHand, Holds, JobOf
  <2>7. \A j \in Jobs : task'[j] = "open" => task[j] = "open" /\ ~Noted(handler[Canceller].view, j)
    BY <1>3 DEF CancelTasks, Noted
  <2>8. \A j \in Jobs : Recording(j, {"taskCreated", "compensate"}) =>
                        Recording(j, {"taskCreated", "compensate"})'
    BY <1>0, <2>4 DEF Recording, JobOf
  <2> QED
    BY <2>1, <2>2, <2>6, <2>7, <2>8 DEF Known
<1> QED
  BY <1>1, <1>2, <1>3 DEF Cancels

(* Every step of a deployment in which nobody retries and no job stalls.   *)
LEMMA CancellationKept ==
  ASSUME HandlersInv, StoryInv, LeaseInv, Places, Known,
         environment \cap {"retry", "stall"} = {}, WorkflowNext
  PROVE  Places' /\ Known'
<1>1. /\ \A r \in Retriers : ~Retries(r)
      /\ \A x \in Executors : ~Stall(x)
  BY DEF Retries, FindFailed, AcquireToRetry, ClaimRetry, SaveRetry, RetryThrows, At, LeaseInv, Stall
<1>2. CASE \E h \in Handlers : Proceeds(h) \/ AddThrows(h)
  <2> PICK h \in Handlers : Proceeds(h) \/ AddThrows(h)
    BY <1>2
  <2>1. CASE EnqueueNext(h)
    BY <2>1, EnqueueKeeps
  <2>2. CASE AddJob(h)
    BY <2>2, PassKeeps
  <2> QED
    BY <2>1, <2>2, ProceedQuiet, QuietKeeps DEF Proceeds
<1>3. ASSUME NEW j \in Jobs, TaskEnds(j) PROVE Places' /\ Known'
  <2>1. UNCHANGED <<status, node, queue, handler>>
    BY <1>3 DEF TaskEnds
  <2>2. \A i \in Jobs : task'[i] = "open" => task[i] = "open"
    BY <1>3 DEF TaskEnds, HandlersInv, WorkflowType
  <2> QED
    BY <2>1, <2>2 DEF Places, Known, InHand, Holds, JobOf, Recording, Noted
<1>4. CASE DeleteWorkflow \/ OtherRuns \/ LeaseExpires
  <2>1. UNCHANGED <<status, node, queue, handler, task>>
    BY <1>4 DEF DeleteWorkflow, OtherRuns, LeaseExpires
  <2> QED
    BY <2>1 DEF Places, Known, InHand, Holds, JobOf, Recording, Noted
<1> QED
  BY <1>1, <1>2, <1>3, <1>4, StartKeeps, ExecuteKeeps, CancelKeeps DEF WorkflowNext

(* workflow-execution.service.ts, cancel and onNodeTaskCreated: once a     *)
(* cancellation is through, every child task was asked to stop, or is about *)
(* to be, by the executor that created it, however the steps of the two    *)
(* interleave; as long as nobody retries and no job is handed out twice.   *)
THEOREM CancellationReaches == WorkflowSpec => []CancelReachesTasks
<1> DEFINE Undisturbed == environment \cap {"retry", "stall"} = {}
           Inv == IInv /\ (Undisturbed => LeaseInv /\ Places /\ Known)
<1>1. WorkflowInit => Inv
  <2> SUFFICES ASSUME WorkflowInit PROVE LeaseInv /\ Places /\ Known
    BY RunStarts
  <2>1. \A h \in Handlers : handler[h].pc \in {"start", "idle"} /\ (h # Starter => handler[h].pc = "idle")
    BY DEF WorkflowInit, Idle
  <2>2. slots.mine = "free" /\ status = "absent" /\ queue = {} /\ \A j \in Jobs : task[j] = "none"
    BY DEF WorkflowInit
  <2>3. LeaseInv
    BY <2>1, <2>2, HandlerSets, HandlerAssumption DEF LeaseInv, Leaving
  <2>4. Places
    BY <2>1, <2>2 DEF Places, InHand, Holds, UseJob
  <2>5. Known
    BY <2>1, <2>2, HandlerSets DEF Known
  <2> QED
    BY <2>3, <2>4, <2>5
<1>2. Inv /\ [WorkflowNext]_runVars => Inv'
  <2> SUFFICES ASSUME Inv, [WorkflowNext]_runVars, Undisturbed'
               PROVE  LeaseInv' /\ Places' /\ Known'
    BY RunKept
  <2>1. CASE UNCHANGED runVars
    <3>1. UNCHANGED <<environment, status, node, slots, queue, handler, task>>
      BY <2>1 DEF runVars, fixed
    <3> QED
      BY <3>1 DEF LeaseInv, Places, Known, InHand, Holds, JobOf, Recording, Noted
  <2>2. CASE WorkflowNext
    <3>1. UNCHANGED environment
      BY <2>2, EnvironmentStays
    <3>2. LeaseInv /\ Places /\ Known /\ HandlersInv /\ StoryInv /\ Undisturbed
      BY <3>1 DEF IInv
    <3>3. Places' /\ Known'
      BY <2>2, <3>2, CancellationKept
    <3>4. LeaseInv'
      BY <2>2, <3>2, LeaseKept
    <3> QED
      BY <3>3, <3>4
  <2> QED
    BY <2>1, <2>2
<1>3. Inv => CancelReachesTasks
  BY DEF Known, CancelReachesTasks, Cancelling, Recording, At
<1> QED
  BY <1>1, <1>2, <1>3, PTL DEF WorkflowSpec
=============================================================================
