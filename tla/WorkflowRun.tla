---------------------------- MODULE WorkflowRun ----------------------------
(***************************************************************************)
(* One run of a workflow: the document in workflow_runs with a state per   *)
(* node, the lease of its owner's concurrency limit, the jobs of the       *)
(* workflow-node queue and the child tasks that model nodes create.        *)
(* Handlers of several processes work on it at once: the request that      *)
(* started it, one executor per worker process, requests that cancel or    *)
(* retry it.  Each decides on a copy it has read (view) and writes through *)
(* updates that MongoDB filters on the present state.                      *)
(***************************************************************************)
EXTENDS Integers, FiniteSets

CONSTANTS
  Nodes,          \* of a workflow
  Branches,       \* the branch ids a condition may choose
  Scenarios,      \* a request to run, and what may happen besides normal operation
  MaxConcurrentRuns,
  Executors,      \* the worker processes, one job at a time each
  Retriers,       \* the retry requests
  MaxAttempt,     \* bound on the attempts of a node
  MaxStalls,      \* bound on the jobs Bull takes back from a live executor
  None

(* "slow": the run may outlast its lease.  "noUser": the caller is not an  *)
(* active portal user, at some time or at all, and is not limited.         *)
Possibilities ==
  {"cancel", "retry", "startError", "queueError", "stall", "delete", "otherRuns",
   "slow", "noUser"}

(* branch = None for a plain edge; models: the nodes that run as a task;   *)
(* requested = {} for the whole workflow; failFast: the strategy is not    *)
(* "continue"                                                              *)
Workflow ==
  [edges : SUBSET [from : Nodes, to : Nodes, branch : Branches \cup {None}],
   conditions : SUBSET Nodes, models : SUBSET Nodes, requested : SUBSET Nodes,
   failFast : BOOLEAN, maxParallelism : Nat \ {0}]

ASSUME WorkflowAssumption ==
  /\ Scenarios \subseteq [workflow : Workflow, environment : SUBSET Possibilities]
  /\ IsFiniteSet(Nodes) /\ None \notin Nodes \cup Branches
  /\ MaxConcurrentRuns \in Nat \ {0}
  /\ MaxAttempt \in Nat /\ MaxStalls \in Nat

Attempts == 0..MaxAttempt
Jobs == Nodes \X Attempts

Starter == "starter"
Canceller == "canceller"
Handlers == {Starter, Canceller} \cup Executors \cup Retriers

ASSUME HandlerAssumption ==
  /\ Executors \cap Retriers = {}
  /\ {Starter, Canceller} \cap (Executors \cup Retriers) = {}

VARIABLES
  workflow,     \* what is run, and
  environment,  \* what may go wrong; neither ever changes
  status,    \* of the run; "absent" before it is saved, "deleted" after a failed start
  node,      \* node[n] : the entry of nodeStates
  defined,   \* the workflow document still exists
  slots,     \* the leases of the owner that have not expired: this run's, and how many others
  queue,     \* the jobs waiting in workflow-node
  task,      \* task[j] : the child task of node and attempt j
  handler,   \* handler[h] : a call in progress
  stalls,    \* jobs taken back so far
  added,     \* history: how often a job was added
  wasCancelled  \* history: a cancellation has succeeded

fixed == <<workflow, environment>>
runVars == <<fixed, status, node, defined, slots, queue, task, handler, stalls, added, wasCancelled>>

Ended == {"succeeded", "failed", "skipped", "cancelled"}

NodeState == [status : {"pending", "running"} \cup Ended,
              attempt : Attempts, out : Branches \cup {None}, task : BOOLEAN]

Views == [Nodes -> NodeState]

Idle == [pc |-> "idle", job |-> None, view |-> None, todo |-> {}, room |-> 0, rest |-> None]

(* mine: "free" before this run is admitted and once its lease is given    *)
(* back, "without" when it was admitted and holds no lease, because that   *)
(* has expired or because nobody limits the caller.                        *)
Slots == [mine : {"free", "held", "without"}, others : 0..MaxConcurrentRuns]

WorkflowType ==
  /\ status \in {"absent", "deleted", "running", "succeeded", "failed", "cancelled"}
  /\ node \in Views
  /\ defined \in BOOLEAN
  /\ slots \in Slots
  /\ queue \subseteq Jobs
  /\ task \in [Jobs -> {"none", "open", "asked", "succeeded", "failed"}]
  /\ stalls \in 0..MaxStalls
  /\ added \in [Jobs -> Nat]
  /\ wasCancelled \in BOOLEAN

-----------------------------------------------------------------------------
(* The graph *)

(* resolveTargetNodeIds: the requested nodes and everything upstream *)
UpstreamClosed(S) == \A e \in workflow.edges : e.to \in S => e.from \in S

Targets ==
  IF workflow.requested = {} THEN Nodes
  ELSE {n \in Nodes : \A S \in SUBSET Nodes :
          workflow.requested \subseteq S /\ UpstreamClosed(S) => n \in S}

Incoming(view, n) ==
  {e \in workflow.edges : e.to = n /\ view[e.from].status # "skipped"}

ActiveIncoming(view, n) ==
  {e \in Incoming(view, n) : e.branch = None \/ view[e.from].out = e.branch}

(* The two reasons scheduleReadyNodes skips a node *)
InactiveBranch(view, n) ==
  /\ Incoming(view, n) # {} /\ ActiveIncoming(view, n) = {}
  /\ \A e \in Incoming(view, n) : view[e.from].status \in Ended

FailedDependency(view, n) ==
  \E e \in ActiveIncoming(view, n) : view[e.from].status \in {"failed", "cancelled"}

ToSkip(view) ==
  {n \in Nodes : view[n].status = "pending"
                 /\ (InactiveBranch(view, n) \/ FailedDependency(view, n))}

Ready(view, n) ==
  \A e \in ActiveIncoming(view, n) : view[e.from].status = "succeeded"

ReadyNodes(view) == {n \in Nodes : view[n].status = "pending" /\ Ready(view, n)}

RunningIn(view) == {n \in Nodes : view[n].status = "running"}

AllIn(view, S) == \A n \in Nodes : view[n].status \in S

-----------------------------------------------------------------------------
(* Steps of the procedures, for a handler h *)

At(h, pc) == handler[h].pc = pc

Goto(h, pc) == handler' = [handler EXCEPT ![h].pc = pc]

Done(h) == handler' = [handler EXCEPT ![h] = Idle]

JobOf(h) == handler[h].job
NodeOf(h) == handler[h].job[1]

(* A call returns: to the loop of enqueueNode it was made from, or ends *)
Return(h) ==
  LET loop == handler[h].rest
  IN handler' = [handler EXCEPT ![h] =
       IF loop = None THEN Idle
       ELSE [Idle EXCEPT !.pc = "enqueue", !.view = loop.view, !.todo = loop.todo,
                         !.room = loop.room]]

Set(n, s) == node' = [node EXCEPT ![n].status = s]

(* updateOne with filter {status: running, nodeStates: {nodeId, status: s}} *)
Claims(n, s) == status = "running" /\ node[n].status = s

StatsOnly == UNCHANGED <<fixed, status, node, defined, slots, queue, task, stalls, added, wasCancelled>>

(* Mutant of AfterSkips: a run is only finished when none of its nodes failed *)
AfterSkipsHoping(h, view) ==
  IF AllIn(view, {"succeeded", "skipped"})
  THEN [handler[h] EXCEPT !.pc = "finalize", !.view = view, !.todo = {}]
  ELSE [handler[h] EXCEPT !.pc = "enqueue", !.view = view,
          !.todo = ReadyNodes(view),
          !.room = workflow.maxParallelism - Cardinality(RunningIn(view))]

(* scheduleReadyNodes reads the run; what to do follows from the copy *)
AfterSkips(h, view) ==
  IF AllIn(view, Ended)
  THEN [handler[h] EXCEPT !.pc = "finalize", !.view = view, !.todo = {}]
  ELSE [handler[h] EXCEPT !.pc = "enqueue", !.view = view,
          !.todo = ReadyNodes(view),
          !.room = workflow.maxParallelism - Cardinality(RunningIn(view))]

ReadToSchedule(h) ==
  /\ At(h, "schedule")
  /\ IF status # "running" THEN Return(h)
     ELSE handler' = [handler EXCEPT ![h] =
            IF ToSkip(node) # {}
            THEN [@ EXCEPT !.pc = "skip", !.view = node, !.todo = ToSkip(node), !.room = 0]
            ELSE AfterSkips(h, node)]
  /\ StatsOnly

(* room counts the skips that took effect; any of them makes it read again *)
SkipOne(h) ==
  /\ At(h, "skip")
  /\ \E n \in handler[h].todo :
       /\ IF Claims(n, "pending") THEN Set(n, "skipped") ELSE UNCHANGED node
       /\ LET skipped == handler[h].room + (IF Claims(n, "pending") THEN 1 ELSE 0)
              left == handler[h].todo \ {n}
          IN handler' = [handler EXCEPT ![h] =
               IF left # {} THEN [@ EXCEPT !.todo = left, !.room = skipped]
               ELSE IF skipped > 0 THEN [@ EXCEPT !.pc = "schedule", !.todo = {}, !.view = None]
               ELSE AfterSkips(h, handler[h].view)]
  /\ UNCHANGED <<fixed, status, defined, slots, queue, task, stalls, added, wasCancelled>>

(* The filter {nodeStates: {$not: {$elemMatch: {status: {$nin: S}}}}} *)
NodesSettled(S) == AllIn(node, S)

Finalize(h) ==
  /\ At(h, "finalize")
  /\ IF status = "running" /\ NodesSettled(Ended)
     THEN /\ status' = IF \E n \in Nodes : handler[h].view[n].status = "failed"
                       THEN "failed" ELSE "succeeded"
          /\ Goto(h, "release")
     ELSE UNCHANGED status /\ Return(h)
  /\ UNCHANGED <<fixed, node, defined, slots, queue, task, stalls, added, wasCancelled>>

ReleaseRun(h) ==
  /\ At(h, "release")
  /\ slots' = [slots EXCEPT !.mine = "free"]
  /\ Return(h)
  /\ UNCHANGED <<fixed, status, node, defined, queue, task, stalls, added, wasCancelled>>

(* Mutant of Claimable: a node that is running may be claimed again *)
ClaimableAgain(n) == status = "running" /\ node[n].status \in {"pending", "running"}

(* The filter of enqueueNode *)
Claimable(n) == Claims(n, "pending")

(* enqueueNode, up to the call of queue.add; it takes the attempt from the copy *)
EnqueueNext(h) ==
  /\ At(h, "enqueue")
  /\ IF handler[h].room <= 0 \/ handler[h].todo = {}
     THEN Return(h) /\ UNCHANGED node
     ELSE \E n \in handler[h].todo :
            IF Claimable(n)
            THEN /\ Set(n, "running")
                 /\ handler' = [handler EXCEPT ![h].pc = "add", ![h].todo = @ \ {n},
                                  ![h].job = <<n, handler[h].view[n].attempt>>]
            ELSE /\ UNCHANGED node
                 /\ handler' = [handler EXCEPT ![h].todo = @ \ {n}]
  /\ UNCHANGED <<fixed, status, defined, slots, queue, task, stalls, added, wasCancelled>>

AddJob(h) ==
  /\ At(h, "add")
  /\ queue' = queue \cup {JobOf(h)}
  /\ added' = [added EXCEPT ![JobOf(h)] = @ + 1]
  /\ handler' = [handler EXCEPT ![h].pc = "enqueue", ![h].room = @ - 1]
  /\ UNCHANGED <<fixed, status, node, defined, slots, task, stalls, wasCancelled>>

(* queue.add throws: the node fails, then the loop goes on.  Bound: not    *)
(* again while the failure of an earlier add is being handled.             *)
AddThrows(h) ==
  /\ "queueError" \in environment
  /\ At(h, "add") /\ handler[h].rest = None
  /\ handler' = [handler EXCEPT ![h].pc = "fail",
       ![h].rest = [todo |-> handler[h].todo, room |-> handler[h].room,
                    view |-> handler[h].view]]
  /\ StatsOnly

-----------------------------------------------------------------------------
(* onNodeComplete *)

ClaimComplete(h) ==
  /\ At(h, "complete")
  /\ IF Claims(NodeOf(h), "running")
     THEN /\ \E b \in IF NodeOf(h) \in workflow.conditions THEN Branches ELSE {None} :
               node' = [node EXCEPT ![NodeOf(h)].status = "succeeded",
                                    ![NodeOf(h)].out = b]
          /\ Goto(h, "afterComplete")
     ELSE UNCHANGED node /\ Return(h)
  /\ UNCHANGED <<fixed, status, defined, slots, queue, task, stalls, added, wasCancelled>>

AfterComplete(h) ==
  /\ At(h, "afterComplete")
  /\ IF status = "deleted" THEN Return(h)
     ELSE Goto(h, IF AllIn(node, {"succeeded", "skipped"}) THEN "succeed" ELSE "next")
  /\ StatsOnly

(* Mutant of SucceedRun: the filter asks for the nodes, not for the run *)
SucceedRunUnfiltered(h) ==
  /\ At(h, "succeed")
  /\ IF status # "deleted" /\ NodesSettled({"succeeded", "skipped"})
     THEN status' = "succeeded" /\ Goto(h, "release")
     ELSE UNCHANGED status /\ Goto(h, "next")
  /\ UNCHANGED <<fixed, node, defined, slots, queue, task, stalls, added, wasCancelled>>

SucceedRun(h) ==
  /\ At(h, "succeed")
  /\ IF status = "running" /\ NodesSettled({"succeeded", "skipped"})
     THEN status' = "succeeded" /\ Goto(h, "release")
     ELSE UNCHANGED status /\ Goto(h, "next")
  /\ UNCHANGED <<fixed, node, defined, slots, queue, task, stalls, added, wasCancelled>>

(* The workflow is read again before its next nodes are scheduled *)
ScheduleNext(h) ==
  /\ At(h, "next")
  /\ IF defined THEN Goto(h, "schedule") ELSE Return(h)
  /\ StatsOnly

(* onNodeFailed *)
ClaimFailed(h) ==
  /\ At(h, "fail")
  /\ IF Claims(NodeOf(h), "running")
     THEN /\ Set(NodeOf(h), "failed")
          /\ Goto(h, "afterFail")
     ELSE UNCHANGED node /\ Return(h)
  /\ UNCHANGED <<fixed, status, defined, slots, queue, task, stalls, added, wasCancelled>>

AfterFail(h) ==
  /\ At(h, "afterFail")
  /\ IF status = "deleted" THEN Return(h)
     ELSE Goto(h, IF workflow.failFast \/ ~defined THEN "failRun" ELSE "schedule")
  /\ StatsOnly

(* Mutant of FailRun: the lease is left to expire *)
FailRunKeeping(h) ==
  /\ At(h, "failRun")
  /\ status' = IF status = "running" THEN "failed" ELSE status
  /\ Return(h)
  /\ UNCHANGED <<fixed, node, defined, slots, queue, task, stalls, added, wasCancelled>>

FailRun(h) ==
  /\ At(h, "failRun")
  /\ IF status = "running"
     THEN status' = "failed" /\ Goto(h, "release")
     ELSE /\ UNCHANGED status
          /\ Return(h)
  /\ UNCHANGED <<fixed, node, defined, slots, queue, task, stalls, added, wasCancelled>>

-----------------------------------------------------------------------------
(* run *)

(* Mutant of HasRoom: count > limit instead of count >= limit *)
HasRoomOffByOne ==
  (IF slots.mine = "held" THEN 1 ELSE 0) + slots.others <= MaxConcurrentRuns

(* The Lua script of acquireRun: removes what has expired, counts, then    *)
(* adds, in one step                                                       *)
HasRoom == (IF slots.mine = "held" THEN 1 ELSE 0) + slots.others < MaxConcurrentRuns

(* acquireRun lets the run go on *)
Admitted ==
  \/ HasRoom /\ slots' = [slots EXCEPT !.mine = "held"]
  \/ /\ "noUser" \in environment
     /\ slots' = [slots EXCEPT !.mine = IF @ = "held" THEN @ ELSE "without"]

AcquireToStart ==
  /\ At(Starter, "start")
  /\ Admitted
  /\ Goto(Starter, "save")
  /\ UNCHANGED <<fixed, status, node, defined, queue, task, stalls, added, wasCancelled>>

SaveRun ==
  /\ At(Starter, "save")
  /\ status' = "running"
  /\ Goto(Starter, "schedule")
  /\ UNCHANGED <<fixed, node, defined, slots, queue, task, stalls, added, wasCancelled>>

(* Saving the run or scheduling its nodes throws: run deletes it, and       *)
(* releases the lease; jobs already queued are left                         *)
StartThrows ==
  /\ "startError" \in environment
  /\ handler[Starter].pc \in {"save", "schedule", "enqueue"}
  /\ status' = "deleted"
  /\ handler' = [handler EXCEPT ![Starter] = [Idle EXCEPT !.pc = "release"]]
  /\ UNCHANGED <<fixed, node, defined, slots, queue, task, stalls, added, wasCancelled>>

-----------------------------------------------------------------------------
(* cancel *)

CancelRun ==
  /\ "cancel" \in environment
  /\ At(Canceller, "idle") /\ status = "running"
  /\ status' = "cancelled"
  /\ node' = [n \in Nodes |-> [node[n] EXCEPT !.status =
               IF @ \in {"pending", "running"} THEN "cancelled" ELSE @]]
  /\ handler' = [handler EXCEPT ![Canceller] =
       [Idle EXCEPT !.pc = "removeJobs", !.view = node']]
  /\ wasCancelled' = TRUE
  /\ UNCHANGED <<fixed, defined, slots, queue, task, stalls, added>>

(* job.remove throws for a job that is being executed, and the throw is ignored *)
RemoveJobs ==
  /\ At(Canceller, "removeJobs")
  /\ queue' = {}
  /\ Goto(Canceller, "cancelTasks")
  /\ UNCHANGED <<fixed, status, node, defined, slots, task, stalls, added, wasCancelled>>

(* cancelTask ends a task that is still pending and refuses any other *)
AskToCancel(j) == [task EXCEPT ![j] = IF @ = "open" THEN "asked" ELSE @]

(* the tasks recorded in the copy the cancellation returned *)
CancelTasks ==
  /\ At(Canceller, "cancelTasks")
  /\ task' = [j \in Jobs |->
       IF handler[Canceller].view[j[1]].task
          /\ handler[Canceller].view[j[1]].attempt = j[2] /\ task[j] = "open"
       THEN "asked" ELSE task[j]]
  /\ Goto(Canceller, "release")
  /\ UNCHANGED <<fixed, status, node, defined, slots, queue, stalls, added, wasCancelled>>

-----------------------------------------------------------------------------
(* retry *)

FindFailed(r) ==
  /\ "retry" \in environment
  /\ At(r, "idle") /\ status = "failed" /\ defined
  /\ \E n \in Nodes : node[n].status = "failed"
  /\ \A n \in Nodes : node[n].attempt < MaxAttempt
  /\ handler' = [handler EXCEPT ![r].pc = "acquire", ![r].view = node]
  /\ StatsOnly

AcquireToRetry(r) ==
  /\ At(r, "acquire")
  /\ \/ Admitted /\ Goto(r, "claim")
     \/ ~HasRoom /\ UNCHANGED slots /\ Goto(r, "spent")
  /\ UNCHANGED <<fixed, status, node, defined, queue, task, stalls, added, wasCancelled>>

ClaimRetry(r) ==
  /\ At(r, "claim")
  /\ IF status = "failed"
     THEN status' = "running" /\ Goto(r, "saveRetry")
     ELSE UNCHANGED status /\ Goto(r, "release")
  /\ UNCHANGED <<fixed, node, defined, slots, queue, task, stalls, added, wasCancelled>>

(* Mutant of RetrySaves: what the code means to write into nodeStates *)
RetryWrites(view) ==
  [n \in Nodes |->
    IF view[n].status = "failed"
    THEN [status |-> "pending", attempt |-> view[n].attempt + 1, out |-> None, task |-> FALSE]
    ELSE node[n]]

(* run.save() writes the paths Mongoose saw changing.  nodeStates is an    *)
(* array of Mixed: the assignments to its elements are not seen, and what  *)
(* is saved is the status, the error, completedAt and the statistics.      *)
RetrySaves(view) == node

SaveRetry(r) ==
  /\ At(r, "saveRetry")
  /\ status' = "running"
  /\ node' = RetrySaves(handler[r].view)
  /\ Goto(r, "schedule")
  /\ UNCHANGED <<fixed, defined, slots, queue, task, stalls, added, wasCancelled>>

(* Saving or scheduling throws: the run is failed unless it has ended *)
RetryThrows(r) ==
  /\ "startError" \in environment
  /\ handler[r].pc \in {"saveRetry", "schedule", "enqueue"}
  /\ status' = IF status = "running" THEN "failed" ELSE status
  /\ handler' = [handler EXCEPT ![r] = [Idle EXCEPT !.pc = "release"]]
  /\ UNCHANGED <<fixed, node, defined, slots, queue, task, stalls, added, wasCancelled>>

-----------------------------------------------------------------------------
(* NodeExecutor.execute *)

TakeJob(x) ==
  /\ At(x, "idle")
  /\ \E j \in queue :
       /\ queue' = queue \ {j}
       /\ handler' = [handler EXCEPT ![x].job = j,
            ![x].pc = IF j[1] \in workflow.models THEN "createTask" ELSE "evaluate"]
  /\ UNCHANGED <<fixed, status, node, defined, slots, task, stalls, added, wasCancelled>>

(* Conditions, loops and transforms are computed on the spot, or throw *)
Evaluate(x) ==
  /\ At(x, "evaluate")
  /\ \E pc \in {"complete", "fail"} : Goto(x, pc)
  /\ StatsOnly

(* createTask is idempotent by run, node and attempt; it may be refused *)
CreateTask(x) ==
  /\ At(x, "createTask")
  /\ \/ /\ task' = [task EXCEPT ![JobOf(x)] = IF @ = "none" THEN "open" ELSE @]
        /\ Goto(x, "taskCreated")
     \/ UNCHANGED task /\ Goto(x, "fail")
  /\ UNCHANGED <<fixed, status, node, defined, slots, queue, stalls, added, wasCancelled>>

(* Mutant of OnTaskCreated: a task that could not be recorded is left alone *)
OnTaskCreatedIgnoring(x) ==
  /\ At(x, "taskCreated")
  /\ node' = [node EXCEPT ![NodeOf(x)].task = @ \/ Claims(NodeOf(x), "running")]
  /\ Goto(x, "wait")
  /\ UNCHANGED <<fixed, status, defined, slots, queue, task, stalls, added, wasCancelled>>

OnTaskCreated(x) ==
  /\ At(x, "taskCreated")
  /\ IF Claims(NodeOf(x), "running")
     THEN node' = [node EXCEPT ![NodeOf(x)].task = TRUE] /\ Goto(x, "wait")
     ELSE UNCHANGED node /\ Goto(x, "compensate")
  /\ UNCHANGED <<fixed, status, defined, slots, queue, task, stalls, added, wasCancelled>>

(* onNodeTaskCreated could not record the task *)
Compensate(x) ==
  /\ At(x, "compensate")
  /\ task' = IF status = "cancelled" THEN AskToCancel(JobOf(x)) ELSE task
  /\ Goto(x, "wait")
  /\ UNCHANGED <<fixed, status, node, defined, slots, queue, stalls, added, wasCancelled>>

TaskEnds(j) ==
  /\ task[j] \in {"open", "asked"}
  /\ \E end \in {"succeeded", "failed"} : task' = [task EXCEPT ![j] = end]
  /\ UNCHANGED <<fixed, status, node, defined, slots, queue, handler, stalls, added, wasCancelled>>

(* The loop over getTask sees the end, or the deadline passes first *)
Await(x) ==
  /\ At(x, "wait")
  /\ \/ task[JobOf(x)] = "succeeded" /\ Goto(x, "complete")
     \/ Goto(x, "fail")
  /\ StatsOnly

-----------------------------------------------------------------------------
(* Environment *)

(* Bull takes a job for stalled and hands it out again while it runs on *)
Stall(x) ==
  /\ "stall" \in environment /\ stalls < MaxStalls
  /\ handler[x].pc \in {"evaluate", "createTask", "taskCreated", "wait", "complete"}
  /\ stalls' = stalls + 1
  /\ queue' = queue \cup {JobOf(x)}
  /\ UNCHANGED <<fixed, status, node, defined, slots, task, handler, added, wasCancelled>>

DeleteWorkflow ==
  /\ "delete" \in environment /\ defined
  /\ defined' = FALSE
  /\ UNCHANGED <<fixed, status, node, slots, queue, task, handler, stalls, added, wasCancelled>>

(* The lease was taken for one executionTimeout, and every job of the run  *)
(* has as long for itself: a run that waits or has several nodes may go on *)
(* when its lease no longer counts.                                        *)
LeaseExpires ==
  /\ "slow" \in environment /\ slots.mine = "held"
  /\ slots' = [slots EXCEPT !.mine = "without"]
  /\ UNCHANGED <<fixed, status, node, defined, queue, task, handler, stalls, added, wasCancelled>>

(* Other runs are admitted; their leases are given back or expire *)
OtherRuns ==
  /\ "otherRuns" \in environment
  /\ \/ HasRoom /\ slots' = [slots EXCEPT !.others = @ + 1]
     \/ slots.others > 0 /\ slots' = [slots EXCEPT !.others = @ - 1]
  /\ UNCHANGED <<fixed, status, node, defined, queue, task, handler, stalls, added, wasCancelled>>

-----------------------------------------------------------------------------
WorkflowInit ==
  /\ \E s \in Scenarios : workflow = s.workflow /\ environment = s.environment
  /\ status = "absent"
  /\ node = [n \in Nodes |-> [status |-> IF n \in Targets THEN "pending" ELSE "skipped",
                              attempt |-> 0, out |-> None, task |-> FALSE]]
  /\ defined = TRUE
  /\ slots = [mine |-> "free", others |-> 0]
  /\ queue = {}
  /\ task = [j \in Jobs |-> "none"]
  /\ handler = [h \in Handlers |-> [Idle EXCEPT !.pc = IF h = Starter THEN "start" ELSE "idle"]]
  /\ stalls = 0
  /\ added = [j \in Jobs |-> 0]
  /\ wasCancelled = FALSE

(* What a handler does once it has begun *)
Proceeds(h) ==
  \/ ReadToSchedule(h) \/ SkipOne(h) \/ Finalize(h) \/ ReleaseRun(h)
  \/ EnqueueNext(h) \/ AddJob(h)
  \/ ClaimComplete(h) \/ AfterComplete(h) \/ SucceedRun(h) \/ ScheduleNext(h)
  \/ ClaimFailed(h) \/ AfterFail(h) \/ FailRun(h)

Executes(x) ==
  TakeJob(x) \/ Evaluate(x) \/ CreateTask(x) \/ OnTaskCreated(x) \/ Compensate(x) \/ Await(x)

Cancels == CancelRun \/ RemoveJobs \/ CancelTasks

Retries(r) ==
  FindFailed(r) \/ AcquireToRetry(r) \/ ClaimRetry(r) \/ SaveRetry(r) \/ RetryThrows(r)

WorkflowNext ==
  \/ AcquireToStart \/ SaveRun \/ StartThrows
  \/ \E h \in Handlers : Proceeds(h) \/ AddThrows(h)
  \/ \E x \in Executors : Executes(x) \/ Stall(x)
  \/ \E r \in Retriers : Retries(r)
  \/ Cancels
  \/ \E j \in Jobs : TaskEnds(j)
  \/ DeleteWorkflow \/ OtherRuns \/ LeaseExpires

WorkflowSpec == WorkflowInit /\ [][WorkflowNext]_runVars

(* Handlers that were started run on, executors take the jobs that wait.   *)
(* Nothing is assumed of the child tasks: an executor has a deadline.      *)
WorkflowFair ==
  /\ WorkflowSpec
  /\ WF_runVars(SaveRun)
  /\ \A h \in Handlers : WF_runVars(Proceeds(h))
  /\ \A x \in Executors : WF_runVars(Executes(x))

-----------------------------------------------------------------------------
(* The order of nodes: what a succeeded or a cancelled run means.          *)

(* workflow-execution.service.ts: nodes of one level finish at once, and   *)
(* several handlers count the nodes, skip some and finish the run on       *)
(* copies of different age; still a run is only reported succeeded with    *)
(* every node succeeded or skipped, none failed, none under way.           *)
SucceededIsComplete ==
  status = "succeeded" => AllIn(node, {"succeeded", "skipped"})

(* docs/workflow-and-portal.md 7.18: a run that was cancelled never        *)
(* becomes succeeded, although a retry that had claimed the run just       *)
(* before sets it to running again.                                        *)
CancelledNeverSucceeds == wasCancelled => status # "succeeded"

(* The claims of enqueueNode: however many handlers schedule at once, no   *)
(* attempt of a node is put into the queue twice.                          *)
EnqueuedOnce == \A j \in Jobs : added[j] <= 1

(* cancel and onNodeTaskCreated together: once a cancellation is through,  *)
(* every child task was asked to stop, or is about to be, by the executor  *)
(* that created it.  (Not so after a retry, for a run that had failed did  *)
(* not record the tasks created meanwhile, nor when a job was handed out   *)
(* twice, for one executor may fail the node before the other records it.) *)
CancelReachesTasks ==
  status = "cancelled" /\ At(Canceller, "idle") /\ environment \cap {"retry", "stall"} = {} =>
    \A j \in Jobs : task[j] = "open" =>
      \E x \in Executors : /\ JobOf(x) = j
                           /\ handler[x].pc \in {"createTask", "taskCreated", "compensate"}

(* acquireRun and releaseRun: between calls a lease is held only by a run  *)
(* that is running, so that an ended run takes nobody's room; and a run    *)
(* that is running was admitted and nobody has given its lease back, by a  *)
(* release that came late or twice.  It may still have none: its lease may *)
(* expire under it.  (Not so after a retry: a late release of the handler  *)
(* that failed the run takes the lease the retry has acquired.)            *)
Calm == \A h \in Handlers : handler[h].pc \in {"idle", "start", "spent", "wait"}

LeaseMatchesRun == Calm /\ "retry" \notin environment =>
  (slots.mine # "free" <=> status = "running")

(* Every run ends: no two handlers that finish nodes at the same time each *)
(* leave the next step to the other.                                       *)
RunEnds ==
  environment \cap {"retry", "delete"} = {} => (status = "running" ~> status # "running")
=============================================================================
