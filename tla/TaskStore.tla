------------------------------ MODULE TaskStore -----------------------------
(***************************************************************************)
(* The tasks collection behind TaskRepository, and the provider's side of  *)
(* each task.  A status is changed only by updateStatus, an atomic         *)
(* findOneAndUpdate filtered on the statuses it may leave: when none       *)
(* matches it changes nothing and returns null, which no caller but        *)
(* cancelTask looks at.                                                    *)
(***************************************************************************)
EXTENDS HubParams, FiniteSets

CONSTANT MaxPollCount   \* polling.maxPollCount, the same for every task

VARIABLES
  task,      \* task[t] : the document of t
  ahead,     \* ahead[t] : the tasks that were due when t became due, those
             \* with an earlier nextPollAt
  provider   \* provider[t] : what the provider knows of t (external)

storeVars == <<task, ahead, provider>>

Open == {"PENDING", "SUBMITTED", "PROCESSING"}
Terminal == {"SUCCESS", "FAILED", "TIMEOUT", "CANCELLED"}
TaskStatus == {"absent"} \cup Open \cup Terminal

(* polls: polling.pollCount; due: nextPollAt has passed;                    *)
(* overdue: more than maxDuration has passed since createdAt.               *)
TaskDoc == [status : TaskStatus, polls : Nat, due : BOOLEAN, overdue : BOOLEAN]

NoTask == [status |-> "absent", polls |-> 0, due |-> FALSE, overdue |-> FALSE]

ProviderStatus == {"none", "running", "succeeded", "failed"}

StoreType ==
  /\ task \in [Tasks -> TaskDoc]
  /\ ahead \in [Tasks -> SUBSET Tasks]
  /\ provider \in [Tasks -> ProviderStatus]

StoreInit ==
  /\ task = [t \in Tasks |-> NoTask]
  /\ ahead = [t \in Tasks |-> {}]
  /\ provider = [t \in Tasks |-> "none"]

(* Mutant of UpdateStatus: the filter on the old status is dropped *)
UpdateStatusAlways(t, from, to) ==
  /\ task' = [task EXCEPT ![t].status = to]
  /\ UNCHANGED ahead

UpdateStatus(t, from, to) ==
  /\ task' = [task EXCEPT ![t].status = IF @ \in from THEN to ELSE @]
  /\ UNCHANGED ahead

Pollable(t) == task[t].status \in {"SUBMITTED", "PROCESSING"} /\ task[t].due

(* The pollable tasks with an earlier nextPollAt than t *)
Before(t) == { u \in ahead[t] : Pollable(u) }

(* findPollableTasks: sorted by nextPollAt, no more than the batch size.   *)
(* It does not know which of them the poller will be able to ask for.      *)
FirstDue(batchSize) ==
  { t \in Tasks : Pollable(t) /\ Cardinality(Before(t)) < batchSize }

(* nextPollAt of t is moved into the future: behind all that are due *)
GoBehind(t) == ahead' = [u \in Tasks |-> IF u = t THEN {} ELSE ahead[u] \ {t}]

(* deferNextPoll and incrementPollCount do not look at the status *)
DeferNextPoll(t) == task' = [task EXCEPT ![t].due = FALSE] /\ GoBehind(t)

-----------------------------------------------------------------------------
(* Time, and the provider working on what it accepted *)

BecomesDue(t) ==
  /\ task[t].status \in {"SUBMITTED", "PROCESSING"}
  /\ ~task[t].due
  /\ task' = [task EXCEPT ![t].due = TRUE]
  /\ ahead' = [ahead EXCEPT ![t] = { u \in Tasks : Pollable(u) }]
  /\ UNCHANGED provider

BecomesOverdue(t) ==
  /\ task[t].status \in Open
  /\ ~task[t].overdue
  /\ task' = [task EXCEPT ![t].overdue = TRUE]
  /\ UNCHANGED <<ahead, provider>>

ProviderFinishes(t) ==
  /\ provider[t] = "running"
  /\ \E outcome \in {"succeeded", "failed"} :
       provider' = [provider EXCEPT ![t] = outcome]
  /\ UNCHANGED <<task, ahead>>
=============================================================================
