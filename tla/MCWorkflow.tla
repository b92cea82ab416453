---------------------------- MODULE MCWorkflow ----------------------------
(***************************************************************************)
(* Instances of WorkflowRun for TLC: small graphs that hold a branch, a    *)
(* join, a fan-out and a partial run, and what may go wrong in each run.   *)
(***************************************************************************)
EXTENDS WorkflowRun, FiniteSetsExt

CONSTANTS n1, n2, n3, yes, no

Plain(a, b) == [from |-> a, to |-> b, branch |-> None]
Branch(a, b, br) == [from |-> a, to |-> b, branch |-> br]

(* n2 is the branch "yes" of n1, n3 follows it *)
Choice ==
  [edges |-> {Branch(n1, n2, yes), Plain(n2, n3)},
   conditions |-> {n1}, models |-> {}, requested |-> {},
   failFast |-> FALSE, maxParallelism |-> 1]

(* n1 and n2 at once, n3 after both *)
Join(failFast) ==
  [edges |-> {Plain(n1, n3), Plain(n2, n3)},
   conditions |-> {}, models |-> {n2}, requested |-> {},
   failFast |-> failFast, maxParallelism |-> 2]

(* only n2 and what it needs *)
Part ==
  [edges |-> {Plain(n1, n2), Plain(n2, n3)},
   conditions |-> {}, models |-> {n1}, requested |-> {n2},
   failFast |-> TRUE, maxParallelism |-> 1]

Given(w, env) == [workflow |-> w, environment |-> env]

MCScenarios ==
  { Given(Choice, {"queueError", "noUser"}), Given(Choice, {"cancel", "slow", "otherRuns"}),
    Given(Join(TRUE), {"retry", "slow"}), Given(Join(TRUE), {"startError", "otherRuns"}),
    Given(Join(FALSE), {"cancel"}), Given(Join(FALSE), {"queueError"}),
    Given(Part, {"cancel", "retry", "delete", "startError"}), Given(Part, {"cancel", "stall"}) }
===========================================================================
