-------------------------- MODULE WorkflowClaims --------------------------
(***************************************************************************)
(* What docs/workflow-and-portal.md says of a run and the code does not    *)
(* do.  Each is checked by a run of its own that finds the violation.      *)
(***************************************************************************)
EXTENDS MCWorkflow

(* Line 573: a condition chooses one branch.  So a node that is reached    *)
(* only by branches runs when the condition has chosen one of them.  But   *)
(* scheduleReadyNodes keeps the edges whose branch has been chosen, and    *)
(* asks whether the sources of those have succeeded: before the condition  *)
(* has run no edge is kept, there is nothing to wait for, and the node of  *)
(* the branch runs at once.                                                *)
BranchChosen ==
  \A n \in Nodes :
    LET to == {e \in workflow.edges : e.to = n}
    IN /\ to # {} /\ \A e \in to : e.branch # None
       /\ node[n].status = "running"
       => \E e \in to : node[e.from].out = e.branch

(* Line 588: a retry increments the attempt of the failed nodes, and line  *)
(* 858: it produces a new attempt and a real job.  retry changes elements  *)
(* of an array whose changes are not saved.                                *)
RetryMakesAttempt ==
  [][\A r \in Retriers : SaveRetry(r) =>
       \E n \in Nodes : node'[n].attempt = node[n].attempt + 1]_runVars
===========================================================================
