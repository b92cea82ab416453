--------------------------- MODULE WorkflowQuota ---------------------------
(***************************************************************************)
(* How many workflows a portal user may own.  The number is kept on the    *)
(* user, apart from the workflows: creating one counts them, raises the    *)
(* number to that count, claims the next one and only then saves;          *)
(* deleting one deletes first and lowers the number afterwards.            *)
(***************************************************************************)
EXTENDS Integers, FiniteSets

CONSTANTS
  Editors,    \* requests of the user that are handled at the same time
  Workflows,  \* workflows the user may come to own
  MaxCount    \* of the user's role

ASSUME QuotaAssumption ==
  IsFiniteSet(Editors) /\ IsFiniteSet(Workflows) /\ MaxCount \in Nat

VARIABLES
  owned,          \* the workflows in the database
  workflowCount,  \* of the user
  request,        \* request[e] : where the handler of e is
  behind          \* the user had workflows before workflowCount was kept

quotaVars == <<owned, workflowCount, request, behind>>

NoRequest == [pc |-> "idle", existing |-> 0]

QuotaType ==
  /\ owned \subseteq Workflows
  /\ workflowCount \in Nat
  /\ request \in [Editors -> [pc : {"idle", "repair", "claim", "save", "release"},
                              existing : Nat]]
  /\ behind \in BOOLEAN

Goes(e, pc) == request' = [request EXCEPT ![e].pc = pc]

Ends(e) == request' = [request EXCEPT ![e] = NoRequest]

-----------------------------------------------------------------------------
(* assertCanCreate *)
CountExisting(e) ==
  /\ request[e].pc = "idle"
  /\ request' = [request EXCEPT ![e] = [pc |-> "repair", existing |-> Cardinality(owned)]]
  /\ UNCHANGED <<owned, workflowCount, behind>>

(* The number may be too low for the workflows there are, never too high *)
Repair(e) ==
  /\ request[e].pc = "repair"
  /\ workflowCount' = IF request[e].existing > workflowCount
                      THEN request[e].existing ELSE workflowCount
  /\ Goes(e, "claim")
  /\ UNCHANGED <<owned, behind>>

(* Mutant of MayClaim: <= instead of < *)
MayClaimOneMore == workflowCount <= MaxCount

MayClaim == workflowCount < MaxCount

Claim(e) ==
  /\ request[e].pc = "claim"
  /\ \/ MayClaim /\ workflowCount' = workflowCount + 1 /\ Goes(e, "save")
     \/ ~MayClaim /\ UNCHANGED workflowCount /\ Ends(e)
  /\ UNCHANGED <<owned, behind>>

-----------------------------------------------------------------------------
(* WorkflowService.create after the claim; a workflow that cannot be saved *)
(* gives its number back                                                   *)
Save(e) ==
  /\ request[e].pc = "save"
  /\ \E w \in Workflows \ owned : owned' = owned \cup {w}
  /\ Ends(e)
  /\ UNCHANGED <<workflowCount, behind>>

SaveFails(e) ==
  /\ request[e].pc = "save"
  /\ Goes(e, "release")
  /\ UNCHANGED <<owned, workflowCount, behind>>

(* WorkflowService.delete *)
Delete(e) ==
  /\ request[e].pc = "idle"
  /\ \E w \in owned : owned' = owned \ {w}
  /\ Goes(e, "release")
  /\ UNCHANGED <<workflowCount, behind>>

(* releaseWorkflowSlot *)
Release(e) ==
  /\ request[e].pc = "release"
  /\ workflowCount' = IF workflowCount > 0 THEN workflowCount - 1 ELSE 0
  /\ Ends(e)
  /\ UNCHANGED <<owned, behind>>

(* The process dies, or an operation between two steps fails *)
BreakOff(e) ==
  /\ request[e].pc # "idle"
  /\ Ends(e)
  /\ UNCHANGED <<owned, workflowCount, behind>>

-----------------------------------------------------------------------------
QuotaInit ==
  /\ request = [e \in Editors |-> NoRequest]
  /\ workflowCount = 0
  /\ \/ owned = {} /\ behind = FALSE
     \/ owned \in (SUBSET Workflows) \ {{}} /\ behind = TRUE

QuotaNext ==
  \E e \in Editors :
    \/ CountExisting(e) \/ Repair(e) \/ Claim(e) \/ Save(e) \/ SaveFails(e)
    \/ Delete(e) \/ Release(e) \/ BreakOff(e)

QuotaSpec == QuotaInit /\ [][QuotaNext]_quotaVars

-----------------------------------------------------------------------------
(* docs/workflow-and-portal.md, "atomic workflow quota counter": however   *)
(* many requests create and delete at once, and wherever they break off, a *)
(* user never owns more workflows than the role allows.  Of a user whose   *)
(* number was behind at the start it does not hold: a release between the  *)
(* count and the claim of another request hides a workflow.                *)
QuotaHolds == ~behind => Cardinality(owned) <= MaxCount

(* Claims whose workflow is not saved yet and numbers not given back yet *)
Outstanding == {e \in Editors : request[e].pc \in {"save", "release"}}

(* Why: each of them is still in the number *)
QuotaInv ==
  ~behind =>
    /\ workflowCount <= MaxCount
    /\ Cardinality(owned) + Cardinality(Outstanding) <= workflowCount
    /\ \A e \in Editors : request[e].existing <= MaxCount
=============================================================================
