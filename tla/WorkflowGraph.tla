--------------------------- MODULE WorkflowGraph ---------------------------
(***************************************************************************)
(* ExecutionGraphResolver.validate: before a workflow may be run its graph *)
(* is searched for a cycle, depth first, and its nodes are ordered by      *)
(* levels (Kahn's algorithm).  The order in which the code walks its maps  *)
(* and lists is left open.                                                 *)
(***************************************************************************)
EXTENDS Integers, Sequences, FiniteSets

CONSTANTS Steps  \* the nodes of a workflow

ASSUME StepsAssumption == IsFiniteSet(Steps)

VARIABLES
  edges,    \* from a node to its dependents, without duplicates
  flawed,   \* a node or an edge is incomplete, duplicate or dangling
  color,    \* of detectCycle
  stack,    \* the calls of dfs, the nodes that are GRAY
  todo,     \* todo[n] : the dependents dfs(n) has not looked at
  closed,   \* history: closed[n] : how many nodes were BLACK when n became it
  cycle,    \* what detectCycle returns, <<>> for null
  levels,   \* of topologicalSort
  verdict

graphVars == <<edges, flawed, color, stack, todo, closed, cycle, levels, verdict>>

Colors == {"WHITE", "GRAY", "BLACK"}

GraphType ==
  /\ edges \subseteq Steps \X Steps
  /\ flawed \in BOOLEAN
  /\ color \in [Steps -> Colors]
  /\ stack \in Seq(Steps)
  /\ todo \in [Steps -> SUBSET Steps]
  /\ closed \in [Steps -> Nat]
  /\ cycle \in Seq(Steps)
  /\ levels \in Seq(SUBSET Steps)
  /\ verdict \in {"searching", "sorting", "valid", "invalid"}

Dependents(n) == {m \in Steps : <<n, m>> \in edges}
Dependencies(n) == {m \in Steps : <<m, n>> \in edges}

EntryNodes == {n \in Steps : Dependencies(n) = {}}

White == {n \in Steps : color[n] = "WHITE"}
Black == {n \in Steps : color[n] = "BLACK"}

Top == stack[Len(stack)]

-----------------------------------------------------------------------------
(* detectCycle *)

(* Mutant of Roots: a graph that is all cycle has no entry *)
RootsAtEntries == White \cap EntryNodes

(* The entries first, then what they do not lead to *)
Roots == IF White \cap EntryNodes # {} THEN White \cap EntryNodes ELSE White

SearchFrom ==
  /\ verdict = "searching" /\ stack = <<>>
  /\ \E n \in Roots :
       /\ color' = [color EXCEPT ![n] = "GRAY"]
       /\ stack' = <<n>>
       /\ todo' = [todo EXCEPT ![n] = Dependents(n)]
  /\ UNCHANGED <<edges, flawed, closed, cycle, levels, verdict>>

Descend ==
  /\ verdict = "searching" /\ stack # <<>>
  /\ \E m \in todo[Top] \cap White :
       /\ color' = [color EXCEPT ![m] = "GRAY"]
       /\ stack' = Append(stack, m)
       /\ todo' = [todo EXCEPT ![Top] = @ \ {m}, ![m] = Dependents(m)]
  /\ UNCHANGED <<edges, flawed, closed, cycle, levels, verdict>>

PassOver ==
  /\ verdict = "searching" /\ stack # <<>>
  /\ \E m \in todo[Top] \cap Black : todo' = [todo EXCEPT ![Top] = @ \ {m}]
  /\ UNCHANGED <<edges, flawed, color, stack, closed, cycle, levels, verdict>>

(* Mutant of PathBackTo: the walk over parents goes on to the root *)
PathBackToRoot(i) == Append(stack, stack[i])

(* From the i-th call to the last, and back.  The walk ends at a parent    *)
(* that is the i-th; of a node that depends on itself there is none, and   *)
(* the walk goes on to the root.                                           *)
PathBackTo(i) ==
  Append(SubSeq(stack, IF i = Len(stack) THEN 1 ELSE i, Len(stack)), stack[i])

FindCycle ==
  /\ verdict = "searching" /\ stack # <<>>
  /\ \E i \in 1..Len(stack) :
       /\ stack[i] \in todo[Top]
       /\ cycle' = PathBackTo(i)
  /\ verdict' = "invalid"
  /\ UNCHANGED <<edges, flawed, color, stack, todo, closed, levels>>

Leave ==
  /\ verdict = "searching" /\ stack # <<>> /\ todo[Top] = {}
  /\ color' = [color EXCEPT ![Top] = "BLACK"]
  /\ closed' = [closed EXCEPT ![Top] = Cardinality(Black)]
  /\ stack' = SubSeq(stack, 1, Len(stack) - 1)
  /\ UNCHANGED <<edges, flawed, todo, cycle, levels, verdict>>

(* topologicalSort begins with the entries *)
EndSearch ==
  /\ verdict = "searching" /\ stack = <<>> /\ Roots = {}
  /\ verdict' = "sorting"
  /\ levels' = IF EntryNodes = {} THEN <<>> ELSE <<EntryNodes>>
  /\ UNCHANGED <<edges, flawed, color, stack, todo, closed, cycle>>

-----------------------------------------------------------------------------
(* topologicalSort *)

Visited == UNION {levels[i] : i \in DOMAIN levels}

(* Mutant of NextLevel: a node follows the first of its dependencies *)
NextLevelEarly == {n \in Steps \ Visited : Dependencies(n) \cap Visited # {}}

(* The in-degree of n has come down to 0 *)
NextLevel == {n \in Steps \ Visited : Dependencies(n) \subseteq Visited}

SortLevel ==
  /\ verdict = "sorting"
  /\ IF NextLevel # {}
     THEN levels' = Append(levels, NextLevel) /\ UNCHANGED verdict
     ELSE UNCHANGED levels /\ verdict' = IF flawed THEN "invalid" ELSE "valid"
  /\ UNCHANGED <<edges, flawed, color, stack, todo, closed, cycle>>

-----------------------------------------------------------------------------
GraphStart ==
  /\ color = [n \in Steps |-> "WHITE"]
  /\ stack = <<>> /\ cycle = <<>> /\ levels = <<>>
  /\ todo = [n \in Steps |-> {}]
  /\ closed = [n \in Steps |-> 0]
  /\ verdict = "searching"

GraphInit ==
  /\ edges \in SUBSET (Steps \X Steps)
  /\ flawed \in BOOLEAN
  /\ GraphStart

GraphNext ==
  \/ SearchFrom \/ Descend \/ PassOver \/ FindCycle \/ Leave \/ EndSearch
  \/ SortLevel

GraphSpec == GraphInit /\ [][GraphNext]_graphVars

-----------------------------------------------------------------------------
(* Every non-empty set of nodes has one that depends on none of them *)
Acyclic ==
  \A S \in SUBSET Steps : S # {} => \E n \in S : Dependents(n) \cap S = {}

(* run() refuses what validate does not accept, and depth-first search     *)
(* from the entries, and then from what they do not lead to, overlooks no  *)
(* cycle: no workflow with a cycle is run.  That none is saved, as the     *)
(* acceptance criteria also have it, is not claimed: create and update do  *)
(* not call validate.                                                      *)
AcceptedIsAcyclic == verdict \in {"sorting", "valid"} => Acyclic

(* detectCycle reports a path along edges that comes back to where it      *)
(* started, or, for a node that depends on itself, ends in that node twice.*)
CycleIsReal ==
  cycle # <<>> =>
    /\ \A i \in 1..Len(cycle) - 1 : <<cycle[i], cycle[i + 1]>> \in edges
    /\ Len(cycle) > 1
    /\ cycle[Len(cycle)] \in {cycle[1], cycle[Len(cycle) - 1]}

(* topologicalSort: the execution order returned for a valid workflow has  *)
(* every node once, after all it depends on and as early as that allows.   *)
LevelsAreOrder ==
  verdict = "valid" =>
    /\ Visited = Steps
    /\ \A i, j \in DOMAIN levels : i # j => levels[i] \cap levels[j] = {}
    /\ \A i \in DOMAIN levels, n \in Steps : n \in levels[i] =>
         /\ \A m \in Dependencies(n) : \E j \in 1..i - 1 : m \in levels[j]
         /\ i > 1 => \E m \in Dependencies(n) : m \in levels[i - 1]
=============================================================================
