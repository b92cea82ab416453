---------------------- MODULE WorkflowDefinitionProofs ----------------------
(***************************************************************************)
(* Theorems about what an author puts into a workflow.                     *)
(*                                                                         *)
(* The graph: the search overlooks no cycle and reports none that is not   *)
(* there, in graphs of any size and whatever order the code walks in.      *)
(*                                                                         *)
(* Expressions: each visit to a method of the parser has less before it    *)
(* than the visit that makes it, so the equation of Read has a solution.   *)
(* Then, phrase by phrase: wherever a phrase stands, the method of its     *)
(* level and those below read it as what it means and stop where it ends,  *)
(* unless an operator follows that takes it as its left side.              *)
(***************************************************************************)
EXTENDS WorkflowGraph, SafeExpression, FiniteSetTheorems, SequenceTheorems,
  WellFoundedInduction, TLAPS

-----------------------------------------------------------------------------
(* The graph *)

(* The part of the types the search depends on *)
SearchType ==
  /\ edges \subseteq Steps \X Steps
  /\ color \in [Steps -> Colors]
  /\ stack \in Seq(Steps)
  /\ todo \in [Steps -> SUBSET Steps]
  /\ closed \in [Steps -> Nat]
  /\ verdict \in {"searching", "sorting", "valid", "invalid"}

(* The calls of dfs: one for each GRAY node, each made from the one before *)
StackIsGray ==
  /\ \A i \in 1..Len(stack) : color[stack[i]] = "GRAY"
  /\ \A n \in Steps : color[n] = "GRAY" => \E i \in 1..Len(stack) : n = stack[i]
  /\ \A i, j \in 1..Len(stack) : stack[i] = stack[j] => i = j

StackIsPath ==
  \A i \in 1..Len(stack) - 1 : <<stack[i], stack[i + 1]>> \in edges

TodoAreDependents == \A n \in Steps : todo[n] \subseteq Dependents(n)

(* What a call has looked at is BLACK, or is the call it is waiting for *)
LookedAt ==
  \A i \in 1..Len(stack) : \A m \in Dependents(stack[i]) \ todo[stack[i]] :
    color[m] = "BLACK" \/ (i < Len(stack) /\ m = stack[i + 1])

(* BLACK nodes were closed after everything they lead to *)
BlackIsClosed ==
  \A n \in Black :
    /\ closed[n] < Cardinality(Black)
    /\ \A m \in Dependents(n) : color[m] = "BLACK" /\ closed[m] < closed[n]

SearchedAll == verdict \in {"sorting", "valid"} => White = {} /\ stack = <<>>

SearchInv ==
  /\ SearchType /\ StackIsGray /\ StackIsPath /\ TodoAreDependents
  /\ LookedAt /\ BlackIsClosed /\ SearchedAll /\ CycleIsReal

-----------------------------------------------------------------------------
LEMMA GraphStarts == GraphInit => SearchInv
BY SMTT(30) DEF GraphInit, GraphStart, SearchInv, SearchType, StackIsGray, StackIsPath,
  TodoAreDependents, LookedAt, BlackIsClosed, SearchedAll, CycleIsReal, Colors, Black, Dependents

(* Stacks under the operations of the search *)
LEMMA Pushed ==
  ASSUME NEW s \in Seq(Steps), NEW m \in Steps
  PROVE  /\ Append(s, m) \in Seq(Steps)
         /\ Len(Append(s, m)) = Len(s) + 1
         /\ \A i \in 1..Len(s) : Append(s, m)[i] = s[i]
         /\ Append(s, m)[Len(s) + 1] = m
OBVIOUS

LEMMA Shortened ==
  ASSUME NEW s \in Seq(Steps), NEW k \in Nat, k <= Len(s)
  PROVE  /\ SubSeq(s, 1, k) \in Seq(Steps)
         /\ Len(SubSeq(s, 1, k)) = k
         /\ \A i \in 1..k : SubSeq(s, 1, k)[i] = s[i]
<1>1. k \in 0..Len(s) /\ \A i \in 1..k : s[i] \in Steps
  OBVIOUS
<1>2. SubSeq(s, 1, k) = [i \in 1..k |-> s[i]]
  BY <1>1, SMTT(30)
<1> DEFINE f == [i \in 1..k |-> s[i]]
<1>3. f \in [1..k -> Steps]
  BY <1>1
<1>4. f \in Seq(Steps) /\ Len(f) = k
  BY <1>3
<1> QED
  BY <1>2, <1>4

LEMMA Popped ==
  ASSUME NEW s \in Seq(Steps), s # <<>>
  PROVE  /\ SubSeq(s, 1, Len(s) - 1) \in Seq(Steps)
         /\ Len(SubSeq(s, 1, Len(s) - 1)) = Len(s) - 1
         /\ \A i \in 1..Len(s) - 1 : SubSeq(s, 1, Len(s) - 1)[i] = s[i]
         /\ Len(s) \in Nat \ {0} /\ s[Len(s)] \in Steps
<1>1. Len(s) \in Nat \ {0} /\ s[Len(s)] \in Steps
  OBVIOUS
<1>2. Len(s) - 1 \in Nat /\ Len(s) - 1 <= Len(s)
  BY <1>1
<1> QED
  BY <1>1, <1>2, Shortened, Zenon

LEMMA BlackIsFinite ==
  ASSUME SearchType
  PROVE  IsFiniteSet(Black) /\ Cardinality(Black) \in Nat
BY StepsAssumption, FS_Subset, FS_CardinalityType DEF Black

-----------------------------------------------------------------------------
LEMMA SearchFromKeeps == SearchInv /\ SearchFrom => SearchInv'
<1> SUFFICES ASSUME SearchInv, SearchFrom PROVE SearchInv'
  OBVIOUS
<1> USE DEF SearchInv, SearchType, Colors
<1>1. PICK n \in Steps :
        /\ color[n] = "WHITE"
        /\ color' = [color EXCEPT ![n] = "GRAY"]
        /\ stack' = <<n>>
        /\ todo' = [todo EXCEPT ![n] = Dependents(n)]
  BY DEF SearchFrom, Roots, White
<1>2. /\ verdict = "searching" /\ stack = <<>>
      /\ UNCHANGED <<edges, flawed, closed, cycle, levels, verdict>>
  BY DEF SearchFrom
<1>3. SearchType'
  BY <1>1, <1>2 DEF Dependents
<1>4. Len(stack') = 1 /\ stack'[1] = n /\ Len(stack) = 0
  BY <1>1, <1>2
<1>5. StackIsGray'
  BY <1>1, <1>2, <1>4 DEF StackIsGray
<1>6. StackIsPath' /\ TodoAreDependents'
  BY <1>1, <1>2, <1>4 DEF StackIsPath, TodoAreDependents, Dependents
<1>7. LookedAt'
  BY <1>1, <1>2, <1>4 DEF LookedAt, Dependents
<1>8. Black' = Black
  BY <1>1 DEF Black
<1>9. BlackIsClosed'
  BY <1>1, <1>2, <1>8 DEF BlackIsClosed, Dependents, Black
<1>10. SearchedAll' /\ CycleIsReal'
  BY <1>2 DEF SearchedAll, CycleIsReal
<1> QED
  BY <1>3, <1>5, <1>6, <1>7, <1>9, <1>10

LEMMA DescendKeeps == SearchInv /\ Descend => SearchInv'
<1> SUFFICES ASSUME SearchInv, Descend PROVE SearchInv'
  OBVIOUS
<1> USE DEF SearchInv, SearchType, Colors
<1>1. /\ verdict = "searching" /\ stack # <<>>
      /\ UNCHANGED <<edges, flawed, closed, cycle, levels, verdict>>
  BY DEF Descend
<1>2. Len(stack) \in Nat \ {0} /\ Top \in Steps
  BY <1>1 DEF Top
<1>3. PICK m \in todo[Top] \cap White :
        /\ color' = [color EXCEPT ![m] = "GRAY"]
        /\ stack' = Append(stack, m)
        /\ todo' = [todo EXCEPT ![Top] = @ \ {m}, ![m] = Dependents(m)]
  BY DEF Descend
<1>4. m \in Steps /\ color[m] = "WHITE" /\ color[Top] = "GRAY" /\ m # Top
  BY <1>2, <1>3 DEF White, StackIsGray, Top
<1>5. m \in Dependents(Top)
  BY <1>2, <1>3 DEF TodoAreDependents
<1>6. /\ stack' \in Seq(Steps) /\ Len(stack') = Len(stack) + 1
      /\ \A i \in 1..Len(stack) : stack'[i] = stack[i]
      /\ stack'[Len(stack) + 1] = m
  BY <1>3, <1>4, Pushed
<1>7. SearchType'
  BY <1>1, <1>2, <1>3, <1>4, <1>6 DEF Dependents
<1>8. StackIsGray'
  BY <1>2, <1>3, <1>4, <1>6, SMTT(60) DEF StackIsGray
<1>9. StackIsPath'
  <2>1. <<Top, m>> \in edges
    BY <1>5 DEF Dependents
  <2> SUFFICES ASSUME NEW i \in 1..Len(stack)
               PROVE  <<stack'[i], stack'[i + 1]>> \in edges
    BY <1>1, <1>2, <1>6 DEF StackIsPath
  <2>2. CASE i = Len(stack)
    BY <1>2, <1>6, <2>1, <2>2 DEF Top
  <2>3. CASE i # Len(stack)
    <3>1. i \in 1..Len(stack) - 1 /\ i + 1 \in 1..Len(stack)
      BY <1>2, <2>3
    <3>2. stack'[i] = stack[i] /\ stack'[i + 1] = stack[i + 1]
      BY <1>6, <3>1
    <3> QED
      BY <3>1, <3>2 DEF StackIsPath
  <2> QED
    BY <2>2, <2>3
<1>10. TodoAreDependents'
  BY <1>1, <1>2, <1>3, <1>4 DEF TodoAreDependents, Dependents
<1>11. LookedAt'
  <2> SUFFICES ASSUME NEW i \in 1..Len(stack) + 1, NEW d \in Steps,
                      d \in Dependents(stack'[i]), d \notin todo'[stack'[i]]
               PROVE  color'[d] = "BLACK" \/ (i < Len(stack) + 1 /\ d = stack'[i + 1])
    BY <1>1, <1>6, SMTT(60) DEF LookedAt, Dependents
  <2>1. CASE i = Len(stack) + 1
    BY <1>2, <1>3, <1>4, <1>6, <2>1
  <2>2. CASE i = Len(stack)
    <3>1. stack'[i] = Top /\ stack'[i + 1] = m /\ i < Len(stack) + 1
      BY <1>2, <1>6, <2>2 DEF Top
    <3>2. CASE d = m
      BY <3>1, <3>2
    <3>3. CASE d # m
      <4>1. d \notin todo[Top]
        BY <1>2, <1>3, <1>4, <3>1, <3>3
      <4>2. color[d] = "BLACK"
        BY <1>2, <2>2, <3>1, <4>1 DEF LookedAt, Top
      <4> QED
        BY <1>3, <1>4, <3>3, <4>2
    <3> QED
      BY <3>2, <3>3
  <2>3. CASE i < Len(stack)
    <3>0. i \in 1..Len(stack) /\ i + 1 \in 1..Len(stack)
      BY <1>2, <2>3
    <3>1. stack'[i] = stack[i] /\ stack'[i + 1] = stack[i + 1] /\ stack[i] \in Steps
      BY <1>6, <3>0, SMTT(60)
    <3>2. stack[i] # Top
      BY <1>2, <2>3 DEF StackIsGray, Top
    <3>3. stack[i] # m
      BY <1>2, <1>4, <2>3 DEF StackIsGray
    <3>4. todo'[stack[i]] = todo[stack[i]]
      BY <1>3, <3>1, <3>2, <3>3
    <3>5. color[d] = "BLACK" \/ d = stack[i + 1]
      <4>1. d \in Dependents(stack[i]) /\ d \notin todo[stack[i]]
        BY <3>1, <3>4 DEF Dependents
      <4> QED
        BY <3>0, <4>1 DEF LookedAt
    <3>6. color[d] = "BLACK" => color'[d] = "BLACK"
      BY <1>3, <1>4
    <3> QED
      BY <2>3, <3>1, <3>5, <3>6
  <2> QED
    BY <1>2, <2>1, <2>2, <2>3
<1>12. Black' = Black
  BY <1>3, <1>4 DEF Black
<1>13. BlackIsClosed'
  BY <1>1, <1>3, <1>4, <1>12 DEF BlackIsClosed, Dependents, Black
<1>14. SearchedAll' /\ CycleIsReal'
  BY <1>1 DEF SearchedAll, CycleIsReal
<1> QED
  BY <1>7, <1>8, <1>9, <1>10, <1>11, <1>13, <1>14

LEMMA PassOverKeeps == SearchInv /\ PassOver => SearchInv'
<1> SUFFICES ASSUME SearchInv, PassOver PROVE SearchInv'
  OBVIOUS
<1> USE DEF SearchInv, SearchType, Colors
<1>1. /\ verdict = "searching" /\ stack # <<>>
      /\ UNCHANGED <<edges, flawed, color, stack, closed, cycle, levels, verdict>>
  BY DEF PassOver
<1>2. Top \in Steps
  BY <1>1 DEF Top
<1>3. PICK m \in todo[Top] \cap Black : todo' = [todo EXCEPT ![Top] = @ \ {m}]
  BY DEF PassOver
<1>4. SearchType' /\ StackIsGray' /\ StackIsPath' /\ TodoAreDependents'
  BY <1>1, <1>2, <1>3 DEF StackIsGray, StackIsPath, TodoAreDependents, Dependents
<1>5. LookedAt'
  BY <1>1, <1>2, <1>3 DEF LookedAt, Dependents, Black
<1>6. BlackIsClosed' /\ SearchedAll' /\ CycleIsReal'
  BY <1>1 DEF BlackIsClosed, SearchedAll, CycleIsReal, Dependents, Black, White
<1> QED
  BY <1>4, <1>5, <1>6

LEMMA LeaveKeeps == SearchInv /\ Leave => SearchInv'
<1> SUFFICES ASSUME SearchInv, Leave PROVE SearchInv'
  OBVIOUS
<1> USE DEF SearchInv, SearchType, Colors
<1>1. /\ verdict = "searching" /\ stack # <<>> /\ todo[Top] = {}
      /\ color' = [color EXCEPT ![Top] = "BLACK"]
      /\ closed' = [closed EXCEPT ![Top] = Cardinality(Black)]
      /\ stack' = SubSeq(stack, 1, Len(stack) - 1)
      /\ UNCHANGED <<edges, flawed, todo, cycle, levels, verdict>>
  BY DEF Leave
<1>2. /\ stack' \in Seq(Steps) /\ Len(stack') = Len(stack) - 1
      /\ \A i \in 1..Len(stack) - 1 : stack'[i] = stack[i]
      /\ Len(stack) \in Nat \ {0} /\ Top \in Steps
  BY <1>1, Popped DEF Top
<1>3. color[Top] = "GRAY"
  BY <1>2 DEF StackIsGray, Top
<1>4. /\ Black' = Black \cup {Top} /\ Top \notin Black
      /\ IsFiniteSet(Black) /\ Cardinality(Black) \in Nat
  BY <1>1, <1>2, <1>3, BlackIsFinite DEF Black
<1>5. Cardinality(Black') = Cardinality(Black) + 1
  BY <1>4, FS_AddElement
<1>6. SearchType'
  BY <1>1, <1>2, <1>4
<1>7. \A i \in 1..Len(stack) - 1 : stack[i] # Top
  <2> SUFFICES ASSUME NEW i \in 1..Len(stack) - 1, stack[i] = stack[Len(stack)] PROVE FALSE
    BY DEF Top
  <2>1. i \in 1..Len(stack) /\ Len(stack) \in 1..Len(stack) /\ i # Len(stack)
    BY <1>2
  <2> QED
    BY <2>1 DEF StackIsGray
<1>8. StackIsGray'
  <2>1. \A i \in 1..Len(stack') : color'[stack'[i]] = "GRAY"
    BY <1>1, <1>2, <1>7 DEF StackIsGray
  <2>2. ASSUME NEW n \in Steps, color'[n] = "GRAY"
        PROVE  \E i \in 1..Len(stack') : n = stack'[i]
    <3>1. color[n] = "GRAY" /\ n # Top
      BY <1>1, <2>2
    <3>2. PICK i \in 1..Len(stack) : n = stack[i]
      BY <3>1 DEF StackIsGray
    <3>3. i \in 1..Len(stack) - 1
      BY <1>2, <3>1, <3>2 DEF Top
    <3> QED
      BY <1>2, <3>2, <3>3
  <2>3. ASSUME NEW i \in 1..Len(stack'), NEW j \in 1..Len(stack'), stack'[i] = stack'[j]
        PROVE  i = j
    <3>0. i \in 1..Len(stack) - 1 /\ j \in 1..Len(stack) - 1
      BY <1>2, <2>3
    <3>1. i \in 1..Len(stack) /\ j \in 1..Len(stack) /\ stack[i] = stack[j]
      <4>1. stack'[i] = stack[i] /\ stack'[j] = stack[j]
        BY <1>2, <3>0
      <4>2. \A k \in 1..Len(stack) - 1 : k \in 1..Len(stack)
        BY <1>2
      <4> QED
        BY <2>3, <3>0, <4>1, <4>2, Zenon
    <3> QED
      BY <3>1 DEF StackIsGray
  <2> QED
    BY <2>1, <2>2, <2>3 DEF StackIsGray
<1>9. StackIsPath'
  <2> SUFFICES ASSUME NEW i \in 1..Len(stack) - 1 - 1
               PROVE  <<stack'[i], stack'[i + 1]>> \in edges
    BY <1>1, <1>2 DEF StackIsPath
  <2>1. i \in 1..Len(stack) - 1 /\ i + 1 \in 1..Len(stack) - 1
    BY <1>2
  <2> QED
    BY <1>2, <2>1 DEF StackIsPath
<1>10. TodoAreDependents'
  BY <1>1 DEF TodoAreDependents, Dependents
<1>11. LookedAt'
  <2> SUFFICES ASSUME NEW i \in 1..Len(stack) - 1, NEW d \in Steps,
                      d \in Dependents(stack'[i]), d \notin todo[stack'[i]]
               PROVE  color'[d] = "BLACK" \/ (i < Len(stack) - 1 /\ d = stack'[i + 1])
    BY <1>1, <1>2, SMTT(60) DEF LookedAt, Dependents
  <2>1. i \in 1..Len(stack) /\ i + 1 \in 1..Len(stack) /\ stack'[i] = stack[i]
    BY <1>2, SMTT(60)
  <2>2. color[d] = "BLACK" \/ d = stack[i + 1]
    BY <2>1 DEF LookedAt
  <2>3. CASE color[d] = "BLACK"
    BY <1>1, <1>2, <2>3
  <2>4. CASE d = stack[i + 1] /\ i + 1 = Len(stack)
    <3>1. d = Top
      BY <2>4 DEF Top
    <3> QED
      BY <1>1, <1>2, <3>1
  <2>5. CASE d = stack[i + 1] /\ i + 1 # Len(stack)
    <3>1. i + 1 \in 1..Len(stack) - 1 /\ i < Len(stack) - 1
      BY <1>2, <2>1, <2>5, SMTT(60)
    <3>2. stack'[i + 1] = stack[i + 1]
      BY <1>2, <3>1
    <3> QED
      BY <2>5, <3>1, <3>2
  <2> QED
    BY <2>2, <2>3, <2>4, <2>5
<1>12. BlackIsClosed'
  <2> SUFFICES ASSUME NEW n \in Black'
               PROVE  /\ closed'[n] < Cardinality(Black')
                      /\ \A m \in Dependents(n) : color'[m] = "BLACK" /\ closed'[m] < closed'[n]
    BY <1>1 DEF BlackIsClosed, Dependents
  <2>1. CASE n = Top
    <3>1. closed'[n] = Cardinality(Black)
      BY <1>1, <1>2, <2>1
    <3>2. ASSUME NEW m \in Dependents(n)
          PROVE  color'[m] = "BLACK" /\ closed'[m] < closed'[n]
      <4>1. m \in Steps /\ m \notin todo[Top]
        BY <1>1 DEF Dependents
      <4>2. color[m] = "BLACK"
        BY <1>2, <2>1, <3>2, <4>1 DEF LookedAt, Top
      <4>3. m \in Black /\ m # Top
        BY <1>3, <4>1, <4>2 DEF Black
      <4> QED
        BY <1>1, <1>2, <3>1, <4>1, <4>2, <4>3 DEF BlackIsClosed
    <3> QED
      BY <1>4, <1>5, <3>1, <3>2
  <2>2. CASE n # Top
    <3>1. n \in Black /\ n \in Steps
      BY <1>4, <2>2 DEF Black
    <3>2. closed'[n] = closed[n] /\ closed[n] < Cardinality(Black) /\ closed[n] \in Nat
      BY <1>1, <2>2, <3>1 DEF BlackIsClosed
    <3>3. ASSUME NEW m \in Dependents(n)
          PROVE  color'[m] = "BLACK" /\ closed'[m] < closed'[n]
      <4>1. m \in Steps /\ color[m] = "BLACK" /\ closed[m] < closed[n]
        BY <3>1 DEF BlackIsClosed, Dependents
      <4>2. m # Top
        BY <1>3, <4>1
      <4> QED
        BY <1>1, <1>2, <3>2, <4>1, <4>2
    <3> QED
      BY <1>4, <1>5, <3>2, <3>3
  <2> QED
    BY <2>1, <2>2
<1>13. SearchedAll' /\ CycleIsReal'
  BY <1>1 DEF SearchedAll, CycleIsReal
<1> QED
  BY <1>6, <1>8, <1>9, <1>10, <1>11, <1>12, <1>13

(* What PathBackTo makes of the calls, a path in the graph *)
LEMMA PathReturns ==
  ASSUME SearchType, StackIsPath, TodoAreDependents, stack # <<>>,
         NEW i \in 1..Len(stack), stack[i] \in todo[Top],
         cycle' = PathBackTo(i), edges' = edges
  PROVE  CycleIsReal'
<1> DEFINE first == IF i = Len(stack) THEN 1 ELSE i
           path == SubSeq(stack, first, Len(stack))
<1>1. /\ Len(stack) \in Nat \ {0} /\ first \in 1..Len(stack) /\ Top \in Steps
      /\ \A k \in 1..Len(stack) : stack[k] \in Steps
  BY DEF SearchType, Top
<1>2. <<Top, stack[i]>> \in edges
  BY <1>1 DEF TodoAreDependents, Dependents
<1>3. /\ path \in Seq(Steps) /\ Len(path) = Len(stack) - first + 1
      /\ \A k \in 1..Len(stack) - first + 1 : path[k] = stack[first + k - 1]
  <2>1. \A k \in first..Len(stack) : stack[k] \in Steps
    BY <1>1
  <2> HIDE DEF first
  <2>2. /\ SubSeq(stack, first, Len(stack)) \in Seq(Steps)
        /\ Len(SubSeq(stack, first, Len(stack))) =
             IF first <= Len(stack) THEN Len(stack) - first + 1 ELSE 0
        /\ \A k \in 1..Len(stack) - first + 1 :
             SubSeq(stack, first, Len(stack))[k] = stack[first + k - 1]
    BY <1>1, <2>1, SubSeqProperties
  <2> QED
    BY <1>1, <2>2
<1> HIDE DEF path
<1>4. /\ cycle' = Append(path, stack[i]) /\ Len(cycle') = Len(path) + 1
      /\ \A k \in 1..Len(path) : cycle'[k] = path[k]
      /\ cycle'[Len(path) + 1] = stack[i]
  BY <1>1, <1>3 DEF PathBackTo, path
<1> HIDE DEF first
<1>5. Len(path) \in Nat \ {0}
  BY <1>1, <1>3
<1>6. path[Len(path)] = Top
  <2>1. first + Len(path) - 1 = Len(stack) /\ Len(path) \in 1..Len(stack) - first + 1
    BY <1>1, <1>3
  <2> QED
    BY <1>3, <2>1 DEF Top
<1>7. ASSUME NEW k \in 1..Len(cycle') - 1
      PROVE  <<cycle'[k], cycle'[k + 1]>> \in edges
  <2>1. CASE k = Len(path)
    BY <1>2, <1>4, <1>5, <1>6, <2>1, SMTT(60)
  <2>2. CASE k # Len(path)
    <3>1. k \in 1..Len(path) /\ k + 1 \in 1..Len(path)
      BY <1>4, <1>5, <2>2
    <3>2. cycle'[k] = stack[first + k - 1] /\ cycle'[k + 1] = stack[first + k]
      BY <1>1, <1>3, <1>4, <3>1
    <3>3. first + k - 1 \in 1..Len(stack) - 1 /\ (first + k - 1) + 1 = first + k
      BY <1>1, <1>3, <3>1
    <3> QED
      BY <3>2, <3>3 DEF StackIsPath
  <2> QED
    BY <2>1, <2>2
<1>8. cycle'[Len(cycle')] = stack[i]
  BY <1>4
<1>9. cycle'[1] = stack[first]
  BY <1>1, <1>3, <1>4, <1>5
<1>10. cycle'[Len(cycle') - 1] = Top
  BY <1>4, <1>5, <1>6
<1>11. stack[i] \in {stack[first], Top}
  BY <1>1 DEF first, Top
<1> QED
  BY <1>4, <1>5, <1>7, <1>8, <1>9, <1>10, <1>11 DEF CycleIsReal

LEMMA FindCycleKeeps == SearchInv /\ FindCycle => SearchInv'
<1> SUFFICES ASSUME SearchInv, FindCycle PROVE SearchInv'
  OBVIOUS
<1>1. PICK i \in 1..Len(stack) : stack[i] \in todo[Top] /\ cycle' = PathBackTo(i)
  BY DEF FindCycle
<1>2. /\ stack # <<>> /\ verdict' = "invalid"
      /\ UNCHANGED <<edges, flawed, color, stack, todo, closed, levels>>
  BY DEF FindCycle
<1>3. CycleIsReal'
  BY <1>1, <1>2, PathReturns DEF SearchInv
<1>4. SearchType' /\ SearchedAll'
  BY <1>2 DEF SearchInv, SearchType, SearchedAll
<1>5. StackIsGray' /\ StackIsPath'
  BY <1>2, ZenonT(30) DEF SearchInv, StackIsGray, StackIsPath
<1>6. TodoAreDependents' /\ BlackIsClosed'
  BY <1>2, SMTT(30) DEF SearchInv, TodoAreDependents, BlackIsClosed, Dependents, Black
<1>7. LookedAt'
  BY <1>2, SMTT(30) DEF SearchInv, LookedAt, Dependents
<1> QED
  BY <1>3, <1>4, <1>5, <1>6, <1>7 DEF SearchInv

LEMMA SortingKeeps == SearchInv /\ (EndSearch \/ SortLevel \/ UNCHANGED graphVars) => SearchInv'
<1> SUFFICES ASSUME SearchInv, EndSearch \/ SortLevel \/ UNCHANGED graphVars
             PROVE  SearchInv'
  OBVIOUS
<1>1. UNCHANGED <<edges, color, stack, todo, closed, cycle>>
  BY DEF EndSearch, SortLevel, graphVars
<1>2. verdict' \in {"searching", "sorting", "valid", "invalid"} /\ SearchedAll'
  BY <1>1 DEF SearchInv, SearchType, SearchedAll, EndSearch, SortLevel, graphVars, Roots, White
<1>3. SearchType'
  BY <1>1, <1>2 DEF SearchInv, SearchType
<1>4. StackIsGray' /\ StackIsPath' /\ CycleIsReal'
  BY <1>1 DEF SearchInv, StackIsGray, StackIsPath, CycleIsReal
<1>5. TodoAreDependents' /\ LookedAt' /\ BlackIsClosed'
  BY <1>1 DEF SearchInv, TodoAreDependents, LookedAt, BlackIsClosed, Dependents, Black
<1> QED
  BY <1>2, <1>3, <1>4, <1>5 DEF SearchInv

LEMMA SearchInvariant == GraphSpec => []SearchInv
<1>1. SearchInv /\ [GraphNext]_graphVars => SearchInv'
  BY SearchFromKeeps, DescendKeeps, PassOverKeeps, FindCycleKeeps, LeaveKeeps, SortingKeeps
  DEF GraphNext
<1> QED
  BY GraphStarts, <1>1, PTL DEF GraphSpec

-----------------------------------------------------------------------------
(* Of the nodes of S that are BLACK the one closed first leads to no other *)
LEMMA ClosedFirst ==
  ASSUME SearchInv, White = {}, stack = <<>>
  PROVE  Acyclic
<1> SUFFICES ASSUME NEW S \in SUBSET Steps, S # {}
             PROVE  \E n \in S : Dependents(n) \cap S = {}
  BY DEF Acyclic
<1>1. \A n \in S : n \in Black
  BY DEF SearchInv, SearchType, StackIsGray, White, Black, Colors
<1> DEFINE T == {closed[n] : n \in S}
<1>2. T \subseteq Nat /\ T # {}
  BY DEF SearchInv, SearchType
<1>3. PICK least \in T : \A y \in T : <<y, least>> \notin OpToRel(<, Nat)
  <2> HIDE DEF T
  <2> QED
    BY <1>2, NatLessThanWellFounded, WFMin
<1>4. \A y \in T : ~(y < least)
  BY <1>2, <1>3 DEF OpToRel
<1>5. PICK n \in S : closed[n] = least
  OBVIOUS
<1>6. ASSUME NEW m \in Dependents(n), m \in S PROVE FALSE
  <2>1. closed[m] < closed[n]
    BY <1>1, <1>6 DEF SearchInv, BlackIsClosed
  <2>2. closed[m] \in T
    BY <1>6
  <2> QED
    BY <1>4, <1>5, <2>1, <2>2
<1> QED
  BY <1>6 DEF Dependents

(* A workflow that passes validation, as it must to be run, has no cycle,  *)
(* whatever its size and whatever the order of its nodes and edges         *)
(* (ExecutionGraphResolver).  Saving one does not ask for validation.      *)
THEOREM ValidIsAcyclic == GraphSpec => []AcceptedIsAcyclic
<1>1. SearchInv => AcceptedIsAcyclic
  BY ClosedFirst DEF SearchInv, SearchedAll, AcceptedIsAcyclic
<1> QED
  BY SearchInvariant, <1>1, PTL

(* A cycle that detectCycle reports is one of the graph. *)
THEOREM ReportedIsCycle == GraphSpec => []CycleIsReal
<1>1. SearchInv => CycleIsReal
  BY DEF SearchInv
<1> QED
  BY SearchInvariant, <1>1, PTL

-----------------------------------------------------------------------------
(* The levels as topologicalSort has built them so far *)
LevelsType == levels \in Seq(SUBSET Steps)

LevelsDisjoint ==
  \A i, j \in 1..Len(levels) : i # j => levels[i] \cap levels[j] = {}

LevelsFollow ==
  \A i \in 1..Len(levels) : \A n \in levels[i] :
    /\ \A m \in Dependencies(n) : \E j \in 1..i - 1 : m \in levels[j]
    /\ i > 1 => \E m \in Dependencies(n) : m \in levels[i - 1]

(* What comes next was held up by the last level *)
NextIsFresh ==
  \A n \in NextLevel :
    levels # <<>> /\ \E m \in Dependencies(n) : m \in levels[Len(levels)]

SortInv ==
  /\ LevelsType
  /\ verdict = "searching" => levels = <<>>
  /\ verdict \in {"sorting", "valid"} => LevelsDisjoint /\ LevelsFollow /\ NextIsFresh
  /\ verdict = "valid" => NextLevel = {}

LEMMA InVisited ==
  ASSUME LevelsType, NEW n
  PROVE  n \in Visited <=> \E i \in 1..Len(levels) : n \in levels[i]
BY DEF LevelsType, Visited

LEMMA SortStarts ==
  ASSUME SortInv, SearchType, EndSearch
  PROVE  SortInv'
<1>1. /\ verdict = "searching" /\ verdict' = "sorting" /\ UNCHANGED edges
      /\ levels' = IF EntryNodes = {} THEN <<>> ELSE <<EntryNodes>>
  BY DEF EndSearch
<1>2. LevelsType'
  <2>1. EntryNodes \in SUBSET Steps
    BY DEF EntryNodes
  <2>2. \A T : <<>> \in Seq(T) /\ \A e \in T : <<e>> \in Seq(T)
    OBVIOUS
  <2>3. <<>> \in Seq(SUBSET Steps) /\ <<EntryNodes>> \in Seq(SUBSET Steps)
    BY <2>1, <2>2, Zenon
  <2>4. levels' = <<>> \/ levels' = <<EntryNodes>>
    BY <1>1
  <2> QED
    BY <2>3, <2>4, Zenon DEF LevelsType
<1>0. \A n : Dependencies(n)' = Dependencies(n)
  BY <1>1 DEF Dependencies
<1>3. CASE EntryNodes = {}
  <2>1. levels' = <<>> /\ Len(levels') = 0 /\ Visited' = {}
    BY <1>1, <1>3 DEF Visited
  <2>2. NextLevel' = {}
    BY <1>1, <1>3, <2>1 DEF NextLevel, EntryNodes, Dependencies
  <2> QED
    BY <1>1, <1>2, <2>1, <2>2 DEF SortInv, LevelsDisjoint, LevelsFollow, NextIsFresh
<1>4. CASE EntryNodes # {}
  <2>1. levels' = <<EntryNodes>> /\ Len(levels') = 1 /\ levels'[1] = EntryNodes
    BY <1>1, <1>4
  <2>2. Visited' = EntryNodes
    BY <2>1 DEF Visited
  <2>3. LevelsDisjoint' /\ LevelsFollow'
    BY <1>0, <2>1 DEF LevelsDisjoint, LevelsFollow, EntryNodes
  <2>4. NextIsFresh'
    BY <1>0, <2>1, <2>2 DEF NextIsFresh, NextLevel, EntryNodes
  <2> QED
    BY <1>1, <1>2, <2>3, <2>4 DEF SortInv
<1> QED
  BY <1>3, <1>4

LEMMA SortContinues ==
  ASSUME SortInv, SearchType, SortLevel
  PROVE  SortInv'
<1>1. verdict = "sorting" /\ UNCHANGED edges
  BY DEF SortLevel
<1>2. LevelsType /\ LevelsDisjoint /\ LevelsFollow /\ NextIsFresh
  BY <1>1 DEF SortInv
<1>0. \A n : Dependencies(n)' = Dependencies(n)
  BY <1>1 DEF Dependencies
<1>3. CASE NextLevel = {}
  <2>1. UNCHANGED levels /\ verdict' \in {"valid", "invalid"}
    BY <1>3 DEF SortLevel
  <2>2. Visited' = Visited /\ NextLevel' = NextLevel
    BY <1>1, <2>1 DEF Visited, NextLevel, Dependencies
  <2> QED
    BY <1>1, <1>2, <1>3, <2>1, <2>2
    DEF SortInv, LevelsType, LevelsDisjoint, LevelsFollow, NextIsFresh, Dependencies
<1>4. CASE NextLevel # {}
  <2> DEFINE k == Len(levels)
  <2>1. levels' = Append(levels, NextLevel) /\ UNCHANGED verdict
    BY <1>4 DEF SortLevel
  <2>2. /\ LevelsType' /\ k \in Nat /\ Len(levels') = k + 1
        /\ \A i \in 1..k : levels'[i] = levels[i]
        /\ levels'[k + 1] = NextLevel
    BY <1>2, <2>1 DEF LevelsType, NextLevel
  <2> HIDE DEF k
  <2>3. \A n \in NextLevel : n \in Steps /\ n \notin Visited /\ Dependencies(n) \subseteq Visited
    BY DEF NextLevel
  <2>4. \A n : n \in Visited <=> \E i \in 1..k : n \in levels[i]
    BY <1>2, InVisited DEF k
  <2>5. \A n : n \in Visited' <=> n \in Visited \/ n \in NextLevel
    <3> SUFFICES ASSUME NEW n
                 PROVE  n \in Visited' <=> n \in Visited \/ n \in NextLevel
      OBVIOUS
    <3>1. n \in Visited' <=> \E i \in 1..k + 1 : n \in levels'[i]
      BY <2>2 DEF Visited, LevelsType
    <3>2. (\E i \in 1..k + 1 : n \in levels'[i]) <=>
            (\E i \in 1..k : n \in levels'[i]) \/ n \in levels'[k + 1]
      BY <2>2
    <3> QED
      BY <2>2, <2>4, <3>1, <3>2
  <2>6. LevelsDisjoint'
    <3> SUFFICES ASSUME NEW i \in 1..k + 1, NEW j \in 1..k + 1, i < j,
                        NEW n, n \in levels'[i], n \in levels'[j]
                 PROVE  FALSE
      BY <2>2 DEF LevelsDisjoint
    <3>1. i \in 1..k /\ n \in levels[i] /\ n \in Visited
      BY <2>2, <2>4
    <3>2. CASE j = k + 1
      BY <2>2, <2>3, <3>1, <3>2
    <3>3. CASE j # k + 1
      <4>1. j \in 1..k /\ n \in levels[j]
        BY <2>2, <3>3
      <4> QED
        BY <1>2, <3>1, <4>1 DEF LevelsDisjoint, k
    <3> QED
      BY <3>2, <3>3
  <2>7. LevelsFollow'
    <3> SUFFICES ASSUME NEW i \in 1..k + 1, NEW n \in levels'[i]
                 PROVE  /\ \A m \in Dependencies(n) : \E j \in 1..i - 1 : m \in levels'[j]
                        /\ i > 1 => \E m \in Dependencies(n) : m \in levels'[i - 1]
      BY <1>0, <2>2 DEF LevelsFollow
    <3>1. CASE i = k + 1
      <4>1. n \in NextLevel /\ i - 1 = k
        BY <2>2, <3>1
      <4>2. ASSUME NEW m \in Dependencies(n) PROVE \E j \in 1..k : m \in levels'[j]
        <5>1. m \in Visited
          BY <2>3, <4>1
        <5>2. PICK j \in 1..k : m \in levels[j]
          BY <2>4, <5>1
        <5> QED
          BY <2>2, <5>2
      <4>3. i > 1 => \E m \in Dependencies(n) : m \in levels'[k]
        <5>1. PICK m \in Dependencies(n) : m \in levels[k]
          BY <1>2, <4>1 DEF NextIsFresh, k
        <5>2. i > 1 => levels'[k] = levels[k]
          BY <2>2, <3>1
        <5> QED
          BY <5>1, <5>2
      <4> QED
        BY <4>1, <4>2, <4>3
    <3>2. CASE i # k + 1
      <4>1. i \in 1..k /\ n \in levels[i]
        BY <2>2, <3>2
      <4>2. /\ \A m \in Dependencies(n) : \E j \in 1..i - 1 : m \in levels[j]
            /\ i > 1 => \E m \in Dependencies(n) : m \in levels[i - 1]
        BY <1>2, <4>1 DEF LevelsFollow, k
      <4>3. \A j \in 1..i - 1 : levels'[j] = levels[j]
        BY <2>2, <4>1
      <4>4. i > 1 => levels'[i - 1] = levels[i - 1]
        BY <2>2, <4>1
      <4> QED
        BY <4>2, <4>3, <4>4
    <3> QED
      BY <3>1, <3>2
  <2>8. NextIsFresh'
    <3> SUFFICES ASSUME NEW n \in NextLevel'
                 PROVE  \E m \in Dependencies(n) : m \in levels'[k + 1]
      <4>1. levels' # <<>>
        BY <2>2 DEF LevelsType
      <4> QED
        BY <1>0, <2>2, <4>1 DEF NextIsFresh
    <3>1. n \in Steps /\ n \notin Visited' /\ Dependencies(n) \subseteq Visited'
      BY <1>0 DEF NextLevel
    <3>2. n \notin Visited /\ n \notin NextLevel
      BY <2>5, <3>1
    <3>3. PICK m \in Dependencies(n) : m \notin Visited
      BY <3>1, <3>2 DEF NextLevel
    <3>4. m \in NextLevel
      BY <2>5, <3>1, <3>3
    <3> QED
      BY <2>2, <3>3, <3>4
  <2> QED
    BY <1>1, <2>1, <2>2, <2>6, <2>7, <2>8 DEF SortInv
<1> QED
  BY <1>3, <1>4

LEMMA SearchKeepsLevels ==
  ASSUME SortInv, SearchType,
         SearchFrom \/ Descend \/ PassOver \/ FindCycle \/ Leave \/ UNCHANGED graphVars
  PROVE  SortInv'
<1>1. UNCHANGED <<edges, levels>> /\ verdict' \in {verdict, "invalid"}
  BY DEF SearchFrom, Descend, PassOver, FindCycle, Leave, graphVars
<1>2. Visited' = Visited /\ NextLevel' = NextLevel
  BY <1>1 DEF Visited, NextLevel, Dependencies
<1>3. \A n : Dependencies(n)' = Dependencies(n)
  BY <1>1 DEF Dependencies
<1>4. /\ LevelsType' = LevelsType /\ LevelsDisjoint' = LevelsDisjoint
      /\ LevelsFollow' = LevelsFollow /\ NextIsFresh' = NextIsFresh
  BY <1>1, <1>2, <1>3 DEF LevelsType, LevelsDisjoint, LevelsFollow, NextIsFresh
<1> QED
  BY <1>1, <1>2, <1>4 DEF SortInv

LEMMA SortInvariant == GraphSpec => [](SearchInv /\ SortInv)
<1>1. GraphInit => SortInv
  BY DEF GraphInit, GraphStart, SortInv, LevelsType
<1>2. SearchInv /\ SortInv /\ [GraphNext]_graphVars => SortInv'
  BY SortStarts, SortContinues, SearchKeepsLevels DEF GraphNext, SearchInv
<1> QED
  BY SearchInvariant, <1>1, <1>2, PTL DEF GraphSpec

(* Of the nodes not visited the one closed last depends on visited ones only *)
LEMMA ClosedLast ==
  ASSUME SearchInv, White = {}, stack = <<>>, Visited \subseteq Steps, NextLevel = {}
  PROVE  Visited = Steps
<1> SUFFICES ASSUME Steps \ Visited # {} PROVE FALSE
  OBVIOUS
<1> DEFINE S == Steps \ Visited
           T == {Cardinality(Black) - closed[n] : n \in S}
<1>1. \A n \in Steps : n \in Black
  BY DEF SearchInv, SearchType, StackIsGray, White, Black, Colors
<1>2. \A n \in Steps : closed[n] \in Nat /\ closed[n] < Cardinality(Black)
  BY <1>1 DEF SearchInv, SearchType, BlackIsClosed
<1>3. Cardinality(Black) \in Nat
  BY BlackIsFinite DEF SearchInv
<1>4. T \subseteq Nat /\ T # {}
  BY <1>2, <1>3
<1>5. PICK least \in T : \A y \in T : <<y, least>> \notin OpToRel(<, Nat)
  <2> HIDE DEF T
  <2> QED
    BY <1>4, NatLessThanWellFounded, WFMin
<1>6. \A y \in T : ~(y < least)
  BY <1>4, <1>5 DEF OpToRel
<1>7. PICK n \in S : Cardinality(Black) - closed[n] = least
  OBVIOUS
<1>8. ASSUME NEW m \in Dependencies(n), m \notin Visited PROVE FALSE
  <2>1. m \in S /\ n \in Dependents(m)
    BY <1>7, <1>8 DEF Dependencies, Dependents
  <2>2. closed[n] < closed[m]
    BY <1>1, <2>1 DEF SearchInv, BlackIsClosed
  <2>3. Cardinality(Black) - closed[m] \in T
    BY <2>1
  <2>4. Cardinality(Black) - closed[m] < least
    BY <1>2, <1>3, <1>7, <2>1, <2>2
  <2> QED
    BY <1>6, <2>3, <2>4
<1>9. n \in NextLevel
  BY <1>7, <1>8 DEF NextLevel
<1> QED
  BY <1>9

(* The order topologicalSort returns for a valid workflow of any size.     *)
THEOREM ValidIsOrdered == GraphSpec => []LevelsAreOrder
<1>1. SearchInv /\ SortInv => LevelsAreOrder
  <2> SUFFICES ASSUME SearchInv, SortInv, verdict = "valid" PROVE LevelsAreOrder
    BY DEF LevelsAreOrder
  <2>1. LevelsType /\ DOMAIN levels = 1..Len(levels)
    BY DEF SortInv, LevelsType
  <2>2. Visited \subseteq Steps
    BY <2>1 DEF Visited, LevelsType
  <2>3. Visited = Steps
    BY <2>2, ClosedLast DEF SearchInv, SearchedAll, SortInv
  <2> QED
    BY <2>1, <2>3 DEF LevelsAreOrder, SortInv, LevelsDisjoint, LevelsFollow
<1> QED
  BY SortInvariant, <1>1, PTL

(* The types of the search and of the levels; what detectCycle returns is  *)
(* a sequence of nodes.                                                    *)
THEOREM GraphTypeCorrect == GraphSpec => []GraphType
<1> DEFINE RestType == flawed \in BOOLEAN /\ cycle \in Seq(Steps)
<1>1. GraphInit => RestType
  BY DEF GraphInit, GraphStart
<1>2. SearchInv /\ RestType /\ [GraphNext]_graphVars => RestType'
  <2> SUFFICES ASSUME SearchInv, RestType, [GraphNext]_graphVars PROVE RestType'
    OBVIOUS
  <2>1. CASE FindCycle
    <3>1. PICK i \in 1..Len(stack) : cycle' = PathBackTo(i) /\ UNCHANGED flawed
      BY <2>1 DEF FindCycle
    <3>2. PathBackTo(i) \in Seq(Steps)
      <4>1. stack \in Seq(Steps) /\ stack[i] \in Steps
        BY DEF SearchInv, SearchType
      <4>2. 1 \in 1..Len(stack) + 1 /\ i \in 1..Len(stack) + 1
        BY <4>1
      <4>3. \A a \in 1..Len(stack) : SubSeq(stack, a, Len(stack)) \in Seq(Steps)
        BY <4>1
      <4> QED
        BY <4>1, <4>2, <4>3 DEF PathBackTo
    <3> QED
      BY <3>1, <3>2
  <2>2. CASE ~FindCycle
    BY <2>2 DEF GraphNext, SearchFrom, Descend, PassOver, Leave, EndSearch, SortLevel, graphVars
  <2> QED
    BY <2>1, <2>2
<1>3. SearchInv /\ SortInv /\ RestType => GraphType
  BY DEF SearchInv, SearchType, SortInv, LevelsType, GraphType
<1> QED
  BY SortInvariant, <1>1, <1>2, <1>3, PTL DEF GraphSpec

-----------------------------------------------------------------------------
(* Values *)

LEMMA ValuesAreNoThrown ==
  /\ Thrown \notin Values /\ NotRead \notin Values /\ Thrown # NotRead
  /\ \A n \in Int : Number(n) \in Values
  /\ \A b \in BOOLEAN : Truth(b) \in Values
BY DEF Thrown, Values, NotRead, Number, Truth

LEMMA RemainderIsInteger ==
  ASSUME NEW l \in Int, NEW r \in Int, r # 0
  PROVE  Remainder(l, r) \in Int
<1> DEFINE size == IF r < 0 THEN -r ELSE r
<1>1. size \in Nat \ {0}
  OBVIOUS
<1> HIDE DEF size
<1>2. (-l) % size \in Int /\ l % size \in Int
  BY <1>1
<1> QED
  BY <1>2 DEF Remainder, size

(* Operators make values of values, or throw. *)
LEMMA ApplyType ==
  ASSUME NEW level \in 1..6, NEW op \in Binary[level], NEW l \in Values, NEW r \in Values
  PROVE  Apply(op, l, r) \in Values \cup {Thrown}
<1>1. l.value \in Int /\ r.value \in Int
  BY DEF Values
<1>2. op \in {"||", "&&", "===", "!==", "<", "<=", ">", ">=", "+", "-", "*", "%"}
  BY DEF Binary
<1>3. op \in {"+", "-", "*", "%"} => Compute(op, l.value, r.value) \in Values \cup {Thrown}
  BY <1>1, RemainderIsInteger, ValuesAreNoThrown DEF Compute
<1>4. l # Thrown /\ r # Thrown
  BY ValuesAreNoThrown
<1>5. \A b : Truth(b) \in Values
  BY DEF Truth, Values
<1> QED
  BY <1>2, <1>3, <1>4, <1>5 DEF Apply

LEMMA ApplyUnaryType ==
  ASSUME NEW op, NEW v \in Values \cup {Thrown}
  PROVE  ApplyUnary(op, v) \in Values \cup {Thrown}
<1>1. \A b : Truth(b) \in Values
  BY DEF Truth, Values
<1>2. v # Thrown => v.value \in Int
  BY DEF Values
<1> QED
  BY <1>1, <1>2, ValuesAreNoThrown DEF ApplyUnary
-----------------------------------------------------------------------------
(* Texts *)

Operators == Unary \cup UNION {Binary[level] : level \in 1..6}

Tokens == {Literal(n) : n \in Int} \cup {Operator(op) : op \in Operators}
          \cup {Punctuation(c) : c \in {"(", ")"}}

(* What the tokens of each kind hold *)
LEMMA TokenFields ==
  /\ \A n : Literal(n).type = "number" /\ Literal(n).number = n
  /\ \A op : Operator(op).type = "operator" /\ Operator(op).value = op
  /\ \A c : Punctuation(c).type = "punctuation" /\ Punctuation(c).value = c
  /\ Eof.type = "eof"
BY DEF Literal, Operator, Punctuation, Eof

LEMMA TokensAreTyped ==
  /\ \A n \in Int : Literal(n) \in Tokens
  /\ \A op \in Operators : Operator(op) \in Tokens
  /\ \A c \in {"(", ")"} : Punctuation(c) \in Tokens
BY DEF Tokens

LEMMA NumbersAreValues ==
  ASSUME NEW token \in Tokens
  PROVE  /\ token.type \in {"number", "operator", "punctuation"}
         /\ token.type = "number" => Number(token.number) \in Values
BY TokenFields, ValuesAreNoThrown DEF Tokens

Text == written.text \in Seq(Tokens)

Last == Len(written.text)

(* The token at i; there is none but eof after the last. *)
LEMMA CurrentType ==
  ASSUME Text, NEW i \in Nat \ {0}
  PROVE  /\ Last \in Nat
         /\ i <= Last => Current(i) = written.text[i] /\ Current(i) \in Tokens
         /\ i > Last => Current(i) = Eof
         /\ \A values : IsOperator(i, values) => i <= Last /\ Current(i).value \in values
         /\ \A value : IsPunctuation(i, value) => i <= Last
         /\ Current(i).type = "number" => i <= Last /\ Number(Current(i).number) \in Values
<1>1. Last \in Nat
  BY DEF Last, Text
<1>2. i <= Last => Current(i) = written.text[i] /\ Current(i) \in Tokens
  BY <1>1 DEF Current, Last, Text
<1>3. i > Last => Current(i) = Eof
  BY <1>1 DEF Current, Last
<1>4. i > Last => Current(i).type = "eof"
  <2>1. Eof.type = "eof"
    BY TokenFields
  <2> QED
    BY <1>3, <2>1
<1>5. Current(i).type # "eof" => i <= Last
  BY <1>1, <1>4
<1>6. Current(i).type = "number" => Number(Current(i).number) \in Values
  BY <1>2, <1>5, NumbersAreValues
<1> QED
  BY <1>1, <1>2, <1>3, <1>5, <1>6 DEF IsOperator, IsPunctuation

-----------------------------------------------------------------------------
(* Read is well defined: the calls of a visit are to visits that are less. *)

(* How much a visit has before it *)
Ahead(v) == (IF v.at <= Last THEN 9 * (Last + 1 - v.at) ELSE 0) + (PrimaryLevel - v.level)

(* What a visit may return *)
Returned(r, v) ==
  \/ r = Failed
  \/ /\ r = [value |-> r.value, at |-> r.at]
     /\ r.value \in Values /\ r.at \in Nat \ {0} /\ r.at >= v.at
     /\ v.left = NotRead \/ v.level >= UnaryLevel => v.at <= Last /\ r.at > v.at

(* The methods, with f for the visits they make *)
ReadFirst(f, v) ==
  LET first == f[Visit(v.level + 1, v.at, v.depth, NotRead)]
  IN IF first = Failed THEN Failed
     ELSE f[Visit(v.level, first.at, v.depth, first.value)]

ReadRest(f, v) ==
  IF ~IsOperator(v.at, Binary[v.level]) THEN Found(v.left, v.at)
  ELSE LET right == f[Visit(Operand(v.level), v.at + 1, v.depth, NotRead)]
           value == Apply(Current(v.at).value, v.left, right.value)
       IN IF value = Thrown THEN Failed
          ELSE f[Visit(v.level, right.at, v.depth, value)]

ReadUnary(f, v) ==
  IF ~IsOperator(v.at, Unary) THEN f[Visit(PrimaryLevel, v.at, v.depth, NotRead)]
  ELSE LET operand == f[Visit(UnaryLevel, v.at + 1, v.depth, NotRead)]
       IN Found(ApplyUnary(Current(v.at).value, operand.value), operand.at)

ReadPrimary(f, v) ==
  IF v.depth = MaxDepth THEN Failed
  ELSE IF Current(v.at).type = "number" THEN Found(Number(Current(v.at).number), v.at + 1)
  ELSE IF ~IsPunctuation(v.at, "(") THEN Failed
  ELSE LET inner == f[Visit(1, v.at + 1, v.depth + 1, NotRead)]
       IN IF inner # Failed /\ IsPunctuation(inner.at, ")")
          THEN Found(inner.value, inner.at + 1) ELSE Failed

Body(f, v) ==
  CASE v.level < UnaryLevel /\ v.left = NotRead -> ReadFirst(f, v)
    [] v.level < UnaryLevel /\ v.left # NotRead -> ReadRest(f, v)
    [] v.level = UnaryLevel -> ReadUnary(f, v)
    [] v.level = PrimaryLevel -> ReadPrimary(f, v)

Reads(f) == f = [v \in Visits |-> Body(f, v)]

(* What the definition of Read stands for *)
LEMMA ReadIsChosen == Read = CHOOSE f : Reads(f)
BY DEF Read, Reads, Body, ReadFirst, ReadRest, ReadUnary, ReadPrimary

LEMMA VisitType ==
  ASSUME NEW v \in Visits
  PROVE  /\ v.level \in 1..8 /\ v.at \in Nat \ {0} /\ v.depth \in Depths
         /\ v.left = NotRead \/ v.left \in Values
         /\ v = Visit(v.level, v.at, v.depth, v.left)
BY DEF Visits, Visit, PrimaryLevel

LEMMA VisitFields ==
  ASSUME NEW level \in 1..8, NEW i \in Nat \ {0}, NEW d \in Depths, NEW x \in Values \cup {NotRead}
  PROVE  /\ Visit(level, i, d, x) \in Visits
         /\ Visit(level, i, d, x).level = level
         /\ Visit(level, i, d, x).at = i
         /\ Visit(level, i, d, x).depth = d
         /\ Visit(level, i, d, x).left = x
BY DEF Visits, Visit, PrimaryLevel

(* Ahead is a natural number. *)
LEMMA AheadType ==
  ASSUME Text, NEW v \in Visits
  PROVE  /\ v.at <= Last => Ahead(v) = 9 * (Last + 1 - v.at) + (8 - v.level)
         /\ v.at > Last => Ahead(v) = 8 - v.level
         /\ Ahead(v) \in Nat
<1>1. Last \in Nat
  BY CurrentType
<1>2. v.level \in 1..8 /\ v.at \in Nat
  BY VisitType
<1> QED
  BY <1>1, <1>2 DEF Ahead, PrimaryLevel

(* A visit to a higher level, or beyond a token, has less before it. *)
LEMMA VisitsGetLess ==
  ASSUME Text, NEW v \in Visits, NEW w \in Visits,
         \/ w.at = v.at /\ w.level > v.level
         \/ v.at <= Last /\ w.at > v.at
  PROVE  Ahead(w) < Ahead(v)
<1> DEFINE n == Last
           a == v.at
           b == w.at
           k == v.level
           l == w.level
<1>1. n \in Nat
  BY CurrentType
<1>2. k \in 1..8 /\ a \in Nat /\ l \in 1..8 /\ b \in Nat
  BY VisitType
<1>3. /\ a <= n => Ahead(v) = 9 * (n + 1 - a) + (8 - k)
      /\ a > n => Ahead(v) = 8 - k
      /\ b <= n => Ahead(w) = 9 * (n + 1 - b) + (8 - l)
      /\ b > n => Ahead(w) = 8 - l
  BY AheadType
<1>4. (b = a /\ l > k) \/ (a <= n /\ b > a)
  OBVIOUS
<1> HIDE DEF n, a, b, k, l
<1> QED
  BY <1>1, <1>2, <1>3, <1>4

-----------------------------------------------------------------------------
(* f returns what it may for every visit before v *)
Before(f, v) == \A w \in Visits : Ahead(w) < Ahead(v) => Returned(f[w], w)

(* f and g agree on the visits before v *)
Agree(f, g, v) == \A w \in Visits : Ahead(w) < Ahead(v) => f[w] = g[w]

LEMMA FoundReturns ==
  ASSUME NEW x \in Values \cup {Thrown}, NEW i \in Nat \ {0}, NEW v, i >= v.at,
         v.left = NotRead \/ v.level >= UnaryLevel => v.at <= Last /\ i > v.at
  PROVE  Returned(Found(x, i), v)
BY ValuesAreNoThrown DEF Returned, Found, Failed

LEMMA FailedIsThrown ==
  /\ Failed.value = Thrown
  /\ \A x, i : x = Thrown => Found(x, i) = Failed
BY DEF Failed, Found

(* Each method returns what it may, if its visits do, and depends on those *)
(* visits only that have less before them.                                 *)
LEMMA FirstReturns ==
  ASSUME Text, NEW f, NEW v \in Visits, v.level < UnaryLevel, v.left = NotRead, Before(f, v)
  PROVE  /\ Returned(ReadFirst(f, v), v)
         /\ \A g : Agree(f, g, v) => ReadFirst(g, v) = ReadFirst(f, v)
<1> DEFINE w == Visit(v.level + 1, v.at, v.depth, NotRead)
           first == f[w]
           u == Visit(v.level, first.at, v.depth, first.value)
<1>1. v.level \in 1..6 /\ v.at \in Nat \ {0} /\ v.depth \in Depths
  BY VisitType DEF UnaryLevel
<1>2. w \in Visits /\ w.level = v.level + 1 /\ w.at = v.at /\ w.left = NotRead
  BY <1>1, VisitFields
<1>3. Ahead(w) < Ahead(v)
  BY <1>1, <1>2, VisitsGetLess
<1>4. Returned(first, w)
  BY <1>2, <1>3 DEF Before
<1>5. \A g : ReadFirst(g, v) = IF g[w] = Failed THEN Failed
                               ELSE g[Visit(v.level, g[w].at, v.depth, g[w].value)]
  BY DEF ReadFirst
<1>6. ASSUME first # Failed
      PROVE  u \in Visits /\ Ahead(u) < Ahead(v) /\ Returned(f[u], v)
  <2>1. /\ first.value \in Values /\ first.at \in Nat \ {0}
        /\ v.at <= Last /\ first.at > v.at
    BY <1>2, <1>4, <1>6 DEF Returned
  <2>2. u \in Visits /\ u.level = v.level /\ u.at = first.at /\ u.left = first.value
    BY <1>1, <2>1, VisitFields
  <2>3. Ahead(u) < Ahead(v)
    BY <1>1, <2>1, <2>2, VisitsGetLess
  <2> DEFINE r == f[u]
  <2>4. Returned(r, u)
    BY <2>2, <2>3 DEF Before
  <2> HIDE DEF w, first, u, r
  <2>5. Returned(r, v)
    BY <1>1, <2>1, <2>2, <2>4 DEF Returned
  <2> QED
    BY <2>2, <2>3, <2>5 DEF r
<1>7. Returned(ReadFirst(f, v), v)
  BY <1>5, <1>6 DEF Returned
<1>8. ASSUME NEW g, Agree(f, g, v) PROVE ReadFirst(g, v) = ReadFirst(f, v)
  <2>1. g[w] = first
    BY <1>2, <1>3, <1>8 DEF Agree
  <2>2. first # Failed => g[u] = f[u]
    BY <1>6, <1>8 DEF Agree
  <2> QED
    BY <1>5, <2>1, <2>2
<1> QED
  BY <1>7, <1>8

LEMMA RestReturns ==
  ASSUME Text, NEW f, NEW v \in Visits, v.level < UnaryLevel, v.left # NotRead, Before(f, v)
  PROVE  /\ Returned(ReadRest(f, v), v)
         /\ \A g : Agree(f, g, v) => ReadRest(g, v) = ReadRest(f, v)
<1>1. v.level \in 1..6 /\ v.at \in Nat \ {0} /\ v.depth \in Depths /\ v.left \in Values
  BY VisitType DEF UnaryLevel
<1>2. ~(v.level >= UnaryLevel)
  BY <1>1 DEF UnaryLevel
<1>3. CASE ~IsOperator(v.at, Binary[v.level])
  <2>1. \A g : ReadRest(g, v) = Found(v.left, v.at)
    BY <1>3 DEF ReadRest
  <2>2. Returned(Found(v.left, v.at), v)
    BY <1>1, <1>2, FoundReturns
  <2> QED
    BY <2>1, <2>2
<1>4. CASE IsOperator(v.at, Binary[v.level])
  <2> DEFINE w == Visit(v.level + 1, v.at + 1, v.depth, NotRead)
             right == f[w]
             op == Current(v.at).value
             value == Apply(op, v.left, right.value)
             u == Visit(v.level, right.at, v.depth, value)
  <2>1. v.at <= Last /\ op \in Binary[v.level]
    BY <1>1, <1>4, CurrentType
  <2>2. w \in Visits /\ w.level = v.level + 1 /\ w.at = v.at + 1 /\ w.left = NotRead
    BY <1>1, VisitFields
  <2>3. Ahead(w) < Ahead(v)
    BY <1>1, <2>1, <2>2, VisitsGetLess
  <2>4. Returned(right, w)
    BY <2>2, <2>3 DEF Before
  <2>5. \A g : ReadRest(g, v) =
           IF Apply(op, v.left, g[w].value) = Thrown THEN Failed
           ELSE g[Visit(v.level, g[w].at, v.depth, Apply(op, v.left, g[w].value))]
    BY <1>4 DEF ReadRest, Operand
  <2>6. right = Failed => value = Thrown
    BY FailedIsThrown DEF Apply
  <2>7. ASSUME value # Thrown
        PROVE  u \in Visits /\ Ahead(u) < Ahead(v) /\ Returned(f[u], v)
    <3>1. right.value \in Values /\ right.at \in Nat \ {0} /\ right.at > v.at
      BY <1>1, <2>2, <2>4, <2>6, <2>7 DEF Returned
    <3>2. value \in Values
      BY <1>1, <2>1, <2>7, <3>1, ApplyType
    <3> HIDE DEF right, op, value
    <3>3. u \in Visits /\ u.level = v.level /\ u.at = right.at /\ u.left = value
      <4> DEFINE k == v.level
                 i == right.at
                 d == v.depth
      <4>1. k \in 1..8 /\ i \in Nat \ {0} /\ d \in Depths /\ value \in Values \cup {NotRead}
        BY <1>1, <3>1, <3>2
      <4> HIDE DEF k, i, d
      <4>2. /\ Visit(k, i, d, value) \in Visits
            /\ Visit(k, i, d, value).level = k /\ Visit(k, i, d, value).at = i
            /\ Visit(k, i, d, value).left = value
        BY <4>1, VisitFields
      <4> QED
        BY <4>2 DEF k, i, d
    <3>4. Ahead(u) < Ahead(v)
      BY <1>1, <2>1, <3>1, <3>3, VisitsGetLess
    <3> DEFINE r == f[u]
    <3>5. Returned(r, u)
      BY <3>3, <3>4 DEF Before
    <3> HIDE DEF w, u, r
    <3>6. Returned(r, v)
      BY <1>1, <1>2, <3>1, <3>3, <3>5 DEF Returned
    <3> QED
      BY <3>3, <3>4, <3>6 DEF r
  <2>8. Returned(ReadRest(f, v), v)
    BY <2>5, <2>7 DEF Returned
  <2>9. ASSUME NEW g, Agree(f, g, v) PROVE ReadRest(g, v) = ReadRest(f, v)
    <3>1. g[w] = right
      BY <2>2, <2>3, <2>9 DEF Agree
    <3>2. value # Thrown => g[u] = f[u]
      BY <2>7, <2>9 DEF Agree
    <3> QED
      BY <2>5, <3>1, <3>2
  <2> QED
    BY <2>8, <2>9
<1> QED
  BY <1>3, <1>4

LEMMA UnaryReturns ==
  ASSUME Text, NEW f, NEW v \in Visits, v.level = UnaryLevel, Before(f, v)
  PROVE  /\ Returned(ReadUnary(f, v), v)
         /\ \A g : Agree(f, g, v) => ReadUnary(g, v) = ReadUnary(f, v)
<1>1. v.level = 7 /\ v.at \in Nat \ {0} /\ v.depth \in Depths
  BY VisitType DEF UnaryLevel
<1>2. CASE ~IsOperator(v.at, Unary)
  <2> DEFINE w == Visit(8, v.at, v.depth, NotRead)
             r == f[w]
  <2>1. \A g : ReadUnary(g, v) = g[w]
    BY <1>2 DEF ReadUnary, PrimaryLevel
  <2>2. w \in Visits /\ w.level = 8 /\ w.at = v.at /\ w.left = NotRead
    BY <1>1, VisitFields
  <2>3. Ahead(w) < Ahead(v)
    BY <1>1, <2>2, VisitsGetLess
  <2>4. Returned(r, w)
    BY <2>2, <2>3 DEF Before
  <2>5. \A g : Agree(f, g, v) => g[w] = r
    BY <2>2, <2>3 DEF Agree
  <2>6. ReadUnary(f, v) = r
    BY <2>1
  <2> HIDE DEF w, r
  <2>7. Returned(r, v)
    BY <2>2, <2>4 DEF Returned
  <2> QED
    BY <2>1, <2>5, <2>6, <2>7
<1>3. CASE IsOperator(v.at, Unary)
  <2> DEFINE w == Visit(7, v.at + 1, v.depth, NotRead)
             r == f[w]
             value == ApplyUnary(Current(v.at).value, r.value)
  <2>1. \A g : ReadUnary(g, v) = Found(ApplyUnary(Current(v.at).value, g[w].value), g[w].at)
    BY <1>3 DEF ReadUnary, UnaryLevel
  <2>2. w \in Visits /\ w.level = 7 /\ w.at = v.at + 1 /\ w.left = NotRead
    BY <1>1, VisitFields
  <2>3. v.at <= Last
    BY <1>1, <1>3, CurrentType
  <2>4. Ahead(w) < Ahead(v)
    BY <1>1, <2>2, <2>3, VisitsGetLess
  <2>5. Returned(r, w)
    BY <2>2, <2>4 DEF Before
  <2>6. \A g : Agree(f, g, v) => g[w] = r
    BY <2>2, <2>4 DEF Agree
  <2>7. ReadUnary(f, v) = Found(value, r.at)
    BY <2>1
  <2>8. r.value \in Values \cup {Thrown}
    BY <2>5, FailedIsThrown DEF Returned
  <2>9. value \in Values \cup {Thrown}
    BY <2>8, ApplyUnaryType
  <2>10. r = Failed => value = Thrown
    BY FailedIsThrown DEF ApplyUnary
  <2>11. Agree(f, f, v)
    BY DEF Agree
  <2> HIDE DEF w, value
  <2>12. Returned(Found(value, r.at), v)
    <3>1. CASE r = Failed
      BY <2>10, <3>1, FailedIsThrown DEF Returned
    <3>2. CASE r # Failed
      <4>1. r.at \in Nat \ {0} /\ r.at > v.at
        BY <1>1, <2>2, <2>5, <3>2 DEF Returned
      <4> QED
        BY <1>1, <2>3, <2>9, <4>1, FoundReturns
    <3> QED
      BY <3>1, <3>2
  <2> QED
    BY <2>1, <2>6, <2>7, <2>12
<1> QED
  BY <1>2, <1>3

LEMMA PrimaryReturns ==
  ASSUME Text, NEW f, NEW v \in Visits, v.level = PrimaryLevel, Before(f, v)
  PROVE  /\ Returned(ReadPrimary(f, v), v)
         /\ \A g : Agree(f, g, v) => ReadPrimary(g, v) = ReadPrimary(f, v)
<1>1. v.level = 8 /\ v.at \in Nat \ {0} /\ v.depth \in Depths
  BY VisitType DEF PrimaryLevel
<1>2. Returned(Failed, v)
  BY DEF Returned
<1>3. CASE v.depth = MaxDepth
  BY <1>2, <1>3 DEF ReadPrimary
<1>4. CASE v.depth # MaxDepth /\ Current(v.at).type = "number"
  <2> DEFINE x == Number(Current(v.at).number)
  <2>1. \A g : ReadPrimary(g, v) = Found(x, v.at + 1)
    BY <1>4 DEF ReadPrimary
  <2>2. v.at <= Last /\ x \in Values
    BY <1>1, <1>4, CurrentType
  <2> HIDE DEF x
  <2>3. Returned(Found(x, v.at + 1), v)
    BY <1>1, <2>2, FoundReturns
  <2> QED
    BY <2>1, <2>3
<1>5. CASE v.depth # MaxDepth /\ Current(v.at).type # "number" /\ ~IsPunctuation(v.at, "(")
  BY <1>2, <1>5 DEF ReadPrimary
<1>6. CASE v.depth # MaxDepth /\ Current(v.at).type # "number" /\ IsPunctuation(v.at, "(")
  <2> DEFINE w == Visit(1, v.at + 1, v.depth + 1, NotRead)
             r == f[w]
  <2>1. \A g : ReadPrimary(g, v) =
           IF g[w] # Failed /\ IsPunctuation(g[w].at, ")")
           THEN Found(g[w].value, g[w].at + 1) ELSE Failed
    BY <1>6 DEF ReadPrimary
  <2>2. v.at <= Last
    BY <1>1, <1>6, CurrentType
  <2>3. v.depth + 1 \in Depths
    BY <1>1, <1>6, ExpressionAssumption DEF Depths
  <2>4. w \in Visits /\ w.level = 1 /\ w.at = v.at + 1 /\ w.left = NotRead
    BY <1>1, <2>3, VisitFields
  <2>5. Ahead(w) < Ahead(v)
    BY <1>1, <2>2, <2>4, VisitsGetLess
  <2>6. Returned(r, w)
    BY <2>4, <2>5 DEF Before
  <2>7. \A g : Agree(f, g, v) => g[w] = r
    BY <2>4, <2>5 DEF Agree
  <2>8. ReadPrimary(f, v) = IF r # Failed /\ IsPunctuation(r.at, ")")
                            THEN Found(r.value, r.at + 1) ELSE Failed
    BY <2>1
  <2> HIDE DEF w, r
  <2>9. ASSUME r # Failed PROVE Returned(Found(r.value, r.at + 1), v)
    <3>1. r.value \in Values /\ r.at + 1 \in Nat \ {0} /\ r.at + 1 > v.at
      BY <1>1, <2>4, <2>6, <2>9 DEF Returned
    <3> QED
      BY <1>1, <2>2, <3>1, FoundReturns
  <2>10. \A g : Agree(f, g, v) => ReadPrimary(g, v) = ReadPrimary(f, v)
    BY <2>1, <2>7, <2>8
  <2> QED
    BY <1>2, <2>8, <2>9, <2>10
<1> QED
  BY <1>3, <1>4, <1>5, <1>6

(* The four methods together *)
LEMMA BodyReturns ==
  ASSUME Text, NEW f, NEW v \in Visits, Before(f, v)
  PROVE  /\ Returned(Body(f, v), v)
         /\ \A g : Agree(f, g, v) => Body(g, v) = Body(f, v)
<1>1. v.level \in 1..8
  BY VisitType
<1>2. CASE v.level < UnaryLevel /\ v.left = NotRead
  <2>1. \A g : Body(g, v) = ReadFirst(g, v)
    BY <1>1, <1>2 DEF Body, UnaryLevel, PrimaryLevel
  <2> QED
    BY <1>2, <2>1, FirstReturns
<1>3. CASE v.level < UnaryLevel /\ v.left # NotRead
  <2>1. \A g : Body(g, v) = ReadRest(g, v)
    BY <1>1, <1>3 DEF Body, UnaryLevel, PrimaryLevel
  <2> QED
    BY <1>3, <2>1, RestReturns
<1>4. CASE v.level = UnaryLevel
  <2>1. \A g : Body(g, v) = ReadUnary(g, v)
    BY <1>1, <1>4 DEF Body, UnaryLevel, PrimaryLevel
  <2> QED
    BY <1>4, <2>1, UnaryReturns
<1>5. CASE v.level = PrimaryLevel
  <2>1. \A g : Body(g, v) = ReadPrimary(g, v)
    BY <1>5 DEF Body, UnaryLevel, PrimaryLevel
  <2> QED
    BY <1>5, <2>1, PrimaryReturns
<1> QED
  BY <1>1, <1>2, <1>3, <1>4, <1>5 DEF UnaryLevel, PrimaryLevel

-----------------------------------------------------------------------------
(* Induction over the natural numbers, for a set *)
LEMMA NatSetInduction ==
  ASSUME NEW C, 0 \in C, \A n \in Nat : n \in C => n + 1 \in C
  PROVE  Nat \subseteq C
<1> SUFFICES ASSUME Nat \ C # {} PROVE FALSE
  OBVIOUS
<1>1. PICK n \in Nat \ C : \A m \in Nat \ C : ~(<<m, n>> \in OpToRel(<, Nat))
  BY NatLessThanWellFounded, WFMin
<1>2. n # 0 /\ n - 1 \in Nat /\ n - 1 < n
  OBVIOUS
<1>3. n - 1 \in C
  BY <1>1, <1>2 DEF OpToRel
<1>4. n - 1 + 1 = n
  OBVIOUS
<1> QED
  BY <1>2, <1>3, <1>4

(* f reads as the code does, as far as the visits with less than n before them *)
Solves(f, n) == \A v \in Visits : Ahead(v) < n => f[v] = Body(f, v)

(* A solution returns what it may. *)
LEMMA SolutionReturns ==
  ASSUME Text, NEW f, NEW n \in Nat, Solves(f, n), NEW v \in Visits, Ahead(v) < n
  PROVE  Returned(f[v], v)
<1> DEFINE C == {m \in Nat : \A w \in Visits : Ahead(w) < m /\ Ahead(w) < n => Returned(f[w], w)}
<1>1. 0 \in C
  BY AheadType
<1>2. ASSUME NEW m \in Nat, m \in C PROVE m + 1 \in C
  <2> SUFFICES ASSUME NEW w \in Visits, Ahead(w) < m + 1, Ahead(w) < n PROVE Returned(f[w], w)
    BY <1>2
  <2>1. ASSUME NEW u \in Visits, Ahead(u) < Ahead(w) PROVE Ahead(u) < m /\ Ahead(u) < n
    <3>1. Ahead(u) \in Nat /\ Ahead(w) \in Nat
      BY AheadType
    <3> QED
      BY <2>1, <3>1
  <2>2. Before(f, w)
    BY <1>2, <2>1 DEF Before
  <2>3. f[w] = Body(f, w)
    BY DEF Solves
  <2> QED
    BY <2>2, <2>3, BodyReturns
<1>3. Nat \subseteq C
  <2> HIDE DEF C
  <2> QED
    BY <1>1, <1>2, NatSetInduction
<1>4. n \in C
  BY <1>3
<1> QED
  BY <1>4

(* There is at most one solution. *)
LEMMA SolutionsAgree ==
  ASSUME Text, NEW f, NEW g, NEW n \in Nat, Solves(f, n), Solves(g, n),
         NEW v \in Visits, Ahead(v) < n
  PROVE  f[v] = g[v]
<1> DEFINE C == {m \in Nat : \A w \in Visits : Ahead(w) < m /\ Ahead(w) < n => f[w] = g[w]}
<1>1. 0 \in C
  BY AheadType
<1>2. ASSUME NEW m \in Nat, m \in C PROVE m + 1 \in C
  <2> SUFFICES ASSUME NEW w \in Visits, Ahead(w) < m + 1, Ahead(w) < n PROVE f[w] = g[w]
    BY <1>2
  <2>1. ASSUME NEW u \in Visits, Ahead(u) < Ahead(w) PROVE Ahead(u) < m /\ Ahead(u) < n
    <3>1. Ahead(u) \in Nat /\ Ahead(w) \in Nat
      BY AheadType
    <3> QED
      BY <2>1, <3>1
  <2>2. Before(f, w)
    BY <2>1, SolutionReturns DEF Before
  <2>3. Agree(f, g, w)
    BY <1>2, <2>1 DEF Agree
  <2>4. f[w] = Body(f, w) /\ g[w] = Body(g, w)
    BY DEF Solves
  <2> QED
    BY <2>2, <2>3, <2>4, BodyReturns
<1>3. Nat \subseteq C
  <2> HIDE DEF C
  <2> QED
    BY <1>1, <1>2, NatSetInduction
<1>4. n \in C
  BY <1>3
<1> QED
  BY <1>4

(* There is one, however far. *)
LEMMA SolutionExists ==
  ASSUME Text, NEW n \in Nat
  PROVE  \E f : Solves(f, n)
<1> DEFINE C == {m \in Nat : \E f : Solves(f, m)}
<1>1. 0 \in C
  BY AheadType DEF Solves
<1>2. ASSUME NEW m \in Nat, m \in C PROVE m + 1 \in C
  <2>1. PICK f : Solves(f, m)
    BY <1>2
  <2> DEFINE g == [v \in Visits |-> Body(f, v)]
  <2>2. ASSUME NEW v \in Visits, Ahead(v) < m + 1 PROVE g[v] = Body(g, v)
    <3>1. ASSUME NEW w \in Visits, Ahead(w) < Ahead(v) PROVE Ahead(w) < m
      <4>1. Ahead(w) \in Nat /\ Ahead(v) \in Nat
        BY AheadType
      <4> QED
        BY <2>2, <3>1, <4>1
    <3>2. Before(f, v)
      BY <2>1, <3>1, SolutionReturns DEF Before
    <3>3. Agree(f, g, v)
      BY <2>1, <3>1 DEF Agree, Solves
    <3>4. g[v] = Body(f, v)
      OBVIOUS
    <3> HIDE DEF g
    <3> QED
      BY <3>2, <3>3, <3>4, BodyReturns
  <2> HIDE DEF g
  <2>3. Solves(g, m + 1)
    BY <2>2 DEF Solves
  <2> QED
    BY <2>3
<1>3. Nat \subseteq C
  <2> HIDE DEF C
  <2> QED
    BY <1>1, <1>2, NatSetInduction
<1> QED
  BY <1>3

(* All of them together solve the equation, so Read does. *)
LEMMA ReadSolves == Text => Reads(Read)
<1> SUFFICES ASSUME Text PROVE \E f : Reads(f)
  BY ReadIsChosen
<1> DEFINE Solution(n) == CHOOSE f : Solves(f, n)
           g == [v \in Visits |-> Solution(Ahead(v) + 1)[v]]
<1>1. \A n \in Nat : Solves(Solution(n), n)
  BY SolutionExists
<1> HIDE DEF Solution
<1>2. ASSUME NEW v \in Visits PROVE g[v] = Body(g, v)
  <2> DEFINE f == Solution(Ahead(v) + 1)
  <2>1. Ahead(v) \in Nat /\ Ahead(v) + 1 \in Nat /\ Ahead(v) < Ahead(v) + 1
    BY AheadType
  <2>2. Solves(f, Ahead(v) + 1)
    BY <1>1, <2>1
  <2>3. g[v] = f[v]
    OBVIOUS
  <2>4. f[v] = Body(f, v)
    BY <2>1, <2>2 DEF Solves
  <2>5. ASSUME NEW w \in Visits, Ahead(w) < Ahead(v) PROVE f[w] = g[w] /\ Returned(f[w], w)
    <3> DEFINE h == Solution(Ahead(w) + 1)
    <3>1. /\ Ahead(w) + 1 \in Nat /\ Ahead(w) < Ahead(w) + 1 /\ Ahead(w) < Ahead(v) + 1
          /\ \A u \in Visits : Ahead(u) < Ahead(w) + 1 => Ahead(u) < Ahead(v) + 1
      <4>1. \A u \in Visits : Ahead(u) \in Nat
        BY AheadType
      <4> QED
        BY <2>5, <4>1
    <3>2. Solves(h, Ahead(w) + 1)
      BY <1>1, <3>1
    <3>3. Solves(f, Ahead(w) + 1)
      BY <2>2, <3>1 DEF Solves
    <3>4. g[w] = h[w]
      OBVIOUS
    <3> HIDE DEF f, g, h
    <3>5. f[w] = h[w]
      BY <3>1, <3>2, <3>3, SolutionsAgree
    <3>6. Returned(f[w], w)
      BY <2>1, <2>2, <3>1, SolutionReturns
    <3> QED
      BY <3>4, <3>5, <3>6
  <2>6. Before(f, v) /\ Agree(f, g, v)
    BY <2>5 DEF Before, Agree
  <2> HIDE DEF f, g
  <2> QED
    BY <2>3, <2>4, <2>6, BodyReturns
<1>3. g = [v \in Visits |-> Body(g, v)]
  BY <1>2
<1> QED
  BY <1>3 DEF Reads

(* What Read returns is what the methods make of it. *)
LEMMA ReadEquation ==
  ASSUME Text, NEW v \in Visits
  PROVE  Read[v] = Body(Read, v) /\ Returned(Read[v], v)
<1>1. Reads(Read)
  BY ReadSolves
<1>2. \A w \in Visits : Read[w] = Body(Read, w)
  BY <1>1 DEF Reads
<1>3. Ahead(v) + 1 \in Nat /\ Ahead(v) < Ahead(v) + 1
  BY AheadType
<1>4. Solves(Read, Ahead(v) + 1)
  BY <1>2 DEF Solves
<1> QED
  BY <1>2, <1>3, <1>4, SolutionReturns

-----------------------------------------------------------------------------
(* What is written *)
Phrase(p) ==
  /\ p.level \in 1..8
  /\ p.text \in Seq(Tokens)
  /\ p.meaning \in [Depths -> Values \cup {Thrown}]
  /\ p.level = 8 => Len(p.text) > 0 /\ p.text[1].type # "operator"

LEMMA LevelType ==
  ASSUME NEW op \in BinaryOperators
  PROVE  /\ Level(op) \in 1..6 /\ op \in Binary[Level(op)] /\ op \in Operators
         /\ \A level \in 1..6 : op \in Binary[level] => level = Level(op)
<1>1. \E level \in 1..6 : op \in Binary[level]
  BY ExpressionAssumption
<1>2. Level(op) \in 1..6 /\ op \in Binary[Level(op)]
  BY <1>1 DEF Level
<1>3. \A k, l \in 1..6 : op \in Binary[k] /\ op \in Binary[l] => k = l
  BY DEF Binary
<1>4. op \in Operators
  BY <1>2 DEF Operators
<1> QED
  BY <1>2, <1>3, <1>4

LEMMA ConcatType ==
  ASSUME NEW s \in Seq(Tokens), NEW t \in Seq(Tokens)
  PROVE  /\ s \o t \in Seq(Tokens) /\ Len(s \o t) = Len(s) + Len(t)
         /\ Len(s) \in Nat /\ Len(t) \in Nat
         /\ \A k \in 1..Len(s) : (s \o t)[k] = s[k]
         /\ \A k \in 1..Len(t) : (s \o t)[Len(s) + k] = t[k]
OBVIOUS

LEMMA OneToken ==
  ASSUME NEW a \in Tokens
  PROVE  <<a>> \in Seq(Tokens) /\ Len(<<a>>) = 1 /\ <<a>>[1] = a
OBVIOUS

(* All that is written is a phrase. *)
LEMMA AtomType ==
  ASSUME NEW n \in Literals
  PROVE  Phrase(Atom(n))
<1>1. n \in Int
  BY ExpressionAssumption
<1>2. Atom(n).level = 8 /\ Atom(n).text = <<Literal(n)>>
  BY DEF Atom, PrimaryLevel
<1>3. <<Literal(n)>> \in Seq(Tokens) /\ Len(<<Literal(n)>>) = 1 /\ <<Literal(n)>>[1] = Literal(n)
  BY <1>1, TokensAreTyped, OneToken
<1>4. Literal(n).type # "operator"
  BY TokenFields
<1>5. Atom(n).meaning \in [Depths -> Values \cup {Thrown}]
  BY <1>1, ValuesAreNoThrown DEF Atom
<1> QED
  BY <1>2, <1>3, <1>4, <1>5 DEF Phrase

LEMMA ParenthesisedType ==
  ASSUME NEW p, Phrase(p)
  PROVE  /\ Phrase(Parenthesised(p))
         /\ Parenthesised(p).level = 8
         /\ Parenthesised(p).text = (<<Punctuation("(")>> \o p.text) \o <<Punctuation(")")>>
         /\ Parenthesised(p).meaning =
              [d \in Depths |-> IF d < MaxDepth THEN p.meaning[d + 1] ELSE Thrown]
<1> DEFINE a == <<Punctuation("(")>>
           b == <<Punctuation(")")>>
           q == Parenthesised(p)
<1>1. /\ q.level = 8 /\ q.text = (a \o p.text) \o b
      /\ q.meaning = [d \in Depths |-> IF d < MaxDepth THEN p.meaning[d + 1] ELSE Thrown]
  BY DEF Parenthesised, PrimaryLevel
<1>2. /\ a \in Seq(Tokens) /\ b \in Seq(Tokens) /\ Len(a) = 1 /\ Len(b) = 1
      /\ a[1] = Punctuation("(")
  <2>1. Punctuation("(") \in Tokens /\ Punctuation(")") \in Tokens
    BY TokensAreTyped
  <2> QED
    BY <2>1, OneToken
<1>3. p.text \in Seq(Tokens)
  BY DEF Phrase
<1>4. q.meaning \in [Depths -> Values \cup {Thrown}]
  <2>1. \A d \in Depths : d < MaxDepth => d + 1 \in Depths
    BY ExpressionAssumption DEF Depths
  <2>2. p.meaning \in [Depths -> Values \cup {Thrown}]
    BY DEF Phrase
  <2>3. \A d \in Depths : d < MaxDepth => p.meaning[d + 1] \in Values \cup {Thrown}
    BY <2>1, <2>2
  <2> QED
    BY <1>1, <2>3
<1>5. Punctuation("(").type # "operator"
  BY TokenFields
<1> HIDE DEF a, b, q
<1>6. a \o p.text \in Seq(Tokens) /\ Len(a \o p.text) = 1 + Len(p.text) /\ (a \o p.text)[1] = a[1]
      /\ Len(p.text) \in Nat
  BY <1>2, <1>3, ConcatType
<1>7. q.text \in Seq(Tokens) /\ Len(q.text) > 0 /\ q.text[1] = a[1]
  BY <1>1, <1>2, <1>6, ConcatType
<1>8. Phrase(q)
  BY <1>1, <1>2, <1>4, <1>5, <1>7 DEF Phrase
<1> QED
  BY <1>1, <1>8 DEF q, a, b

LEMMA GuardedType ==
  ASSUME NEW p, Phrase(p), NEW level \in 1..7
  PROVE  Phrase(Guarded(p, level)) /\ Guarded(p, level).level >= level
<1>1. CASE p.level >= level
  <2>1. Guarded(p, level) = p
    BY <1>1 DEF Guarded
  <2> QED
    BY <1>1, <2>1
<1>2. CASE ~(p.level >= level)
  <2>1. Guarded(p, level) = Parenthesised(p)
    BY <1>2 DEF Guarded
  <2>2. Phrase(Parenthesised(p)) /\ Parenthesised(p).level = 8
    BY ParenthesisedType
  <2> QED
    BY <2>1, <2>2
<1> QED
  BY <1>1, <1>2

LEMMA PrefixType ==
  ASSUME NEW op \in UnaryOperators, NEW p, Phrase(p)
  PROVE  /\ Phrase(Prefix(op, p))
         /\ Prefix(op, p).level = 7
         /\ Prefix(op, p).text = <<Operator(op)>> \o Guarded(p, 7).text
         /\ Prefix(op, p).meaning = [d \in Depths |-> ApplyUnary(op, Guarded(p, 7).meaning[d])]
<1> DEFINE arm == Guarded(p, 7)
           a == <<Operator(op)>>
           q == Prefix(op, p)
<1>1. /\ q.level = 7 /\ q.text = a \o arm.text
      /\ q.meaning = [d \in Depths |-> ApplyUnary(op, arm.meaning[d])]
  BY DEF Prefix, UnaryLevel
<1>2. Phrase(arm)
  BY GuardedType
<1>3. op \in Operators
  BY ExpressionAssumption DEF Operators
<1>4. a \in Seq(Tokens)
  BY <1>3, TokensAreTyped, OneToken
<1> HIDE DEF a, arm, q
<1>5. q.text \in Seq(Tokens)
  BY <1>1, <1>2, <1>4, ConcatType DEF Phrase
<1>6. \A d \in Depths : ApplyUnary(op, arm.meaning[d]) \in Values \cup {Thrown}
  BY <1>2, ApplyUnaryType DEF Phrase
<1>7. Phrase(q)
  BY <1>1, <1>5, <1>6 DEF Phrase
<1> QED
  BY <1>1, <1>7 DEF q, a, arm

LEMMA InfixType ==
  ASSUME NEW op \in BinaryOperators, NEW p, NEW q, Phrase(p), Phrase(q)
  PROVE  /\ Phrase(Infix(op, p, q))
         /\ Infix(op, p, q).level = Level(op)
<1> DEFINE left == Guarded(p, Level(op))
           right == Guarded(q, Level(op) + 1)
           a == <<Operator(op)>>
           r == Infix(op, p, q)
<1>1. /\ r.level = Level(op) /\ r.text = (left.text \o a) \o right.text
      /\ r.meaning = [d \in Depths |-> Apply(op, left.meaning[d], right.meaning[d])]
  BY DEF Infix
<1>2. Level(op) \in 1..6 /\ op \in Binary[Level(op)] /\ op \in Operators
  BY LevelType
<1>3. Phrase(left) /\ Phrase(right)
  BY <1>2, GuardedType
<1>4. a \in Seq(Tokens)
  BY <1>2, TokensAreTyped, OneToken
<1> HIDE DEF left, right, a, r
<1>5. r.text \in Seq(Tokens)
  BY <1>1, <1>3, <1>4, ConcatType DEF Phrase
<1>6. ASSUME NEW d \in Depths
      PROVE  Apply(op, left.meaning[d], right.meaning[d]) \in Values \cup {Thrown}
  <2>1. left.meaning[d] \in Values \cup {Thrown} /\ right.meaning[d] \in Values \cup {Thrown}
    BY <1>3 DEF Phrase
  <2>2. CASE Thrown \in {left.meaning[d], right.meaning[d]}
    BY <2>2 DEF Apply
  <2>3. CASE left.meaning[d] \in Values /\ right.meaning[d] \in Values
    BY <1>2, <2>3, ApplyType
  <2> QED
    BY <2>1, <2>2, <2>3
<1>7. r.level \in 1..8 /\ r.level # 8
  BY <1>1, <1>2
<1>8. r.meaning \in [Depths -> Values \cup {Thrown}]
  BY <1>1, <1>6
<1>9. Phrase(r)
  BY <1>5, <1>7, <1>8 DEF Phrase
<1> QED
  BY <1>1, <1>9 DEF left, right, a, r

-----------------------------------------------------------------------------
(* The text stands at i. *)
Placed(text, i) == \A k \in 1..Len(text) : Current(i + k - 1) = text[k]

(* No operator of this level or a higher one stands at j. *)
Closed(j, level) == \A l \in level..6 : ~IsOperator(j, Binary[l])

(* How the method of a level goes on after an operand that means x *)
Resume(level, j, d, x) ==
  IF x = Thrown THEN Failed
  ELSE IF level < UnaryLevel THEN Read[Visit(level, j, d, x)] ELSE Found(x, j)

(* A phrase is read as what it means, wherever it stands and wherever it   *)
(* may stand.                                                              *)
ReadAt(p, level) ==
  \A i \in Nat \ {0}, d \in Depths :
    Placed(p.text, i) /\ Closed(i + Len(p.text), level + 1) =>
      Read[Visit(level, i, d, NotRead)] = Resume(level, i + Len(p.text), d, p.meaning[d])

ReadWell(p) == \A level \in 1..p.level : ReadAt(p, level)

(* The parts of a text stand one after the other. *)
LEMMA PlacedParts ==
  ASSUME NEW s \in Seq(Tokens), NEW t \in Seq(Tokens), NEW i \in Nat \ {0}, Placed(s \o t, i)
  PROVE  Placed(s, i) /\ Placed(t, i + Len(s))
<1>1. /\ Len(s \o t) = Len(s) + Len(t) /\ Len(s) \in Nat /\ Len(t) \in Nat
      /\ \A k \in 1..Len(s) : (s \o t)[k] = s[k]
      /\ \A k \in 1..Len(t) : (s \o t)[Len(s) + k] = t[k]
  BY ConcatType
<1>2. ASSUME NEW k \in 1..Len(s) PROVE Current(i + k - 1) = s[k]
  BY <1>1 DEF Placed
<1>3. ASSUME NEW k \in 1..Len(t) PROVE Current(i + Len(s) + k - 1) = t[k]
  <2>1. Len(s) + k \in 1..Len(s \o t) /\ i + Len(s) + k - 1 = i + (Len(s) + k) - 1
    BY <1>1
  <2>2. Current(i + (Len(s) + k) - 1) = (s \o t)[Len(s) + k]
    BY <2>1 DEF Placed
  <2> QED
    BY <1>1, <2>1, <2>2
<1> QED
  BY <1>2, <1>3 DEF Placed

LEMMA OneTokenPlaced ==
  ASSUME NEW a \in Tokens, NEW i \in Nat \ {0}, Placed(<<a>>, i)
  PROVE  Current(i) = a
<1>1. i + 1 - 1 = i
  OBVIOUS
<1>2. 1 \in 1..Len(<<a>>) /\ <<a>>[1] = a
  OBVIOUS
<1> QED
  BY <1>1, <1>2 DEF Placed

(* The method that a visit is to *)
LEMMA BodyOf ==
  ASSUME Text, NEW v \in Visits
  PROVE  /\ v.level < UnaryLevel /\ v.left = NotRead => Read[v] = ReadFirst(Read, v)
         /\ v.level < UnaryLevel /\ v.left # NotRead => Read[v] = ReadRest(Read, v)
         /\ v.level = UnaryLevel => Read[v] = ReadUnary(Read, v)
         /\ v.level = PrimaryLevel => Read[v] = ReadPrimary(Read, v)
<1>1. Read[v] = Body(Read, v)
  BY ReadEquation
<1> HIDE DEF Read
<1> QED
  BY <1>1 DEF Body, UnaryLevel, PrimaryLevel

(* No more of this level follows. *)
LEMMA RestIsNothing ==
  ASSUME Text, NEW level \in 1..6, NEW j \in Nat \ {0}, NEW d \in Depths, NEW x \in Values,
         ~IsOperator(j, Binary[level])
  PROVE  Read[Visit(level, j, d, x)] = Found(x, j)
<1> DEFINE v == Visit(level, j, d, x)
<1>1. v \in Visits /\ v.level = level /\ v.at = j /\ v.left = x
  BY VisitFields
<1>2. v.left # NotRead
  BY <1>1, ValuesAreNoThrown
<1> HIDE DEF v
<1>3. Read[v] = ReadRest(Read, v)
  BY <1>1, <1>2, BodyOf DEF UnaryLevel
<1>4. Read[v] = Found(x, j)
  BY <1>1, <1>3 DEF ReadRest
<1> QED
  BY <1>4 DEF v

(* If none of the level follows, the operand is all. *)
LEMMA ResumedIsFound ==
  ASSUME Text, NEW level \in 1..8, NEW j \in Nat \ {0}, NEW d \in Depths,
         NEW x \in Values \cup {Thrown}, Closed(j, level)
  PROVE  Resume(level, j, d, x) = Found(x, j)
<1>1. CASE x = Thrown
  BY <1>1 DEF Resume, Found
<1>2. CASE x # Thrown /\ level \in 1..6
  <2>1. ~IsOperator(j, Binary[level])
    BY <1>2 DEF Closed
  <2> QED
    BY <1>2, <2>1, RestIsNothing DEF Resume, UnaryLevel
<1>3. CASE x # Thrown /\ level \in 7..8
  BY <1>3 DEF Resume, UnaryLevel
<1> QED
  BY <1>1, <1>2, <1>3

(* What is read on a level is read on the levels below it. *)
LEMMA ReadLower ==
  ASSUME Text, NEW p, Phrase(p), NEW level \in 1..7, level < p.level, ReadAt(p, level + 1)
  PROVE  ReadAt(p, level)
<1> SUFFICES ASSUME NEW i \in Nat \ {0}, NEW d \in Depths, Placed(p.text, i),
                    Closed(i + Len(p.text), level + 1)
             PROVE  Read[Visit(level, i, d, NotRead)]
                      = Resume(level, i + Len(p.text), d, p.meaning[d])
  BY DEF ReadAt
<1> DEFINE v == Visit(level, i, d, NotRead)
           w == Visit(level + 1, i, d, NotRead)
           j == i + Len(p.text)
           x == p.meaning[d]
<1>1. v \in Visits /\ v.level = level /\ v.at = i /\ v.depth = d /\ v.left = NotRead
  BY VisitFields
<1>2. j \in Nat \ {0} /\ x \in Values \cup {Thrown}
  BY DEF Phrase
<1>3. Closed(j, level + 2)
  BY DEF Closed
<1>4. Read[w] = Resume(level + 1, j, d, x)
  BY <1>3 DEF ReadAt
<1>5. Read[w] = Found(x, j)
  BY <1>2, <1>4, ResumedIsFound
<1> HIDE DEF x, j
<1>6. CASE level = 7
  <2>1. ~IsOperator(i, Unary)
    <3>1. Len(p.text) > 0 /\ p.text[1].type # "operator"
      BY <1>6 DEF Phrase
    <3>2. Current(i + 1 - 1) = p.text[1] /\ i + 1 - 1 = i
      BY <3>1 DEF Placed, Phrase
    <3> QED
      BY <3>1, <3>2 DEF IsOperator
  <2>2. Read[v] = ReadUnary(Read, v)
    BY <1>1, <1>6, BodyOf DEF UnaryLevel
  <2>3. Read[v] = Read[w]
    BY <1>1, <1>6, <2>1, <2>2 DEF ReadUnary, PrimaryLevel
  <2> QED
    BY <1>5, <1>6, <2>3 DEF Resume, UnaryLevel, Found, j, x
<1>7. CASE level < 7
  <2>1. Read[v] = ReadFirst(Read, v)
    BY <1>1, <1>7, BodyOf DEF UnaryLevel
  <2>2. Read[v] = IF Read[w] = Failed THEN Failed
                  ELSE Read[Visit(level, Read[w].at, d, Read[w].value)]
    BY <1>1, <2>1 DEF ReadFirst
  <2>3. CASE x = Thrown
    BY <1>5, <2>2, <2>3 DEF Resume, Found, j, x
  <2>4. CASE x # Thrown
    <3>1. Read[w] # Failed /\ Read[w].at = j /\ Read[w].value = x
      BY <1>5, <2>4 DEF Found, Failed
    <3> QED
      BY <1>7, <2>2, <2>4, <3>1 DEF Resume, UnaryLevel, j, x
  <2> QED
    BY <2>3, <2>4
<1> QED
  BY <1>6, <1>7

(* So it is enough to look at the level of a phrase. *)
LEMMA ReadFromTop ==
  ASSUME Text, NEW p, Phrase(p), ReadAt(p, p.level)
  PROVE  ReadWell(p)
<1> DEFINE C == {n \in Nat : \A level \in 1..p.level : p.level - level = n => ReadAt(p, level)}
<1>1. p.level \in 1..8
  BY DEF Phrase
<1>2. 0 \in C
  <2>1. \A level \in 1..p.level : p.level - level = 0 => level = p.level
    BY <1>1
  <2> QED
    BY <2>1
<1>3. ASSUME NEW n \in Nat, n \in C PROVE n + 1 \in C
  <2> SUFFICES ASSUME NEW level \in 1..p.level, p.level - level = n + 1 PROVE ReadAt(p, level)
    OBVIOUS
  <2>1. level + 1 \in 1..p.level /\ p.level - (level + 1) = n /\ level \in 1..7 /\ level < p.level
    BY <1>1
  <2>2. ReadAt(p, level + 1)
    BY <1>3, <2>1
  <2> QED
    BY <2>1, <2>2, ReadLower
<1>4. Nat \subseteq C
  <2> HIDE DEF C
  <2> QED
    BY <1>2, <1>3, NatSetInduction
<1>5. \A level \in 1..p.level : p.level - level \in C
  BY <1>1, <1>4
<1> QED
  BY <1>5 DEF ReadWell

(* A number *)
LEMMA AtomIsRead ==
  ASSUME Text, NEW n \in Literals
  PROVE  ReadWell(Atom(n))
<1> DEFINE p == Atom(n)
<1>1. n \in Int
  BY ExpressionAssumption
<1>2. /\ p.level = 8 /\ p.text = <<Literal(n)>>
      /\ \A d \in Depths : p.meaning[d] = IF d < MaxDepth THEN Number(n) ELSE Thrown
  BY DEF Atom, PrimaryLevel
<1>3. Phrase(p)
  BY AtomType
<1>4. Literal(n) \in Tokens /\ Len(<<Literal(n)>>) = 1
  BY <1>1, TokensAreTyped
<1> HIDE DEF p
<1>5. ReadAt(p, 8)
  <2> SUFFICES ASSUME NEW i \in Nat \ {0}, NEW d \in Depths, Placed(p.text, i)
               PROVE  Read[Visit(8, i, d, NotRead)] = Resume(8, i + 1, d, p.meaning[d])
    BY <1>2, <1>4 DEF ReadAt
  <2> DEFINE v == Visit(8, i, d, NotRead)
  <2>1. v \in Visits /\ v.level = 8 /\ v.at = i /\ v.depth = d
    BY VisitFields
  <2> HIDE DEF v
  <2>2. Read[v] = ReadPrimary(Read, v)
    BY <2>1, BodyOf DEF PrimaryLevel
  <2>3. Current(i) = Literal(n)
    BY <1>2, <1>4, OneTokenPlaced
  <2>4. Current(i).type = "number" /\ Current(i).number = n
    BY <2>3, TokenFields
  <2>5. Read[v] = IF d = MaxDepth THEN Failed ELSE Found(Number(n), i + 1)
    BY <2>1, <2>2, <2>4 DEF ReadPrimary
  <2>6. d = MaxDepth \/ d < MaxDepth
    BY ExpressionAssumption DEF Depths
  <2>7. Number(n) # Thrown
    BY <1>1, ValuesAreNoThrown
  <2>8. Resume(8, i + 1, d, p.meaning[d])
          = IF p.meaning[d] = Thrown THEN Failed ELSE Found(p.meaning[d], i + 1)
    BY DEF Resume, UnaryLevel
  <2>9. CASE d = MaxDepth
    <3>1. ~(d < MaxDepth)
      BY <2>9, ExpressionAssumption
    <3> QED
      BY <1>2, <2>5, <2>8, <2>9, <3>1 DEF v
  <2>10. CASE d # MaxDepth
    BY <1>2, <2>5, <2>6, <2>7, <2>8, <2>10 DEF v
  <2> QED
    BY <2>9, <2>10
<1>6. ReadWell(p)
  BY <1>2, <1>3, <1>5, ReadFromTop
<1> QED
  BY <1>6 DEF p

(* Inside parentheses the levels begin anew, one deeper. *)
LEMMA ParenthesisedIsRead ==
  ASSUME Text, NEW p, Phrase(p), ReadWell(p)
  PROVE  ReadWell(Parenthesised(p))
<1> DEFINE q == Parenthesised(p)
           a == <<Punctuation("(")>>
           b == <<Punctuation(")")>>
<1>1. /\ Phrase(q) /\ q.level = 8 /\ q.text = (a \o p.text) \o b
      /\ \A d \in Depths : q.meaning[d] = IF d < MaxDepth THEN p.meaning[d + 1] ELSE Thrown
  <2>1. q.meaning = [d \in Depths |-> IF d < MaxDepth THEN p.meaning[d + 1] ELSE Thrown]
    BY ParenthesisedType
  <2>2. Phrase(q) /\ q.level = 8 /\ q.text = (a \o p.text) \o b
    BY ParenthesisedType
  <2> QED
    BY <2>1, <2>2
<1>2. Punctuation("(") \in Tokens /\ Punctuation(")") \in Tokens
  BY TokensAreTyped
<1>3. a \in Seq(Tokens) /\ b \in Seq(Tokens) /\ Len(a) = 1 /\ Len(b) = 1
  BY <1>2, OneToken
<1>4. p.text \in Seq(Tokens)
  BY DEF Phrase
<1>n. PICK n \in Nat : n = Len(p.text)
  BY <1>4
<1> HIDE DEF q
<1>5. /\ a \o p.text \in Seq(Tokens) /\ Len(a \o p.text) = 1 + n
      /\ Len((a \o p.text) \o b) = n + 2
  <2> HIDE DEF a, b
  <2>1. a \o p.text \in Seq(Tokens) /\ Len(a \o p.text) = 1 + n
    BY <1>n, <1>3, <1>4, ConcatType
  <2> QED
    BY <1>3, <1>4, <2>1, ConcatType
<1>6. ReadAt(q, 8)
  <2> SUFFICES ASSUME NEW i \in Nat \ {0}, NEW d \in Depths, Placed(q.text, i)
               PROVE  Read[Visit(8, i, d, NotRead)]
                        = Resume(8, i + n + 2, d, q.meaning[d])
    <3>1. Len(q.text) = n + 2
      BY <1>1, <1>5
    <3>2. \A i \in Nat : i + (n + 2) = i + n + 2
      OBVIOUS
    <3> QED
      BY <3>1, <3>2 DEF ReadAt
  <2> DEFINE v == Visit(8, i, d, NotRead)
             w == Visit(1, i + 1, d + 1, NotRead)
             j == i + 1 + n
             x == p.meaning[d + 1]
  <2>1. v \in Visits /\ v.level = 8 /\ v.at = i /\ v.depth = d
    BY VisitFields
  <2>2. Placed(a \o p.text, i) /\ Placed(b, i + Len(a \o p.text))
    <3> HIDE DEF a, b
    <3> QED
      BY <1>1, <1>3, <1>5, PlacedParts
  <2>3. Placed(a, i) /\ Placed(p.text, i + 1)
    <3> HIDE DEF a, b
    <3> QED
      BY <1>3, <1>4, <2>2, PlacedParts
  <2>4. Current(i) = Punctuation("(")
    BY <1>2, <2>3, OneTokenPlaced
  <2>5. i + Len(a \o p.text) = j /\ j \in Nat \ {0}
    BY <1>5
  <2>6. Current(j) = Punctuation(")")
    BY <1>2, <2>2, <2>5, OneTokenPlaced
  <2>7. IsPunctuation(i, "(") /\ Current(i).type # "number"
    BY <2>4, TokenFields DEF IsPunctuation
  <2>8. IsPunctuation(j, ")") /\ Closed(j, 1) /\ Closed(j, 2)
    BY <2>6, TokenFields DEF IsPunctuation, Closed, IsOperator
  <2> HIDE DEF v
  <2>9. Read[v] = ReadPrimary(Read, v)
    BY <2>1, BodyOf DEF PrimaryLevel
  <2>10. Read[v] = IF d = MaxDepth THEN Failed
                   ELSE IF Read[w] # Failed /\ IsPunctuation(Read[w].at, ")")
                        THEN Found(Read[w].value, Read[w].at + 1) ELSE Failed
    BY <2>1, <2>7, <2>9 DEF ReadPrimary
  <2>11. CASE d = MaxDepth
    <3>1. ~(d < MaxDepth)
      BY <2>11, ExpressionAssumption
    <3>2. q.meaning[d] = Thrown
      BY <1>1, <3>1
    <3> QED
      BY <2>10, <2>11, <3>2 DEF Resume, v
  <2>12. CASE d # MaxDepth
    <3>1. d < MaxDepth /\ d + 1 \in Depths
      BY <2>12, ExpressionAssumption DEF Depths
    <3>2. q.meaning[d] = x
      BY <1>1, <3>1
    <3>3. x \in Values \cup {Thrown}
      BY <3>1 DEF Phrase
    <3>4. Read[w] = Resume(1, j, d + 1, x)
      <4>1. ReadAt(p, 1)
        BY DEF ReadWell, Phrase
      <4> DEFINE k == i + 1
      <4>2. k \in Nat \ {0} /\ k + Len(p.text) = j /\ 1 + 1 = 2
        BY <1>n
      <4>3. Placed(p.text, k)
        BY <2>3
      <4> HIDE DEF k, j, x
      <4>4. Closed(k + Len(p.text), 1 + 1)
        BY <2>8, <4>2
      <4>5. Read[Visit(1, k, d + 1, NotRead)] = Resume(1, k + Len(p.text), d + 1, p.meaning[d + 1])
        BY <3>1, <4>1, <4>2, <4>3, <4>4 DEF ReadAt
      <4> QED
        BY <4>2, <4>5 DEF k, x
    <3> HIDE DEF x, j
    <3>5. Read[w] = Found(x, j)
      BY <2>5, <2>8, <3>1, <3>3, <3>4, ResumedIsFound
    <3>6. j + 1 = i + n + 2
      BY DEF j
    <3>7. Read[v] = Found(x, j + 1)
      <4>1. CASE x = Thrown
        BY <2>10, <2>12, <3>5, <4>1 DEF Found
      <4>2. CASE x # Thrown
        <5>1. Read[w] # Failed /\ Read[w].at = j /\ Read[w].value = x
          BY <3>5, <4>2 DEF Found, Failed
        <5> QED
          BY <2>8, <2>10, <2>12, <5>1
      <4> QED
        BY <4>1, <4>2
    <3> QED
      BY <3>2, <3>6, <3>7 DEF Resume, UnaryLevel, Found, v
  <2> QED
    BY <2>11, <2>12
<1>7. ReadWell(q)
  BY <1>1, <1>6, ReadFromTop
<1> QED
  BY <1>7 DEF q

(* An operand, in parentheses where it needs them *)
LEMMA GuardedIsRead ==
  ASSUME Text, NEW p, Phrase(p), ReadWell(p), NEW level \in 1..7
  PROVE  ReadWell(Guarded(p, level)) /\ ReadAt(Guarded(p, level), level)
<1>1. ReadWell(Guarded(p, level))
  <2>1. Guarded(p, level) \in {p, Parenthesised(p)}
    BY DEF Guarded
  <2> QED
    BY <2>1, ParenthesisedIsRead
<1>2. Guarded(p, level).level >= level /\ Guarded(p, level).level \in 1..8
  BY GuardedType DEF Phrase
<1> QED
  BY <1>1, <1>2 DEF ReadWell

(* The definition of ReadAt, for uses of it *)
LEMMA ReadThere ==
  ASSUME NEW p, NEW level, ReadAt(p, level), NEW i \in Nat \ {0}, NEW d \in Depths,
         NEW j, j = i + Len(p.text), Placed(p.text, i), NEW next, next = level + 1, Closed(j, next)
  PROVE  Read[Visit(level, i, d, NotRead)] = Resume(level, j, d, p.meaning[d])
BY DEF ReadAt

(* A unary operator takes the operand that follows it. *)
LEMMA PrefixIsRead ==
  ASSUME Text, NEW op \in UnaryOperators, NEW p, Phrase(p), ReadWell(p)
  PROVE  ReadWell(Prefix(op, p))
<1> DEFINE arm == Guarded(p, 7)
           q == Prefix(op, p)
           a == <<Operator(op)>>
<1>1. Phrase(q) /\ q.level = 7 /\ q.text = a \o arm.text
  BY PrefixType
<1>2. \A d \in Depths : q.meaning[d] = ApplyUnary(op, arm.meaning[d])
  <2>1. q.meaning = [d \in Depths |-> ApplyUnary(op, arm.meaning[d])]
    BY PrefixType
  <2> HIDE DEF q, arm
  <2> QED
    BY <2>1
<1>3. Phrase(arm) /\ ReadAt(arm, 7)
  BY GuardedType, GuardedIsRead
<1>4. op \in Unary /\ Operator(op) \in Tokens
  BY ExpressionAssumption, TokensAreTyped DEF Operators
<1>5. a \in Seq(Tokens) /\ Len(a) = 1
  BY <1>4, OneToken
<1>6. arm.text \in Seq(Tokens)
  BY <1>3 DEF Phrase
<1>n. PICK n \in Nat : n = Len(arm.text)
  BY <1>6
<1> HIDE DEF q, arm
<1>7. Len(q.text) = 1 + n
  <2> HIDE DEF a
  <2> QED
    BY <1>n, <1>1, <1>5, <1>6, ConcatType
<1>8. ReadAt(q, 7)
  <2> SUFFICES ASSUME NEW i \in Nat \ {0}, NEW d \in Depths, Placed(q.text, i)
               PROVE  Read[Visit(7, i, d, NotRead)] = Resume(7, i + (1 + n), d, q.meaning[d])
    BY <1>7 DEF ReadAt
  <2> DEFINE v == Visit(7, i, d, NotRead)
             k == i + 1
             w == Visit(7, k, d, NotRead)
             j == i + (1 + n)
             x == arm.meaning[d]
  <2>1. v \in Visits /\ v.level = 7 /\ v.at = i /\ v.depth = d
    BY VisitFields
  <2>2. Placed(a, i) /\ Placed(arm.text, k)
    <3> HIDE DEF a
    <3>1. Placed(arm.text, i + Len(a)) /\ Placed(a, i)
      BY <1>1, <1>5, <1>6, PlacedParts
    <3> QED
      BY <1>5, <3>1
  <2>3. Current(i) = Operator(op)
    BY <1>4, <2>2, OneTokenPlaced
  <2>4. IsOperator(i, Unary) /\ Current(i).value = op
    BY <1>4, <2>3, TokenFields DEF IsOperator
  <2>5. k \in Nat \ {0} /\ j \in Nat \ {0} /\ j = k + n /\ 8 = 7 + 1
    OBVIOUS
  <2>6. x \in Values \cup {Thrown}
    BY <1>3 DEF Phrase
  <2>7. Closed(j, 8)
    BY DEF Closed
  <2> HIDE DEF v, k, x, j
  <2>8. Read[w] = Resume(7, j, d, x)
    <3> DEFINE next == 8
    <3>1. j = k + Len(arm.text) /\ next = 7 + 1 /\ Closed(j, next)
      BY <1>n, <2>5, <2>7
    <3> HIDE DEF next
    <3> QED
      BY <1>3, <2>2, <2>5, <3>1, ReadThere DEF x
  <2>9. Read[w] = Found(x, j)
    BY <2>6, <2>8 DEF Resume, UnaryLevel, Found
  <2>10. Read[v] = ReadUnary(Read, v)
    BY <2>1, BodyOf DEF UnaryLevel
  <2>11. Read[v] = Found(ApplyUnary(op, Read[w].value), Read[w].at)
    BY <2>1, <2>4, <2>10 DEF ReadUnary, UnaryLevel, k
  <2>12. q.meaning[d] = ApplyUnary(op, x)
    BY <1>2 DEF x
  <2>13. CASE x = Thrown
    <3>1. Read[w].value = Thrown
      BY <2>9, <2>13, FailedIsThrown
    <3>2. ApplyUnary(op, Thrown) = Thrown
      BY DEF ApplyUnary
    <3> QED
      BY <2>11, <2>12, <2>13, <3>1, <3>2 DEF Resume, Found, v, j
  <2>14. CASE x # Thrown
    <3>1. Read[w].value = x /\ Read[w].at = j
      BY <2>9, <2>14 DEF Found
    <3> QED
      BY <2>11, <2>12, <3>1 DEF Resume, UnaryLevel, Found, v, j
  <2> QED
    BY <2>13, <2>14
<1>9. ReadWell(q)
  BY <1>1, <1>8, ReadFromTop
<1> QED
  BY <1>9 DEF q

(* The left operand ends before the operator, which is of no higher level; *)
(* the right one ends where the phrase does.                               *)
LEMMA InfixIsRead ==
  ASSUME Text, NEW op \in BinaryOperators, NEW p, NEW q, Phrase(p), Phrase(q),
         ReadWell(p), ReadWell(q)
  PROVE  ReadWell(Infix(op, p, q))
<1> DEFINE L == Level(op)
           left == Guarded(p, L)
           right == Guarded(q, L + 1)
           a == <<Operator(op)>>
           r == Infix(op, p, q)
<1>1. Phrase(r) /\ r.level = L /\ r.text = (left.text \o a) \o right.text
  <2>1. Phrase(r) /\ r.level = L
    BY InfixType
  <2>2. r.text = (left.text \o a) \o right.text
    BY DEF Infix
  <2> QED
    BY <2>1, <2>2
<1>2. \A d \in Depths : r.meaning[d] = Apply(op, left.meaning[d], right.meaning[d])
  <2>1. r.meaning = [d \in Depths |-> Apply(op, left.meaning[d], right.meaning[d])]
    BY DEF Infix
  <2> HIDE DEF r, left, right
  <2> QED
    BY <2>1
<1>3. L \in 1..6 /\ op \in Binary[L] /\ op \in Operators
      /\ \A level \in 1..6 : op \in Binary[level] => level = L
  BY LevelType
<1>4. Phrase(left) /\ ReadAt(left, L) /\ Phrase(right) /\ ReadAt(right, L + 1)
  <2>1. L \in 1..7 /\ L + 1 \in 1..7
    BY <1>3
  <2> HIDE DEF L
  <2> QED
    BY <2>1, GuardedType, GuardedIsRead
<1>5. Operator(op) \in Tokens
  BY <1>3, TokensAreTyped
<1>6. a \in Seq(Tokens) /\ Len(a) = 1
  BY <1>5, OneToken
<1>7. left.text \in Seq(Tokens) /\ right.text \in Seq(Tokens)
  BY <1>4 DEF Phrase
<1>m. PICK m \in Nat : m = Len(left.text)
  BY <1>7
<1>n. PICK n \in Nat : n = Len(right.text)
  BY <1>7
<1> HIDE DEF L, left, right, r
<1>8. /\ left.text \o a \in Seq(Tokens) /\ Len(left.text \o a) = m + 1
      /\ Len(r.text) = (m + 1) + n
  <2> HIDE DEF a
  <2>1. left.text \o a \in Seq(Tokens) /\ Len(left.text \o a) = Len(left.text) + Len(a)
    BY <1>6, <1>7, ConcatType
  <2>2. Len((left.text \o a) \o right.text) = Len(left.text \o a) + Len(right.text)
    BY <1>7, <2>1, ConcatType
  <2> QED
    BY <1>m, <1>n, <1>1, <1>6, <2>1, <2>2, Zenon
<1>9. ReadAt(r, L)
  <2> SUFFICES ASSUME NEW i \in Nat \ {0}, NEW d \in Depths, Placed(r.text, i),
                      Closed(i + ((m + 1) + n), L + 1)
               PROVE  Read[Visit(L, i, d, NotRead)] = Resume(L, i + ((m + 1) + n), d, r.meaning[d])
    BY <1>8 DEF ReadAt
  <2> DEFINE v == Visit(L, i, d, NotRead)
             k == i + m
             x == left.meaning[d]
             u == Visit(L, k, d, x)
             y == right.meaning[d]
             w == Visit(L + 1, k + 1, d, NotRead)
             j == i + ((m + 1) + n)
             value == Apply(op, x, y)
  <2>1. /\ k \in Nat \ {0} /\ j \in Nat \ {0} /\ j = (k + 1) + n
        /\ i + (m + 1) = k + 1 /\ k + 1 \in Nat \ {0}
    OBVIOUS
  <2>2. Placed(left.text, i) /\ Placed(a, k) /\ Placed(right.text, k + 1)
    <3> HIDE DEF a
    <3>1. Placed(left.text \o a, i) /\ Placed(right.text, i + Len(left.text \o a))
      BY <1>1, <1>7, <1>8, PlacedParts
    <3>2. Placed(left.text, i) /\ Placed(a, i + Len(left.text))
      BY <1>6, <1>7, <3>1, PlacedParts
    <3> QED
      BY <1>m, <1>8, <2>1, <3>1, <3>2
  <2>3. x \in Values \cup {Thrown} /\ y \in Values \cup {Thrown}
    BY <1>4 DEF Phrase
  <2>4. r.meaning[d] = value
    BY <1>2
  <2>5. Current(k) = Operator(op)
    BY <1>5, <2>1, <2>2, OneTokenPlaced
  <2>6. IsOperator(k, Binary[L]) /\ Current(k).value = op
    BY <1>3, <2>5, TokenFields DEF IsOperator
  <2>7. Closed(k, L + 1)
    <3>1. \A l \in 1..6 : IsOperator(k, Binary[l]) => l = L
      BY <1>3, <2>6 DEF IsOperator
    <3> QED
      BY <1>3, <3>1 DEF Closed
  <2>8. Closed(j, L + 1) /\ Closed(j, L + 2)
    BY <1>3 DEF Closed
  <2>9. L + 1 + 1 = L + 2 /\ L + 1 \in 1..8
    BY <1>3
  <2> HIDE DEF a, k, x, y, j, value
  <2>10. Read[v] = Resume(L, k, d, x)
    BY <1>m, <1>4, <2>2, <2>7, ReadThere DEF k, x
  <2>11. Read[w] = Resume(L + 1, j, d, y)
    <3>1. j = (k + 1) + Len(right.text) /\ L + 2 = (L + 1) + 1
      BY <1>n, <2>1, <2>9
    <3> DEFINE at == k + 1
               level == L + 1
               next == L + 2
    <3>2. at \in Nat \ {0} /\ Placed(right.text, at) /\ ReadAt(right, level) /\ Closed(j, next)
      BY <1>4, <2>1, <2>2, <2>8
    <3>3. j = at + Len(right.text) /\ next = level + 1
      BY <3>1
    <3> HIDE DEF at, level, next
    <3>4. Read[Visit(level, at, d, NotRead)] = Resume(level, j, d, right.meaning[d])
      BY <3>2, <3>3, ReadThere
    <3> QED
      BY <3>4 DEF at, level, y
  <2>12. Read[w] = Found(y, j)
    BY <2>1, <2>3, <2>8, <2>9, <2>11, ResumedIsFound
  <2>13. value \in Values \cup {Thrown} /\ (Thrown \in {x, y} => value = Thrown)
    <3>1. r.meaning[d] \in Values \cup {Thrown}
      BY <1>1 DEF Phrase
    <3>2. Thrown \in {x, y} => value = Thrown
      BY DEF value, Apply
    <3> QED
      BY <2>4, <3>1, <3>2
  <2>14. CASE x = Thrown
    BY <2>4, <2>10, <2>13, <2>14 DEF Resume, v, j
  <2>15. CASE x # Thrown
    <3>1. u \in Visits /\ u.level = L /\ u.at = k /\ u.depth = d /\ u.left = x
      BY <1>3, <2>1, <2>3, <2>15, VisitFields
    <3>2. u.left # NotRead /\ L < UnaryLevel
      BY <1>3, <2>3, <2>15, <3>1, ValuesAreNoThrown DEF UnaryLevel
    <3>3. Read[v] = Read[u]
      BY <2>10, <2>15, <3>2 DEF Resume
    <3> HIDE DEF u
    <3>4. Read[u] = ReadRest(Read, u)
      BY <3>1, <3>2, BodyOf
    <3>5. Read[u] = IF Apply(op, x, Read[w].value) = Thrown THEN Failed
                    ELSE Read[Visit(L, Read[w].at, d, Apply(op, x, Read[w].value))]
      BY <2>6, <3>1, <3>4 DEF ReadRest, Operand
    <3>6. CASE y = Thrown
      <4>1. Read[w].value = Thrown
        BY <2>12, <3>6, FailedIsThrown
      <4>2. Apply(op, x, Read[w].value) = Thrown
        BY <4>1 DEF Apply
      <4> QED
        BY <2>4, <2>13, <3>3, <3>5, <3>6, <4>2 DEF Resume, v, j
    <3>7. CASE y # Thrown
      <4>1. Read[w].value = y /\ Read[w].at = j
        BY <2>12, <3>7 DEF Found
      <4>2. Read[u] = IF value = Thrown THEN Failed ELSE Read[Visit(L, j, d, value)]
        BY <3>5, <4>1 DEF value
      <4> QED
        BY <2>4, <3>2, <3>3, <4>2 DEF Resume, v, j
    <3> QED
      BY <3>6, <3>7
  <2> QED
    BY <2>14, <2>15
<1>10. ReadWell(r)
  BY <1>1, <1>9, ReadFromTop
<1> QED
  BY <1>10 DEF r

-----------------------------------------------------------------------------
(* What authors write *)
Larger(f, n) ==
  IF n = 0 THEN {Atom(l) : l \in Literals}
  ELSE {Prefix(op, p) : op \in UnaryOperators, p \in f[n - 1]}
       \cup UNION {{Infix(op, p, q) : op \in BinaryOperators, p \in f[k],
                                     q \in f[n - 1 - k]} : k \in 0..n - 1}

Writes(f) == f = [n \in 0..MaxOperators |-> Larger(f, n)]

(* What the definition of Phrases stands for *)
LEMMA PhrasesAreChosen == Phrases = CHOOSE f : Writes(f)
BY DEF Phrases, Writes, Larger

(* Larger phrases depend on smaller ones only. *)
LEMMA LargerIsDetermined ==
  ASSUME NEW f, NEW g, NEW n \in Nat, \A k \in 0..n - 1 : f[k] = g[k]
  PROVE  Larger(f, n) = Larger(g, n)
<1>1. CASE n = 0
  BY <1>1 DEF Larger
<1>2. CASE n # 0
  <2>1. n - 1 \in 0..n - 1 /\ \A k \in 0..n - 1 : n - 1 - k \in 0..n - 1
    BY <1>2
  <2>2. f[n - 1] = g[n - 1]
    BY <2>1
  <2>3. \A k \in 0..n - 1 : f[k] = g[k] /\ f[n - 1 - k] = g[n - 1 - k]
    BY <2>1
  <2> QED
    BY <1>2, <2>2, <2>3 DEF Larger
<1> QED
  BY <1>1, <1>2

(* The definition of Phrases is an equation that holds. *)
LEMMA PhrasesEquation ==
  ASSUME NEW n \in 0..MaxOperators
  PROVE  Phrases[n] = Larger(Phrases, n)
<1> DEFINE C == {m \in Nat : \E f : \A k \in 0..MaxOperators : k < m => f[k] = Larger(f, k)}
<1>1. 0 \in C
  OBVIOUS
<1>2. ASSUME NEW m \in Nat, m \in C PROVE m + 1 \in C
  <2>1. PICK f : \A k \in 0..MaxOperators : k < m => f[k] = Larger(f, k)
    BY <1>2
  <2> DEFINE g == [k \in 0..MaxOperators |-> Larger(f, k)]
  <2>2. ASSUME NEW k \in 0..MaxOperators, k < m + 1 PROVE g[k] = Larger(g, k)
    <3>1. g[k] = Larger(f, k)
      OBVIOUS
    <3>2. \A l \in 0..k - 1 : l \in 0..MaxOperators /\ l < m
      BY <2>2, ExpressionAssumption
    <3>3. \A l \in 0..k - 1 : f[l] = g[l]
      BY <2>1, <3>2
    <3>4. k \in Nat
      OBVIOUS
    <3> HIDE DEF g
    <3>5. Larger(f, k) = Larger(g, k)
      BY <3>3, <3>4, LargerIsDetermined
    <3> QED
      BY <3>1, <3>5
  <2> HIDE DEF g
  <2> QED
    BY <2>2
<1>3. Nat \subseteq C
  <2> HIDE DEF C
  <2> QED
    BY <1>1, <1>2, NatSetInduction
<1>4. MaxOperators + 1 \in C /\ \A k \in 0..MaxOperators : k < MaxOperators + 1
  <2>1. MaxOperators + 1 \in Nat /\ \A k \in 0..MaxOperators : k < MaxOperators + 1
    BY ExpressionAssumption
  <2> HIDE DEF C
  <2> QED
    BY <1>3, <2>1
<1>5. PICK f : \A k \in 0..MaxOperators : f[k] = Larger(f, k)
  BY <1>4
<1> DEFINE g == [k \in 0..MaxOperators |-> f[k]]
<1>6. ASSUME NEW k \in 0..MaxOperators PROVE g[k] = Larger(g, k)
  <2>1. \A l \in 0..k - 1 : f[l] = g[l]
    BY ExpressionAssumption
  <2>2. g[k] = f[k] /\ k \in Nat
    OBVIOUS
  <2> HIDE DEF g
  <2>3. Larger(f, k) = Larger(g, k)
    BY <2>1, <2>2, LargerIsDetermined
  <2> QED
    BY <1>5, <2>2, <2>3
<1>7. g = [k \in 0..MaxOperators |-> Larger(g, k)]
  BY <1>6
<1>8. Writes(g)
  BY <1>7 DEF Writes
<1>9. Writes(Phrases)
  BY <1>8, PhrasesAreChosen
<1> QED
  BY <1>9 DEF Writes

(* Whatever is written is read as what it means. *)
LEMMA PhrasesAreRead ==
  ASSUME NEW n \in 0..MaxOperators, NEW p \in Phrases[n]
  PROVE  Phrase(p) /\ (Text => ReadWell(p))
<1> DEFINE Good(q) == Phrase(q) /\ (Text => ReadWell(q))
           C == {m \in Nat : \A k \in 0..MaxOperators : k < m => \A q \in Phrases[k] : Good(q)}
<1>1. /\ \A l \in Literals : Good(Atom(l))
      /\ \A op \in UnaryOperators : \A q : Good(q) => Good(Prefix(op, q))
      /\ \A op \in BinaryOperators : \A q, r : Good(q) /\ Good(r) => Good(Infix(op, q, r))
  BY AtomType, AtomIsRead, PrefixType, PrefixIsRead, InfixType, InfixIsRead
<1> HIDE DEF Good
<1>2. 0 \in C
  OBVIOUS
<1>3. ASSUME NEW m \in Nat, m \in C PROVE m + 1 \in C
  <2> SUFFICES ASSUME NEW k \in 0..MaxOperators, k < m + 1
               PROVE  \A q \in Phrases[k] : Good(q)
    OBVIOUS
  <2>1. \A l \in 0..k - 1 : l \in 0..MaxOperators /\ l < m
    BY ExpressionAssumption
  <2>2. \A l \in 0..k - 1 : \A q \in Phrases[l] : Good(q)
    BY <1>3, <2>1
  <2> SUFFICES ASSUME NEW q \in Phrases[k] PROVE Good(q)
    OBVIOUS
  <2>3. q \in Larger(Phrases, k)
    BY PhrasesEquation
  <2>4. CASE k = 0
    BY <1>1, <2>3, <2>4 DEF Larger
  <2>5. CASE k # 0
    <3>1. \/ \E op \in UnaryOperators, r \in Phrases[k - 1] : q = Prefix(op, r)
          \/ \E l \in 0..k - 1 :
               \E op \in BinaryOperators, r \in Phrases[l], s \in Phrases[k - 1 - l] :
                 q = Infix(op, r, s)
      BY <2>3, <2>5 DEF Larger
    <3>2. k - 1 \in 0..k - 1 /\ \A l \in 0..k - 1 : k - 1 - l \in 0..k - 1
      BY <2>5
    <3> QED
      BY <1>1, <2>2, <3>1, <3>2
  <2> QED
    BY <2>4, <2>5
<1>4. Nat \subseteq C
  <2> HIDE DEF C
  <2> QED
    BY <1>2, <1>3, NatSetInduction
<1>5. n + 1 \in C /\ n < n + 1
  BY <1>4
<1> QED
  BY <1>5 DEF Good

(* What is written is parsed as what it means. *)
LEMMA ParseIsMeaning ==
  ASSUME written \in UNION {Phrases[n] : n \in 0..MaxOperators}
  PROVE  Parse = written.meaning[0]
<1>1. Phrase(written) /\ (Text => ReadWell(written))
  BY PhrasesAreRead
<1>2. Text
  BY <1>1 DEF Phrase, Text
<1> DEFINE j == 1 + Last
           x == written.meaning[0]
           all == Read[Visit(1, 1, 0, NotRead)]
<1>3. Last \in Nat /\ j \in Nat \ {0} /\ j > Last
  BY <1>2, CurrentType
<1>4. Placed(written.text, 1)
  <2>1. ASSUME NEW k \in 1..Last PROVE Current(1 + k - 1) = written.text[k]
    <3>1. 1 + k - 1 = k /\ k \in Nat \ {0} /\ k <= Last
      BY <1>3
    <3> QED
      BY <1>2, <3>1, CurrentType
  <2> QED
    BY <2>1 DEF Placed, Last
<1>5. Current(j) = Eof
  BY <1>2, <1>3, CurrentType
<1>6. Current(j).type = "eof" /\ Closed(j, 1) /\ Closed(j, 2)
  BY <1>5, TokenFields DEF Closed, IsOperator
<1>7. 0 \in Depths /\ x \in Values \cup {Thrown} /\ written.level \in 1..8
  BY <1>1, ExpressionAssumption DEF Phrase, Depths
<1>8. ReadAt(written, 1)
  BY <1>1, <1>2, <1>7 DEF ReadWell
<1> HIDE DEF j, x
<1>9. all = Resume(1, j, 0, x)
  <2>1. j = 1 + Len(written.text) /\ 2 = 1 + 1
    BY DEF j, Last
  <2> QED
    BY <1>4, <1>6, <1>7, <1>8, <2>1, ReadThere DEF x
<1>10. all = Found(x, j)
  BY <1>2, <1>3, <1>6, <1>7, <1>9, ResumedIsFound
<1> HIDE DEF all
<1>11. Parse = IF all # Failed /\ Current(all.at).type = "eof" THEN all.value ELSE Thrown
  BY DEF Parse, all
<1>12. CASE x = Thrown
  BY <1>10, <1>11, <1>12 DEF Found, x
<1>13. CASE x # Thrown
  <2>1. all # Failed /\ all.at = j /\ all.value = x
    BY <1>10, <1>13 DEF Found, Failed
  <2> QED
    BY <1>6, <1>11, <2>1 DEF x
<1> QED
  BY <1>12, <1>13

-----------------------------------------------------------------------------
(* However large an expression is that tokenize lets pass, whichever       *)
(* operators it has and however deep it goes: what the one pass of         *)
(* safe-expression.service.ts computes is what its author means by it, and *)
(* it throws where a part does, and nowhere else.                          *)
THEOREM ExpressionIsReadAsMeant == ExpressionSpec => []ReadAsMeant
<1> DEFINE Inv == /\ written \in UNION {Phrases[n] : n \in 0..MaxOperators}
                  /\ ReadAsMeant
<1>1. ExpressionInit => Inv
  BY DEF ExpressionInit, ReadAsMeant
<1>2. Inv /\ [ExpressionNext]_expressionVars => Inv'
  <2> SUFFICES ASSUME Inv, [ExpressionNext]_expressionVars PROVE Inv'
    OBVIOUS
  <2>1. CASE Evaluate
    <3>1. Parse = written.meaning[0]
      BY ParseIsMeaning
    <3> QED
      BY <2>1, <3>1 DEF Evaluate, ReadAsMeant
  <2>2. CASE UNCHANGED expressionVars
    <3>1. Phrases' = Phrases
      BY DEF Phrases
    <3> QED
      BY <2>2, <3>1 DEF expressionVars, ReadAsMeant
  <2> QED
    BY <2>1, <2>2 DEF ExpressionNext
<1> QED
  BY <1>1, <1>2, PTL DEF ExpressionSpec

=============================================================================
