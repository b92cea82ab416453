------------------------------- MODULE MCTask -------------------------------
(* Values of the constants of TaskLifecycle for TLC. *)
EXTENDS TaskLifecycle, TLC

CONSTANTS k1, k2, t1, t2, t3, w1, w2, p1, p2

OneClient == [t \in Tasks |-> k1]
ClientEach == [t \in Tasks |-> IF t = t1 THEN k1 ELSE k2]

Internal1 == [k \in ApiKeys |-> "internal"]
Exempt1 == [k \in ApiKeys |-> "exempt"]
InternalExempt == [k \in ApiKeys |-> IF k = k1 THEN "internal" ELSE "exempt"]
InternalExternal == [k \in ApiKeys |-> IF k = k1 THEN "internal" ELSE "external"]

CostTwo == [t \in Tasks |-> 2]
CostThree == [t \in Tasks |-> 3]
BelowZero == [t \in Tasks |-> -3]
BalanceTwo == [k \in ApiKeys |-> 2]
BalanceThree == [k \in ApiKeys |-> 3]
BalanceFive == [k \in ApiKeys |-> 5]
BalanceTen == [k \in ApiKeys |-> 10]

SameKey == [t \in Tasks |-> "key"]
NoKeys == [t \in Tasks |-> None]

-----------------------------------------------------------------------------
AnyPoller == Permutations(Pollers)
AnyWorker == Permutations(Workers)

(* A bound: the tasks of one client are created, or those of another *)
OneClientActive ==
  \A t, u \in Tasks : request[t] # "new" /\ request[u] # "new" => Owner[t] = Owner[u]
=============================================================================
