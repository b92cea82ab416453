-------------------------------- MODULE Escrow ------------------------------
(***************************************************************************)
(* What billing promises a client about each task, with no word about      *)
(* records, retries or processes.  A prepaid task's estimate is set aside  *)
(* once and given back once: before it is charged, or instead.  A task is  *)
(* charged at most once, never after a refund, and only from what is left  *)
(* after everybody's deposits.                                             *)
(***************************************************************************)
EXTENDS HubParams

VARIABLES
  account,    \* account[k] : what client k has, and how much is set aside
  deal        \* deal[t] : how task t stands with its client

Deals == {"none", "reserved", "unsecured", "owed", "charged", "waived"}

EscrowInit ==
  /\ account = [k \in ApiKeys |-> [total |-> OpeningBalance[k], aside |-> 0]]
  /\ deal = [t \in Tasks |-> "none"]

Free(k) == account[k].total - account[k].aside

Agree(t, from, to) == deal[t] \in from /\ deal' = [deal EXCEPT ![t] = to]

(* The estimate is set aside *)
Reserve(t) ==
  /\ Agree(t, {"none"}, "reserved")
  /\ Free(Owner[t]) >= EstimatedCost[t]
  /\ account' = [account EXCEPT ![Owner[t]].aside = @ + EstimatedCost[t]]

(* A task nothing is set aside for *)
OpenUnsecured(t) == Agree(t, {"none"}, "unsecured") /\ UNCHANGED account

(* The estimate is given back, the actual cost being owed or waived *)
GiveBack(t) ==
  /\ Agree(t, {"reserved"}, "owed") \/ Agree(t, {"reserved"}, "waived")
  /\ account' = [account EXCEPT ![Owner[t]].aside = @ - EstimatedCost[t]]

Charge(t) ==
  /\ Agree(t, {"owed", "unsecured"}, "charged")
  /\ Free(Owner[t]) >= ActualCost[t]
  /\ account' = [account EXCEPT ![Owner[t]].total = @ - ActualCost[t]]

(* An unsecured task is refunded, or could not pay when it was due *)
Resolve(t) ==
  /\ Agree(t, {"unsecured"}, "waived") \/ Agree(t, {"unsecured"}, "owed")
  /\ UNCHANGED account

Deposit(k) ==
  /\ \E a \in Credits : account' = [account EXCEPT ![k].total = @ + a]
  /\ UNCHANGED deal

EscrowNext ==
  \/ \E t \in Tasks : Reserve(t) \/ OpenUnsecured(t) \/ GiveBack(t) \/ Charge(t) \/ Resolve(t)
  \/ \E k \in ApiKeys : Deposit(k)

EscrowSpec == EscrowInit /\ [][EscrowNext]_<<account, deal>>
=============================================================================
