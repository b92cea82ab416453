------------------------------ MODULE HubParams -----------------------------
(***************************************************************************)
(* What the modules of the task path share: the population of one bounded  *)
(* deployment of model-hub (clients, tasks, running handlers), the prices, *)
(* and the faults and uses the environment is allowed.                     *)
(***************************************************************************)
EXTENDS Integers

CONSTANTS
  ApiKeys,        \* the clients; billing and wallets are per API key
  Tasks,          \* task ids; POST /tasks mints a fresh one per request, so
                  \* a task id also stands for the request that creates it
  Workers,        \* the slots in which the worker process runs Bull jobs
  Pollers,        \* the cron handlers that may be in flight at one time
  None,           \* no idempotency key, no lock holder
  Owner,          \* the API key of each task
  Policy,         \* the billing policy of each API key
  Prepaid,        \* the tasks priced by count or duration, not by token
  EstimatedCost,  \* of each task, from PricingService.estimate
  ActualCost,     \* of each task, unitPrice * actual usage
  OpeningBalance, \* of each API key's wallet
  Credits,        \* the sums the administrator adds to a wallet
  Environment     \* what may happen besides the normal operations

(* crash: a process dies between two awaits.  storeError: a call to        *)
(* MongoDB or Redis throws.  overrun: a handler outlives its lease, that   *)
(* is the 30s polling lock or the 60s Bull timeout.  The others are uses.  *)
Possibilities ==
  {"crash", "storeError", "overrun", "cancel", "reprioritise", "topUp"}

(* The code that may have a billing call in flight *)
Callers == Tasks \cup Workers \cup Pollers

Policies == {"internal", "external", "exempt", "unset"}

(* Amounts are integers (of a smallest unit of money).  A credit is        *)
(* validated to be positive.  A cost is not: the quantity it is a multiple *)
(* of comes from the client, who may send a negative one to a model that   *)
(* declares no parameters.                                                 *)
ASSUME MoneyAssumption ==
  /\ Credits \subseteq Nat \ {0}
  /\ EstimatedCost \in [Tasks -> Int]
  /\ ActualCost \in [Tasks -> Int]
  /\ OpeningBalance \in [ApiKeys -> Nat]

ASSUME PopulationAssumption ==
  /\ Owner \in [Tasks -> ApiKeys]
  /\ Policy \in [ApiKeys -> Policies]
  /\ Prepaid \subseteq Tasks
  /\ Environment \subseteq Possibilities
  /\ Workers \cap Pollers = {}
  /\ Tasks \cap (Workers \cup Pollers) = {}
  /\ None \notin Tasks \cup Workers \cup Pollers
=============================================================================
