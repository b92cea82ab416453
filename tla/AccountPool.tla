---------------------------- MODULE AccountPool ----------------------------
(***************************************************************************)
(* AccountPoolService.selectAccount for one provider, in one process: each *)
(* account has a score from its own circuit breaker; the best one is used  *)
(* while there is one that scores enough, and else they take turns by      *)
(* their weights.  The breaker's key is open for a while and then gone;    *)
(* the half-open state is only entered from health_status in the database, *)
(* which nothing sets to open, and is left out.                            *)
(***************************************************************************)
EXTENDS Integers, FiniteSetsExt

CONSTANTS
  PoolSize,          \* accounts are numbered in the order of the snapshot
  Weights,           \* Weights[a]
  FailureThreshold,
  MinScore,          \* availability_threshold, in FailureThreshold-ths
  Callers            \* requests to the provider at the same time

Pool == 1..PoolSize

ASSUME PoolAssumption ==
  /\ PoolSize \in Nat /\ Weights \in [Pool -> Nat \ {0}]
  /\ FailureThreshold \in Nat \ {0} /\ MinScore \in 1..FailureThreshold

VARIABLES
  open,            \* accounts whose state key is there
  failures,        \* failures[a] : of a within the window; bound: not more
                   \* than the threshold, and each may be forgotten any time
  currentWeights,
  serving          \* serving[c] : what the request c is doing

poolVars == <<open, failures, currentWeights, serving>>

Waiting == [pc |-> "idle", account |-> 0, candidates |-> {}, score |-> <<>>]

PoolType ==
  /\ open \subseteq Pool
  /\ failures \in [Pool -> 0..FailureThreshold]
  /\ currentWeights \in [Pool -> Int]
  /\ \A c \in Callers :
       /\ serving[c].pc \in {"idle", "scoring", "sent", "failed", "tripping"}
       /\ serving[c].account \in Pool \cup {0} /\ serving[c].candidates \subseteq Pool
       /\ DOMAIN serving[c].score \subseteq Pool

-----------------------------------------------------------------------------
(* getAvailabilityScore *)
Availability(a) == IF a \in open THEN 0 ELSE FailureThreshold - failures[a]

(* CompositeScoreStrategy.pickBest: the first of the best, and 0 for null. *)
(* No cost is ever reported, so that all cost scores are equal.            *)
PickBest(score) ==
  LET eligible == {a \in DOMAIN score : score[a] >= MinScore}
  IN IF eligible = {} THEN 0
     ELSE Min({a \in eligible : \A b \in eligible : score[b] <= score[a]})

(* WeightedRoundRobinStrategy.select *)
Raised(S) == [a \in Pool |-> IF a \in S THEN currentWeights[a] + Weights[a]
                             ELSE currentWeights[a]]

Winner(S) == Min({a \in S : \A b \in S : Raised(S)[b] <= Raised(S)[a]})

(* Mutant of Turn: the winner gives up its own weight only *)
TurnOwn(S) == [Raised(S) EXCEPT ![Winner(S)] = @ - Weights[Winner(S)]]

(* The winner gives up the weight of all *)
Turn(S) == [Raised(S) EXCEPT ![Winner(S)] = @ - MapThenSumSet(LAMBDA a : Weights[a], S)]

-----------------------------------------------------------------------------
(* getActiveAccounts: any of them, as the administrators leave them.       *)
(* A single one is used whatever its score; without any the request goes   *)
(* on without credentials or fails.                                        *)
Select(c) ==
  /\ serving[c].pc = "idle"
  /\ \E active \in (SUBSET Pool) \ {{}} :
       serving' = [serving EXCEPT ![c] =
         IF Cardinality(active) = 1
         THEN [Waiting EXCEPT !.pc = "sent", !.account = Min(active)]
         ELSE [Waiting EXCEPT !.pc = "scoring", !.candidates = active]]
  /\ UNCHANGED <<open, failures, currentWeights>>

(* enrichWithAvailabilityScores asks for all of them at once, over one     *)
(* connection, so that they are answered in order                          *)
Unread(c) == serving[c].candidates \ DOMAIN serving[c].score

Score(c) ==
  /\ serving[c].pc = "scoring" /\ Unread(c) # {}
  /\ LET a == Min(Unread(c))
     IN serving' = [serving EXCEPT ![c].score =
          [b \in DOMAIN @ \cup {a} |-> IF b = a THEN Availability(a) ELSE @[b]]]
  /\ UNCHANGED <<open, failures, currentWeights>>

Sends(c, a) == serving' = [serving EXCEPT ![c] = [Waiting EXCEPT !.pc = "sent", !.account = a]]

Choose(c) ==
  /\ serving[c].pc = "scoring" /\ Unread(c) = {}
  /\ \/ /\ PickBest(serving[c].score) # 0
        /\ Sends(c, PickBest(serving[c].score))
        /\ UNCHANGED currentWeights
     \/ /\ PickBest(serving[c].score) = 0
        /\ Sends(c, Winner(serving[c].candidates))
        /\ currentWeights' = Turn(serving[c].candidates)
  /\ UNCHANGED <<open, failures>>

-----------------------------------------------------------------------------
(* reportResult.  A success changes nothing; nor does a failure of an open *)
(* account.                                                                *)
Answer(c) ==
  /\ serving[c].pc = "sent"
  /\ \/ serving' = [serving EXCEPT ![c] = Waiting]
     \/ /\ serving[c].account \notin open
        /\ serving' = [serving EXCEPT ![c].pc = "failed"]
  /\ UNCHANGED <<open, failures, currentWeights>>

AddFailure(c) ==
  LET a == serving[c].account
  IN /\ serving[c].pc = "failed"
     /\ failures' = [failures EXCEPT ![a] = Min({@ + 1, FailureThreshold})]
     /\ serving' = [serving EXCEPT ![c] =
          IF failures'[a] >= FailureThreshold THEN [@ EXCEPT !.pc = "tripping"] ELSE Waiting]
     /\ UNCHANGED <<open, currentWeights>>

TransitionToOpen(c) ==
  /\ serving[c].pc = "tripping"
  /\ open' = open \cup {serving[c].account}
  /\ serving' = [serving EXCEPT ![c] = Waiting]
  /\ UNCHANGED <<failures, currentWeights>>

ForgetOpen(a) ==
  /\ a \in open
  /\ open' = open \ {a}
  /\ UNCHANGED <<failures, currentWeights, serving>>

ForgetFailure(a) ==
  /\ failures[a] > 0
  /\ failures' = [failures EXCEPT ![a] = @ - 1]
  /\ UNCHANGED <<open, currentWeights, serving>>

-----------------------------------------------------------------------------
PoolInit ==
  /\ open = {}
  /\ failures = [a \in Pool |-> 0]
  /\ currentWeights = [a \in Pool |-> 0]
  /\ serving = [c \in Callers |-> Waiting]

PoolNext ==
  \/ \E a \in Pool : ForgetOpen(a) \/ ForgetFailure(a)
  \/ \E c \in Callers : \/ Select(c) \/ Score(c) \/ Choose(c) \/ Answer(c) \/ AddFailure(c)
                        \/ TransitionToOpen(c)

PoolSpec == PoolInit /\ [][PoolNext]_poolVars

-----------------------------------------------------------------------------
(* "distributes requests proportionally to each account's weight": however *)
(* accounts come and go between the turns, what they have been given too   *)
(* much and too little adds up to nothing, and no account is ever further  *)
(* ahead or behind than the largest weight for each of the other accounts. *)
DebtIsBounded ==
  LET most == (PoolSize - 1) * Max({Weights[a] : a \in Pool})
  IN /\ MapThenSumSet(LAMBDA a : currentWeights[a], Pool) = 0
     /\ \A a \in Pool : -most <= currentWeights[a] /\ currentWeights[a] <= most
=============================================================================
