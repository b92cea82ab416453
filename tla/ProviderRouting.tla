-------------------------- MODULE ProviderRouting --------------------------
(***************************************************************************)
(* ProviderRoutingService.tryResolveFromRules: which provider a request is *)
(* for.  The rule is chosen first, then the circuit breakers and the       *)
(* latencies of its targets are read, all at once, and they may change     *)
(* between the first answer and the last.                                  *)
(***************************************************************************)
EXTENDS Integers, Sequences, FiniteSetsExt

CONSTANTS
  RuleSets,   \* sets of rules of one model that are enabled and in effect
  Providers,
  Keys,       \* apiKey of the clients
  Hashes,     \* of apiKey, model and rule, before the modulo of stableBucket
  Latencies,  \* that may be measured, the default for few samples among them
  Unset

(* ModelRoutingRule.  A target's share is its weight, or, for "cost", its  *)
(* price; the targets of "primary_fallback" are the primary and, if there  *)
(* is one, the fallback.                                                   *)
Rule == [strategy_type : {"fixed", "weighted", "primary_fallback", "latency", "cost"},
         apiKey : Keys \cup {Unset}, priority : Nat,
         targets : Seq([provider : Providers, share : Nat])]

ASSUME RoutingAssumption ==
  /\ IsFiniteSet(Providers) /\ Unset \notin Providers
  /\ Hashes \subseteq Nat /\ Latencies \subseteq Nat
  /\ \A rs \in RuleSets : rs \subseteq Rule
  /\ \A rs \in RuleSets : \A r \in rs :
       r.strategy_type = "primary_fallback" => Len(r.targets) <= 2

VARIABLES
  rules,
  breaker,   \* breaker[p] : its state, as this process sees it
  decision,  \* the request in hand
  shut       \* history: the providers OPEN ever since the request came

routingVars == <<rules, breaker, decision, shut>>

States == {"CLOSED", "OPEN", "HALF_OPEN"}

NoDecision == [pc |-> "idle", apiKey |-> Unset, rule |-> Unset, hash |-> 0,
               seen |-> <<>>, picked |-> Unset]

(* seen[i] : what was read of the i-th target so far *)
RoutingType ==
  /\ rules \in RuleSets
  /\ breaker \in [Providers -> States]
  /\ decision.pc \in {"idle", "reading", "probing", "done"}
  /\ decision.pc \in {"reading", "probing"} =>
       /\ decision.rule \in rules
       /\ \A i \in DOMAIN decision.seen :
            /\ i \in DOMAIN decision.rule.targets
            /\ decision.seen[i] \in [state : States, latency : Latencies \cup {0}]
  /\ shut \subseteq Providers

-----------------------------------------------------------------------------
(* pickWeighted: i is the target the bucket falls on *)

Shares(targets) == [i \in DOMAIN targets |-> targets[i].share]

UpTo(targets, i) == MapThenSumSet(LAMBDA j : Shares(targets)[j], 1..i)

(* Mutant of FallsBelow: <= instead of < *)
FallsAtMost(bucket, sum) == bucket <= sum

FallsBelow(bucket, sum) == bucket < sum

PickWeighted(targets, hash) ==
  LET sum == UpTo(targets, Len(targets))
  IN IF sum = 0 THEN targets[1].provider
     ELSE targets[Min({i \in DOMAIN targets :
                         FallsBelow(hash % sum, UpTo(targets, i))})].provider

-----------------------------------------------------------------------------
(* canResolveRule; normalizeWeightedTargets drops targets without weight *)
HaveWeight(r) == {i \in DOMAIN r.targets : r.targets[i].share > 0}

CanResolve(r) ==
  CASE r.strategy_type = "weighted" -> HaveWeight(r) # {}
    [] r.strategy_type = "latency" -> Len(r.targets) >= 2
    [] OTHER -> r.targets # <<>>

Specific(r, apiKey) == r.apiKey = apiKey

Candidates(apiKey) ==
  {r \in rules : r.apiKey \in {Unset, apiKey} /\ CanResolve(r)}

(* Of the rules for this client, or else of those for every client, one of *)
(* the highest priority                                                    *)
TopRules(apiKey) ==
  {r \in Candidates(apiKey) : \A q \in Candidates(apiKey) :
     /\ Specific(q, apiKey) => Specific(r, apiKey)
     /\ (Specific(q, apiKey) <=> Specific(r, apiKey)) => q.priority <= r.priority}

(* Whose state is read *)
ToRead(r) ==
  CASE r.strategy_type = "primary_fallback" -> {1}
    [] r.strategy_type = "weighted" -> HaveWeight(r)
    [] OTHER -> DOMAIN r.targets

-----------------------------------------------------------------------------
(* resolveProviderForRule, once everything is read *)

(* Mutant of NotOpen: the state is not looked at *)
NotOpenOrOpen(d, i) == TRUE

NotOpen(d, i) == d.seen[i].state # "OPEN"

Available(d) == {i \in DOMAIN d.seen : NotOpen(d, i)}

(* The targets numbered in S, in the order of the rule *)
Those(targets, S) ==
  LET nth(k) == CHOOSE i \in S : Cardinality({j \in S : j < i}) = k - 1
  IN [k \in 1..Cardinality(S) |-> targets[nth(k)]]

Least(S, value(_)) == {i \in S : \A j \in S : value(i) <= value(j)}

(* lowest...Candidates[stableBucket(seed, length)] *)
PickEven(d, S) == Those(d.rule.targets, S)[1 + (d.hash % Cardinality(S))].provider

Fastest(d, S) == Least(S, LAMBDA i : d.seen[i].latency)
Cheapest(d, S) == Least(S, LAMBDA i : d.rule.targets[i].share)

Resolve(d) ==
  IF Available(d) = {} THEN Unset
  ELSE CASE d.rule.strategy_type = "latency" -> PickEven(d, Fastest(d, Available(d)))
         [] d.rule.strategy_type = "cost" ->
              PickEven(d, Fastest(d, Cheapest(d, Available(d))))
         [] OTHER -> PickWeighted(Those(d.rule.targets, Available(d)), d.hash)

(* resolvePrimaryFallbackWithCircuitBreaker *)
Fallback(r) == IF Len(r.targets) > 1 THEN r.targets[2].provider ELSE Unset

(* buildPrimaryFallbackTargets: without a weight of its own the fallback   *)
(* is for failures only                                                    *)
PrimaryOrShare(d) ==
  IF Fallback(d.rule) = Unset \/ d.rule.targets[2].share = 0
  THEN d.rule.targets[1].provider ELSE PickWeighted(d.rule.targets, d.hash)

-----------------------------------------------------------------------------
Picks(p) == decision' = [decision EXCEPT !.pc = "done", !.picked = p]

(* A request without a usable rule goes to the provider of the model's     *)
(* configuration, as one whose rule finds no provider                      *)
Route ==
  /\ decision.pc \in {"idle", "done"}
  /\ \E k \in Keys, h \in Hashes :
       LET begun == [NoDecision EXCEPT !.apiKey = k, !.hash = h] IN
       \/ /\ TopRules(k) = {}
          /\ decision' = [begun EXCEPT !.pc = "done"]
       \/ \E r \in TopRules(k) :
            decision' = IF r.strategy_type = "fixed"
                        THEN [begun EXCEPT !.pc = "done", !.rule = r,
                                           !.picked = r.targets[1].provider]
                        ELSE [begun EXCEPT !.pc = "reading", !.rule = r]
  /\ shut' = {p \in Providers : breaker[p] = "OPEN"}
  /\ UNCHANGED <<rules, breaker>>

ReadTarget(i) ==
  /\ decision.pc = "reading" /\ i \in ToRead(decision.rule) \ DOMAIN decision.seen
  /\ \E l \in IF decision.rule.strategy_type \in {"latency", "cost"} THEN Latencies ELSE {0} :
       LET now == [state |-> breaker[decision.rule.targets[i].provider], latency |-> l]
       IN decision' = [decision EXCEPT !.seen =
            [j \in DOMAIN @ \cup {i} |-> IF j = i THEN now ELSE @[j]]]
  /\ UNCHANGED <<rules, breaker, shut>>

Decide ==
  /\ decision.pc = "reading" /\ DOMAIN decision.seen = ToRead(decision.rule)
  /\ IF decision.rule.strategy_type # "primary_fallback" THEN Picks(Resolve(decision))
     ELSE \/ /\ decision.seen[1].state = "CLOSED"
             /\ Picks(PrimaryOrShare(decision))
          \/ /\ decision.seen[1].state = "OPEN"
             /\ Picks(Fallback(decision.rule))
          \/ /\ decision.seen[1].state = "HALF_OPEN"
             /\ decision' = [decision EXCEPT !.pc = "probing"]
  /\ UNCHANGED <<rules, breaker, shut>>

(* allowRequest reads the state again *)
Probe ==
  /\ decision.pc = "probing"
  /\ \/ /\ breaker[decision.rule.targets[1].provider] # "OPEN"
        /\ Picks(decision.rule.targets[1].provider)
     \/ /\ breaker[decision.rule.targets[1].provider] # "CLOSED"
        /\ Picks(Fallback(decision.rule))
  /\ UNCHANGED <<rules, breaker, shut>>

BreakerMoves(p) ==
  /\ \E s \in States \ {breaker[p]} : breaker' = [breaker EXCEPT ![p] = s]
  /\ shut' = shut \ {p}
  /\ UNCHANGED <<rules, decision>>

-----------------------------------------------------------------------------
RoutingInit ==
  /\ rules \in RuleSets
  /\ breaker = [p \in Providers |-> "CLOSED"]
  /\ decision = NoDecision
  /\ shut = {}

RoutingNext ==
  \/ Route \/ Decide \/ Probe
  \/ decision.pc = "reading" /\ \E i \in DOMAIN decision.rule.targets : ReadTarget(i)
  \/ \E p \in Providers : BreakerMoves(p)

RoutingSpec == RoutingInit /\ [][RoutingNext]_routingVars

-----------------------------------------------------------------------------
Balanced == {"weighted", "latency", "cost"}

(* getState and the filters of the strategies: a provider whose breaker    *)
(* was open during the whole of a decision is not chosen, but for a fixed  *)
(* one and a fallback, which nobody checks.  And nothing is chosen only    *)
(* when every target was seen open.                                        *)
OpenIsAvoided ==
  decision.pc = "done" /\ decision.rule # Unset =>
    /\ decision.picked \in shut =>
         \/ decision.rule.strategy_type = "fixed"
         \/ /\ decision.rule.strategy_type = "primary_fallback"
            /\ decision.picked = Fallback(decision.rule)
    /\ decision.picked = Unset => \A i \in DOMAIN decision.seen :
         \/ decision.seen[i].state = "OPEN"
         \/ decision.seen[i].state = "HALF_OPEN" /\ Fallback(decision.rule) = Unset

(* "the remaining providers share by their original weights": over all     *)
(* hashes each target that is not open gets exactly its weight of the      *)
(* buckets, and none of the others gets any.                               *)
SharesAreWeights ==
  decision.pc = "done" /\ decision.rule # Unset /\ decision.rule.strategy_type = "weighted"
    /\ decision.picked # Unset =>
      LET targets == decision.rule.targets
          weight == Shares(targets)
          sharing == {i \in DOMAIN decision.seen : decision.seen[i].state # "OPEN"}
          sum == MapThenSumSet(LAMBDA i : weight[i], sharing)
      IN \A p \in Providers :
           Cardinality({h \in 0..sum - 1 : Resolve([decision EXCEPT !.hash = h]) = p})
             = MapThenSumSet(LAMBDA i : weight[i], {i \in sharing : targets[i].provider = p})
=============================================================================
