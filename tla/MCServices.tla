----------------------------- MODULE MCServices -----------------------------
(***************************************************************************)
(* Instances for TLC of the components that stand beside the task path.    *)
(* They do not interact, so a behaviour chooses one of them at the start   *)
(* and the others stay as they begin.                                      *)
(***************************************************************************)
EXTENDS CircuitBreaker, WorkflowGraph, WorkflowQuota, RateSlots, RateWindow,
        ProviderRouting, AccountPool, Notifications, SafeExpression, Pricing

CONSTANTS q1, q2, q3, k1, k2, b1

VARIABLE part  \* the component this behaviour is about

To(p, share) == [provider |-> p, share |-> share]

Routed(strategy, apiKey, priority, targets) ==
  [strategy_type |-> strategy, apiKey |-> apiKey, priority |-> priority, targets |-> targets]

(* Every strategy, rules that cannot be resolved, ties and a client's own *)
MCRuleSets ==
  { {Routed("weighted", Unset, 0, <<To(q1, 1), To(q2, 2), To(q3, 3)>>)},
    {Routed("latency", Unset, 1, <<To(q1, 0), To(q2, 0), To(q3, 0)>>),
     Routed("fixed", k1, 0, <<To(q2, 0)>>)},
    {Routed("cost", Unset, 1, <<To(q1, 1), To(q2, 1), To(q3, 2)>>),
     Routed("latency", Unset, 2, <<To(q1, 0)>>)},
    {Routed("primary_fallback", Unset, 0, <<To(q1, 2), To(q2, 1)>>),
     Routed("primary_fallback", k1, 0, <<To(q1, 1)>>),
     Routed("weighted", k1, 2, <<To(q2, 0)>>)} }

MCWeights == <<1, 1, 2>>
MCHasCooldown == <<TRUE, FALSE>>
MCMaxCount == <<1, 1>>

MCQuantities == {-1, 0, 2}

(* The first has a price as it was written before prices were in tiers *)
PerSecond == [type |-> "duration", credit |-> 0, flat |-> 3]
MCModelConfigs ==
  {PerSecond, [type |-> "duration", credit |-> 2, flat |-> 1],
   [type |-> "count", credit |-> 1, flat |-> 0]}

servicesVars == <<part, breakerVars, graphVars, quotaVars, slotsVars, windowVars,
                  routingVars, poolVars, notificationVars, expressionVars, pricingVars>>

ServicesInit ==
  /\ part \in {"breaker", "graph", "quota", "slots", "window", "routing", "pool",
              "notifications", "expression", "pricing"}
  /\ BreakerInit /\ SlotsInit /\ WindowInit /\ PoolInit /\ NotificationInit
  /\ IF part = "graph" THEN GraphInit ELSE GraphStart /\ edges = {} /\ flawed = FALSE
  /\ QuotaInit /\ (behind => part = "quota")
  /\ RoutingInit /\ (part # "routing" => rules = CHOOSE rs \in RuleSets : TRUE)
  /\ IF part = "expression" THEN ExpressionInit
     ELSE written = Atom(CHOOSE n \in Literals : TRUE) /\ result = Pending
  /\ PricingInit /\ modelConfig = PerSecond
  /\ \A b \in Bills : part # "pricing" \/ b # b1 => quantity[b] = Missing

ServicesNext ==
  /\ UNCHANGED part
  /\ IF part = "breaker" THEN BreakerNext ELSE UNCHANGED breakerVars
  /\ IF part = "graph" THEN GraphNext ELSE UNCHANGED graphVars
  /\ IF part = "quota" THEN QuotaNext ELSE UNCHANGED quotaVars
  /\ IF part = "slots" THEN SlotsNext ELSE UNCHANGED slotsVars
  /\ IF part = "window" THEN WindowNext ELSE UNCHANGED windowVars
  /\ IF part = "routing" THEN RoutingNext ELSE UNCHANGED routingVars
  /\ IF part = "pool" THEN PoolNext ELSE UNCHANGED poolVars
  /\ IF part = "notifications" THEN NotificationNext ELSE UNCHANGED notificationVars
  /\ IF part = "expression" THEN ExpressionNext ELSE UNCHANGED expressionVars
  /\ IF part = "pricing" THEN PricingNext ELSE UNCHANGED pricingVars

(* The fairness of each component, while the behaviour is about it *)
ServicesFair ==
  /\ \A p \in Processes :
       /\ WF_breakerVars(part = "breaker" /\ Proceed(p))
       /\ WF_breakerVars(part = "breaker" /\ ForgetCopy(p))
  /\ WF_breakerVars(part = "breaker" /\ CoolDown)
  /\ WF_breakerVars(part = "breaker" /\ Expire /\ Quiet)
  /\ WF_notificationVars(part = "notifications" /\ \E n \in Notifiers : ReceiveEvent(n) \/ Handle(n))
  /\ \A j \in Jobs : WF_notificationVars(part = "notifications" /\ HandleDispatch(j))
  /\ \A r \in RuleIds :
       /\ WF_notificationVars(part = "notifications" /\ EndCooldown(r))
       /\ WF_notificationVars(part = "notifications" /\ LeaveWindow(r))

ServicesSpec == ServicesInit /\ [][ServicesNext]_servicesVars /\ ServicesFair
=============================================================================
