---------------------------- MODULE Notifications ----------------------------
(***************************************************************************)
(* NotificationService.processEvent: an event that matches rules goes      *)
(* through the cooldown and the window of each of them in turn, and is     *)
(* queued for the channel of the rule or suppressed.  Events of one type   *)
(* may be handled by several processes at once.                            *)
(***************************************************************************)
EXTENDS Integers, FiniteSets

CONSTANTS
  NumRules,    \* the enabled rules that match the event, in their order
  HasCooldown, \* HasCooldown[r] : cooldownMs > 0
  MaxPerWindow,    \* MaxPerWindow[r] : maxCountPerWindow, 0 for no limit
  Notifiers,   \* processes that handle an event
  Jobs,        \* bound: jobs in the queue at the same time
  MaxAttempts,
  MaxErrors    \* bound on operations on the stores that fail

RuleIds == 1..NumRules

ASSUME NotificationAssumption ==
  /\ NumRules \in Nat \ {0} /\ MaxAttempts \in Nat \ {0} /\ MaxErrors \in Nat
  /\ HasCooldown \in [RuleIds -> BOOLEAN] /\ MaxPerWindow \in [RuleIds -> Nat]
  /\ IsFiniteSet(Notifiers)

VARIABLES
  cooling,   \* rules whose cooldown key is there
  counted,   \* counted[r] : entries of the window of r
  notifier,  \* notifier[n] : what n does with its event
  dispatch,  \* dispatch[j] : the rule of a job and the attempts it has had
  errors

notificationVars == <<cooling, counted, notifier, dispatch, errors>>

NoEvent == [pc |-> "idle", rule |-> 0]
NoJob == [rule |-> 0, attempts |-> 0]

NotificationType ==
  /\ cooling \subseteq RuleIds
  /\ counted \in [RuleIds -> Nat]
  /\ notifier \in [Notifiers -> [pc : {"idle", "cooldown", "window", "add", "enqueue"},
                                 rule : RuleIds \cup {0}]]
  /\ dispatch \in [Jobs -> [rule : RuleIds \cup {0}, attempts : 0..MaxAttempts]]
  /\ errors \in 0..MaxErrors

Does(n, pc) == notifier[n].pc = pc

Continue(n, pc) == notifier' = [notifier EXCEPT ![n].pc = pc]

(* This rule is done with *)
NextRule(n) ==
  notifier' = [notifier EXCEPT ![n] =
    IF @.rule = NumRules THEN NoEvent ELSE [pc |-> "cooldown", rule |-> @.rule + 1]]

-----------------------------------------------------------------------------
ReceiveEvent(n) ==
  /\ Does(n, "idle")
  /\ notifier' = [notifier EXCEPT ![n] = [pc |-> "cooldown", rule |-> 1]]
  /\ UNCHANGED <<cooling, counted, dispatch, errors>>

(* isInCooldown: SET NX.  The key is taken before it is known whether the  *)
(* window lets the event pass.                                             *)
CheckCooldown(n) ==
  LET r == notifier[n].rule
  IN /\ Does(n, "cooldown")
     /\ \/ /\ HasCooldown[r] /\ r \in cooling
           /\ NextRule(n)
           /\ UNCHANGED cooling
        \/ /\ HasCooldown[r] /\ r \notin cooling
           /\ cooling' = cooling \cup {r}
           /\ Continue(n, "window")
        \/ /\ ~HasCooldown[r]
           /\ Continue(n, "window")
           /\ UNCHANGED cooling
     /\ UNCHANGED <<counted, dispatch, errors>>

(* Mutant of AfterRefusal: as in RateLimiterService, where refused         *)
(* requests count                                                          *)
AfterRefusalCounted(r) == [counted EXCEPT ![r] = MaxPerWindow[r] + 1]

AfterRefusal(r) == counted

(* checkAndIncrement *)
CheckWindow(n) ==
  LET r == notifier[n].rule
  IN /\ Does(n, "window")
     /\ \/ /\ MaxPerWindow[r] = 0
           /\ Continue(n, "enqueue")
           /\ UNCHANGED counted
        \/ /\ MaxPerWindow[r] > 0 /\ counted[r] >= MaxPerWindow[r]
           /\ counted' = AfterRefusal(r)
           /\ NextRule(n)
        \/ /\ MaxPerWindow[r] > 0 /\ counted[r] < MaxPerWindow[r]
           /\ Continue(n, "add")
           /\ UNCHANGED counted
     /\ UNCHANGED <<cooling, dispatch, errors>>

AddToWindow(n) ==
  /\ Does(n, "add")
  /\ counted' = [counted EXCEPT ![notifier[n].rule] = @ + 1]
  /\ Continue(n, "enqueue")
  /\ UNCHANGED <<cooling, dispatch, errors>>

Enqueue(n) ==
  /\ Does(n, "enqueue")
  /\ \E j \in Jobs :
       /\ dispatch[j] = NoJob
       /\ dispatch' = [dispatch EXCEPT ![j] = [rule |-> notifier[n].rule, attempts |-> 0]]
  /\ NextRule(n)
  /\ UNCHANGED <<cooling, counted, errors>>

(* A failing limiter lets the event pass; when a record or a job cannot be *)
(* written, the rules that are left are not looked at.                     *)
Fail(n) ==
  /\ errors < MaxErrors /\ ~Does(n, "idle")
  /\ errors' = errors + 1
  /\ \/ Does(n, "cooldown") /\ Continue(n, "window")
     \/ notifier[n].pc \in {"window", "add"} /\ Continue(n, "enqueue")
     \/ notifier' = [notifier EXCEPT ![n] = NoEvent]
  /\ UNCHANGED <<cooling, counted, dispatch>>

(* handleDispatch: the channel takes the notification or not *)
HandleDispatch(j) ==
  /\ dispatch[j] # NoJob
  /\ \/ dispatch' = [dispatch EXCEPT ![j] = NoJob]
     \/ /\ dispatch[j].attempts + 1 < MaxAttempts
        /\ dispatch' = [dispatch EXCEPT ![j].attempts = @ + 1]
  /\ UNCHANGED <<cooling, counted, notifier, errors>>

EndCooldown(r) ==
  /\ r \in cooling
  /\ cooling' = cooling \ {r}
  /\ UNCHANGED <<counted, notifier, dispatch, errors>>

LeaveWindow(r) ==
  /\ counted[r] > 0
  /\ counted' = [counted EXCEPT ![r] = @ - 1]
  /\ UNCHANGED <<cooling, notifier, dispatch, errors>>

-----------------------------------------------------------------------------
NotificationInit ==
  /\ cooling = {} /\ errors = 0
  /\ counted = [r \in RuleIds |-> 0]
  /\ notifier = [n \in Notifiers |-> NoEvent]
  /\ dispatch = [j \in Jobs |-> NoJob]

Handle(n) == CheckCooldown(n) \/ CheckWindow(n) \/ AddToWindow(n) \/ Enqueue(n)

NotificationNext ==
  \/ \E n \in Notifiers : ReceiveEvent(n) \/ Handle(n) \/ Fail(n)
  \/ \E j \in Jobs : HandleDispatch(j)
  \/ \E r \in RuleIds : EndCooldown(r) \/ LeaveWindow(r)

NotificationSpec == NotificationInit /\ [][NotificationNext]_notificationVars

(* The event recurs, handlers and jobs go on, keys and entries expire       *)
NotificationFair ==
  /\ WF_notificationVars(\E n \in Notifiers : ReceiveEvent(n) \/ Handle(n))
  /\ \A j \in Jobs : WF_notificationVars(HandleDispatch(j))
  /\ \A r \in RuleIds :
       /\ WF_notificationVars(EndCooldown(r))
       /\ WF_notificationVars(LeaveWindow(r))

-----------------------------------------------------------------------------
(* docs/notification-system.md, "prevents storms of alarms": it does not   *)
(* silence them.  When an event has come and keeps recurring, one is       *)
(* queued for the channel of every rule, though an event that the window   *)
(* suppresses has already begun a new cooldown.                            *)
RecurringIsQueued ==
  \A r \in RuleIds :
    (\E n \in Notifiers : ~Does(n, "idle")) ~> \E j \in Jobs : dispatch[j].rule = r
=============================================================================
