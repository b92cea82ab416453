-------------------------- MODULE CircuitBreaker --------------------------
(***************************************************************************)
(* The circuit breaker of one provider: a record in Redis that expires,    *)
(* read through a cache of one second in every process.  After each call   *)
(* of the provider a process records the result, then evaluates; both read *)
(* the record, compute the next one from that copy, and write it with a    *)
(* script that compares nothing but the name of the state.                 *)
(***************************************************************************)
EXTENDS Integers

CONSTANTS
  Processes,   \* workers, pollers and the API, each with a cache of its own
  ProbeCount,  \* probeRequestCount
  MaxOutages,  \* bound on the operations for which Redis is not available
  MaxOrders,   \* bound on the orders of administrators
  None

ASSUME BreakerAssumption ==
  /\ ProbeCount \in Nat \ {0} /\ MaxOutages \in Nat /\ MaxOrders \in Nat

VARIABLES
  key,      \* the record in Redis, None when there is none
  cache,    \* cache[p] : the local copy, None when there is none
  call,     \* call[p] : what p has computed and is about to write
  outages,
  orders

breakerVars == <<key, cache, call, outages, orders>>

(* opened: the cooldown since openedAt is running or over.  The count of   *)
(* consecutive failures is left out: like the error rate it only decides   *)
(* when a closed breaker opens, which may be at any evaluation.            *)
Breaker == [state : {"CLOSED", "OPEN", "HALF_OPEN"},
            opened : {None, "recent", "cooled"},
            probes : Nat,
            override : {None, "OPEN", "CLOSED"}]

(* None is neither a date nor a record *)
ASSUME NoneAssumption == None \notin {"recent", "cooled"} /\ None \notin Breaker

DefaultClosed == [state |-> "CLOSED", opened |-> None, probes |-> 0, override |-> None]

Idle == [pc |-> "idle", expected |-> "CLOSED", next |-> DefaultClosed]

BreakerType ==
  /\ key \in Breaker \cup {None}
  /\ cache \in [Processes -> Breaker \cup {None}]
  /\ call \in [Processes -> [pc : {"idle", "record", "recorded", "evaluate", "override"},
                             expected : {"CLOSED", "OPEN", "HALF_OPEN"}, next : Breaker]]
  /\ outages \in 0..MaxOutages /\ orders \in 0..MaxOrders
  /\ key # None /\ key.state = "OPEN" => key.opened # None  \* a cooldown can be measured

OrDefault(r) == IF r = None THEN DefaultClosed ELSE r

StateOf(r) == OrDefault(r).state

-----------------------------------------------------------------------------
(* The store *)

(* getState: the copy of the last second, the record, or nothing at all    *)
(* when Redis does not answer                                              *)
Reads(p, r) ==
  \/ /\ cache[p] # None /\ r = cache[p]
     /\ UNCHANGED <<cache, outages>>
  \/ /\ r = key
     /\ cache' = [cache EXCEPT ![p] = key]
     /\ UNCHANGED outages
  \/ /\ outages < MaxOutages /\ r = None
     /\ outages' = outages + 1
     /\ UNCHANGED cache

(* Mutant of Matches: the script sets whatever the state is *)
MatchesAnything(expected) == TRUE

(* No record counts as CLOSED *)
Matches(expected) == StateOf(key) = expected

(* compareAndSetState *)
CompareAndSet(p) ==
  \/ /\ Matches(call[p].expected)
     /\ key' = call[p].next
     /\ cache' = [cache EXCEPT ![p] = call[p].next]
     /\ UNCHANGED outages
  \/ /\ ~Matches(call[p].expected)
     /\ cache' = [cache EXCEPT ![p] = None]
     /\ UNCHANGED <<key, outages>>
  \/ /\ outages < MaxOutages
     /\ outages' = outages + 1
     /\ UNCHANGED <<key, cache>>

-----------------------------------------------------------------------------
(* The state machine, on a copy s *)

Opened == [DefaultClosed EXCEPT !.state = "OPEN", !.opened = "recent"]

(* Mutant of ProbesDone: > instead of >= *)
ProbesDoneLate(probes) == probes > ProbeCount

ProbesDone(probes) == probes >= ProbeCount

(* recordResult *)
AfterResult(s, success) ==
  IF s.state # "HALF_OPEN" THEN s
  ELSE IF ~success THEN Opened
  ELSE IF ProbesDone(s.probes + 1) THEN DefaultClosed
  ELSE [s EXCEPT !.probes = @ + 1]

(* Mutant of CooledDown: the breaker waits for a probe that it does not admit *)
CooledDownNever(s) == FALSE

CooledDown(s) == s.opened = "cooled"

(* evaluate; s itself when nothing is to be written *)
AfterEvaluation(s, trips) ==
  IF s.override # None THEN s
  ELSE IF s.state = "CLOSED" /\ trips THEN Opened
  ELSE IF s.state = "OPEN" /\ CooledDown(s)
       THEN [s EXCEPT !.state = "HALF_OPEN", !.probes = 0]
  ELSE s

-----------------------------------------------------------------------------
Begin(p, pc, s, next) ==
  call' = [call EXCEPT ![p] = [pc |-> pc, expected |-> s.state, next |-> next]]

BeginRecord(p) ==
  /\ call[p].pc = "idle"
  /\ \E r \in {key, cache[p], None}, success \in BOOLEAN :
       /\ Reads(p, r)
       /\ Begin(p, "record", OrDefault(r), AfterResult(OrDefault(r), success))
  /\ UNCHANGED <<key, orders>>

WriteRecord(p) ==
  /\ call[p].pc = "record"
  /\ CompareAndSet(p)
  /\ call' = [call EXCEPT ![p] = [Idle EXCEPT !.pc = "recorded"]]
  /\ UNCHANGED orders

(* getMetrics has read the window of results meanwhile: any value of it.   *)
(* The breaker trips on the error rate or on consecutive failures.         *)
BeginEvaluate(p) ==
  /\ call[p].pc = "recorded"
  /\ \E r \in {key, cache[p], None}, trips \in BOOLEAN :
       /\ Reads(p, r)
       /\ LET s == OrDefault(r)
              next == AfterEvaluation(s, trips)
          IN IF next = s THEN call' = [call EXCEPT ![p] = Idle]
             ELSE Begin(p, "evaluate", s, next)
  /\ UNCHANGED <<key, orders>>

WriteEvaluate(p) ==
  /\ call[p].pc = "evaluate"
  /\ CompareAndSet(p)
  /\ call' = [call EXCEPT ![p] = Idle]
  /\ UNCHANGED orders

(* manualOverride: state and override at once, written without a comparison *)
BeginOverride(p) ==
  /\ call[p].pc = "idle" /\ orders < MaxOrders
  /\ orders' = orders + 1
  /\ \E r \in {key, cache[p], None}, to \in {"OPEN", "CLOSED"} :
       /\ Reads(p, r)
       /\ Begin(p, "override", OrDefault(r),
            [state |-> to, override |-> to, probes |-> 0,
             opened |-> IF to = "OPEN" THEN "recent" ELSE None])
  /\ UNCHANGED key

(* clearOverride; nothing to clear without a record *)
BeginClear(p) ==
  /\ call[p].pc = "idle" /\ orders < MaxOrders
  /\ orders' = orders + 1
  /\ \E r \in {key, cache[p], None} :
       /\ Reads(p, r)
       /\ IF r = None THEN UNCHANGED call
          ELSE Begin(p, "override", r, [r EXCEPT !.override = None])
  /\ UNCHANGED key

(* setState *)
WriteOverride(p) ==
  /\ call[p].pc = "override"
  /\ UNCHANGED orders
  /\ call' = [call EXCEPT ![p] = Idle]
  /\ \/ /\ key' = call[p].next
        /\ cache' = [cache EXCEPT ![p] = call[p].next]
        /\ UNCHANGED outages
     \/ /\ outages < MaxOutages
        /\ outages' = outages + 1
        /\ UNCHANGED <<key, cache>>

-----------------------------------------------------------------------------
(* Time *)

Cooled(r) == IF r = None THEN None
             ELSE [r EXCEPT !.opened = IF @ = "recent" THEN "cooled" ELSE @]

(* The cooldown ends.  It is longer than the life of a cached copy, so     *)
(* that no copy from before the breaker opened is left.                    *)
CoolDown ==
  /\ key # None /\ key.opened = "recent"
  /\ key' = Cooled(key)
  /\ cache' = [p \in Processes |-> IF StateOf(cache[p]) = key.state
                                   THEN Cooled(cache[p]) ELSE None]
  /\ call' = [p \in Processes |-> [call[p] EXCEPT !.next = Cooled(@)]]
  /\ UNCHANGED <<outages, orders>>

ForgetCopy(p) ==
  /\ cache[p] # None
  /\ cache' = [cache EXCEPT ![p] = None]
  /\ UNCHANGED <<key, call, outages, orders>>

(* The record lives for the cooldown and a minute after it was last written *)
Expire ==
  /\ key # None /\ key.opened # "recent"
  /\ key' = None
  /\ UNCHANGED <<cache, call, outages, orders>>

-----------------------------------------------------------------------------
BreakerInit ==
  /\ key = None
  /\ cache = [p \in Processes |-> None]
  /\ call = [p \in Processes |-> Idle]
  /\ outages = 0 /\ orders = 0

Proceed(p) == WriteRecord(p) \/ BeginEvaluate(p) \/ WriteEvaluate(p) \/ WriteOverride(p)

BreakerNext ==
  \/ \E p \in Processes : \/ BeginRecord(p) \/ BeginOverride(p) \/ BeginClear(p)
                          \/ Proceed(p) \/ ForgetCopy(p)
  \/ CoolDown \/ Expire

BreakerSpec == BreakerInit /\ [][BreakerNext]_breakerVars

Quiet == \A p \in Processes : call[p].pc = "idle"

(* What a process has begun it finishes, copies and cooldowns run out, and *)
(* a record nobody writes any more expires.                                 *)
BreakerFair ==
  /\ \A p \in Processes :
       WF_breakerVars(Proceed(p)) /\ WF_breakerVars(ForgetCopy(p))
  /\ WF_breakerVars(CoolDown)
  /\ WF_breakerVars(Expire /\ Quiet)

-----------------------------------------------------------------------------
(* circuit-breaker.service.ts, "CAS ensures atomic transitions": however   *)
(* many processes decide on copies of different age, the breaker only      *)
(* opens when closed, tries again when open, and closes or opens again     *)
(* after trying; anything else is the administrator's or the record's      *)
(* expiry.                                                                 *)
LegalTransitions ==
  {<<"CLOSED", "OPEN">>, <<"OPEN", "HALF_OPEN">>, <<"HALF_OPEN", "CLOSED">>, <<"HALF_OPEN", "OPEN">>}

TransitionsLegal ==
  [][ \/ StateOf(key') = StateOf(key)
      \/ <<StateOf(key), StateOf(key')>> \in LegalTransitions
      \/ Expire \/ \E p \in Processes : WriteOverride(p) ]_breakerVars

(* allowRequest: a half-open breaker always admits a probe.  Nothing but   *)
(* the result of a probe ends that state, so one that had counted all its  *)
(* probes without closing would refuse requests until it expired.          *)
HalfOpenAdmits == StateOf(key) = "HALF_OPEN" => key.probes < ProbeCount

(* evaluate runs only after a call of the provider, and an open breaker is *)
(* given no calls: still, one the administrator did not open is not open   *)
(* for ever, because late results of old tasks evaluate it or because its  *)
(* record expires.                                                         *)
OpenIsLeft ==
  StateOf(key) = "OPEN" ~> (StateOf(key) # "OPEN" \/ OrDefault(key).override # None)
=============================================================================
