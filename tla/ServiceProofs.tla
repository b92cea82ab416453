---------------------------- MODULE ServiceProofs ---------------------------
(***************************************************************************)
(* Theorems about the components beside the task path, one section each.   *)
(* None of them uses another's state.                                      *)
(*                                                                         *)
(* Quota: a claim not yet followed by its workflow and a deletion not yet  *)
(* followed by its release are still in the number, so that the number is  *)
(* never below the workflows and the outstanding operations together.      *)
(*                                                                         *)
(* Slots: the excess is bounded by the handlers.  The set of tokens was    *)
(* below the limit when a call counted it, and the calls that have counted *)
(* and not added yet are calls under way.                                  *)
(*                                                                         *)
(* Window: a request that is counted late removes from the set only what   *)
(* has left the window of everybody who may still be counted.              *)
(*                                                                         *)
(* The circuit breaker, for any number of processes, probes, outages of    *)
(* Redis and orders.  The script compares the name of the state only, so   *)
(* the argument is about what the processes hold: every copy and every     *)
(* record about to be written is a good record by itself, and one that a   *)
(* result or an evaluation is about to write is a legal transition away    *)
(* from the state that the script will find.                               *)
(*                                                                         *)
(* Pricing, for any number of processes, tasks, configurations and edits.  *)
(* What an answer or a cache entry holds was still the model's when it was *)
(* read, which bounds its age; the unit price of a record never changes,   *)
(* and both readings of a request give the same amount.                    *)
(*                                                                         *)
(* Notifications: as with slots, those that are about to add an entry      *)
(* found room when they counted.                                           *)
(***************************************************************************)
EXTENDS WorkflowQuota, RateSlots, RateWindow, CircuitBreaker, Pricing,
        Notifications, FiniteSetTheorems, TLAPS

-----------------------------------------------------------------------------
(* The workflow quota *)

QuotaIInv == QuotaType /\ QuotaInv

USE QuotaAssumption

(* Both sets are counted, so both must be finite *)
LEMMA QuotaCountable ==
  ASSUME QuotaType
  PROVE  /\ IsFiniteSet(owned) /\ Cardinality(owned) \in Nat
         /\ IsFiniteSet(Outstanding) /\ Cardinality(Outstanding) \in Nat
<1>1. owned \subseteq Workflows /\ Outstanding \subseteq Editors
  BY DEF QuotaType, Outstanding
<1> QED
  BY <1>1, FS_Subset, FS_CardinalityType

(* What a step of e does to the set of outstanding numbers *)
LEMMA OutstandingMoves ==
  ASSUME QuotaType, NEW e \in Editors, NEW r,
         request' = [request EXCEPT ![e] = r]
  PROVE  Outstanding' = IF r.pc \in {"save", "release"} THEN Outstanding \cup {e}
                        ELSE Outstanding \ {e}
<1>1. \A d \in Editors : request'[d] = IF d = e THEN r ELSE request[d]
  BY DEF QuotaType
<1> QED
  BY <1>1 DEF Outstanding

LEMMA QuotaStarts == QuotaInit => QuotaIInv
<1> SUFFICES ASSUME QuotaInit PROVE QuotaIInv
  OBVIOUS
<1>1. QuotaType
  BY DEF QuotaInit, QuotaType, NoRequest
<1>2. ~behind => owned = {} /\ Outstanding = {}
  BY DEF QuotaInit, Outstanding, NoRequest
<1>3. QuotaInv
  BY <1>1, <1>2, FS_EmptySet, QuotaCountable DEF QuotaInit, QuotaInv, NoRequest
<1> QED
  BY <1>1, <1>3 DEF QuotaIInv

LEMMA TypeKept == QuotaType /\ [QuotaNext]_quotaVars => QuotaType'
<1> SUFFICES ASSUME QuotaType, [QuotaNext]_quotaVars PROVE QuotaType'
  OBVIOUS
<1> USE DEF QuotaType
<1>1. CASE UNCHANGED quotaVars
  BY <1>1 DEF quotaVars
<1>2. ASSUME NEW e \in Editors, CountExisting(e) PROVE QuotaType'
  BY <1>2, QuotaCountable DEF CountExisting
<1>3. ASSUME NEW e \in Editors, Repair(e) PROVE QuotaType'
  BY <1>3 DEF Repair, Goes
<1>4. ASSUME NEW e \in Editors, Claim(e) PROVE QuotaType'
  BY <1>4 DEF Claim, Goes, Ends, NoRequest
<1>5. ASSUME NEW e \in Editors, Save(e) \/ SaveFails(e) \/ Delete(e) PROVE QuotaType'
  BY <1>5 DEF Save, SaveFails, Delete, Goes, Ends, NoRequest
<1>6. ASSUME NEW e \in Editors, Release(e) \/ BreakOff(e) PROVE QuotaType'
  BY <1>6 DEF Release, BreakOff, Ends, NoRequest
<1> QED
  BY <1>1, <1>2, <1>3, <1>4, <1>5, <1>6 DEF QuotaNext

(* One case for each operation on the number or on the workflows *)
LEMMA QuotaKept == QuotaIInv /\ [QuotaNext]_quotaVars => QuotaInv'
<1> SUFFICES ASSUME QuotaIInv, [QuotaNext]_quotaVars, ~behind' PROVE QuotaInv'
  BY DEF QuotaInv
<1>0. QuotaType' /\ QuotaType /\ QuotaInv
  BY TypeKept DEF QuotaIInv
<1>1. ~behind
  BY DEF QuotaNext, quotaVars, CountExisting, Repair, Claim, Save, SaveFails, Delete, Release, BreakOff
<1> DEFINE o == Cardinality(owned)
           c == Cardinality(Outstanding)
<1>2. /\ workflowCount \in Nat /\ o \in Nat /\ c \in Nat
      /\ workflowCount <= MaxCount /\ o + c <= workflowCount
      /\ \A e \in Editors : request[e].existing \in Nat /\ request[e].existing <= MaxCount
  BY <1>0, <1>1, QuotaCountable DEF QuotaInv, QuotaType
<1>3. ASSUME NEW e \in Editors
      PROVE  /\ e \notin Outstanding => Cardinality(Outstanding \cup {e}) = c + 1
             /\ e \in Outstanding => Cardinality(Outstanding \ {e}) = c - 1 /\ c > 0
             /\ e \notin Outstanding => Outstanding \ {e} = Outstanding
             /\ e \in Outstanding => Outstanding \cup {e} = Outstanding
  <2>1. IsFiniteSet(Outstanding) /\ c \in Nat
    BY <1>0, QuotaCountable
  <2>2. e \notin Outstanding => Cardinality(Outstanding \cup {e}) = c + 1
    BY <2>1, FS_AddElement
  <2>3. e \in Outstanding => Cardinality(Outstanding \ {e}) = c - 1
    BY <2>1, FS_RemoveElement
  <2>4. e \in Outstanding => c # 0
    BY <2>1, FS_EmptySet
  <2>5. /\ e \notin Outstanding => Outstanding \ {e} = Outstanding
        /\ e \in Outstanding => Outstanding \cup {e} = Outstanding
    OBVIOUS
  <2> QED
    BY <2>1, <2>2, <2>3, <2>4, <2>5
<1>4. ASSUME NEW e \in Editors, CountExisting(e) PROVE QuotaInv'
  <2>1. Outstanding' = Outstanding
    <3>1. request' = [request EXCEPT ![e] = [pc |-> "repair", existing |-> o]]
          /\ e \notin Outstanding
      BY <1>4 DEF CountExisting, Outstanding
    <3>2. Outstanding' = Outstanding \ {e}
      BY <1>0, <3>1, OutstandingMoves
    <3> QED
      BY <3>1, <3>2
  <2> QED
    BY <1>4, <1>0, <1>2, <2>1 DEF CountExisting, QuotaInv, QuotaType
<1>5. ASSUME NEW e \in Editors, Repair(e) PROVE QuotaInv'
  <2>1. Outstanding' = Outstanding
    BY <1>5, <1>0 DEF Repair, Goes, Outstanding, QuotaType
  <2> QED
    BY <1>5, <1>0, <1>2, <2>1 DEF Repair, Goes, QuotaInv, QuotaType
<1>6. ASSUME NEW e \in Editors, Claim(e) PROVE QuotaInv'
  <2>1. CASE MayClaim /\ workflowCount' = workflowCount + 1 /\ Goes(e, "save")
    <3>1. Outstanding' = Outstanding \cup {e} /\ e \notin Outstanding
      BY <1>6, <1>0, <2>1 DEF Claim, Goes, Outstanding, QuotaType
    <3> QED
      BY <1>6, <1>0, <1>2, <1>3, <2>1, <3>1 DEF Claim, Goes, MayClaim, QuotaInv, QuotaType
  <2>2. CASE UNCHANGED workflowCount /\ Ends(e)
    <3>1. Outstanding' = Outstanding
      BY <1>6, <1>0, <2>2 DEF Claim, Ends, NoRequest, Outstanding, QuotaType
    <3> QED
      BY <1>6, <1>0, <1>2, <2>2, <3>1 DEF Claim, Ends, NoRequest, QuotaInv, QuotaType
  <2> QED
    BY <1>6, <2>1, <2>2 DEF Claim
<1>7. ASSUME NEW e \in Editors, Save(e) PROVE QuotaInv'
  <2>1. Outstanding' = Outstanding \ {e} /\ e \in Outstanding
    BY <1>7, <1>0 DEF Save, Ends, NoRequest, Outstanding, QuotaType
  <2>2. Cardinality(owned') = o + 1
    BY <1>7, <1>0, QuotaCountable, FS_AddElement DEF Save
  <2> QED
    BY <1>7, <1>0, <1>2, <1>3, <2>1, <2>2 DEF Save, Ends, NoRequest, QuotaInv, QuotaType
<1>8. ASSUME NEW e \in Editors, SaveFails(e) PROVE QuotaInv'
  <2>1. Outstanding' = Outstanding
    BY <1>8, <1>0 DEF SaveFails, Goes, Outstanding, QuotaType
  <2> QED
    BY <1>8, <1>0, <1>2, <2>1 DEF SaveFails, Goes, QuotaInv, QuotaType
<1>9. ASSUME NEW e \in Editors, Delete(e) PROVE QuotaInv'
  <2>1. Outstanding' = Outstanding \cup {e} /\ e \notin Outstanding
    BY <1>9, <1>0 DEF Delete, Goes, Outstanding, QuotaType
  <2>2. Cardinality(owned') = o - 1
    BY <1>9, <1>0, QuotaCountable, FS_RemoveElement DEF Delete
  <2> QED
    BY <1>9, <1>0, <1>2, <1>3, <2>1, <2>2 DEF Delete, Goes, QuotaInv, QuotaType
<1>10. ASSUME NEW e \in Editors, Release(e) PROVE QuotaInv'
  <2>1. Outstanding' = Outstanding \ {e} /\ e \in Outstanding
    BY <1>10, <1>0 DEF Release, Ends, NoRequest, Outstanding, QuotaType
  <2>2. c' = c - 1 /\ c > 0
    BY <1>3, <2>1
  <2>3. workflowCount' = workflowCount - 1 /\ o' = o
    BY <1>10, <1>2, <2>2 DEF Release
  <2>4. \A d \in Editors : request'[d].existing <= MaxCount
    BY <1>10, <1>0, <1>2 DEF Release, Ends, NoRequest, QuotaType
  <2>5. workflowCount' <= MaxCount /\ o' + c' <= workflowCount'
    <3> HIDE DEF o, c
    <3> QED
      BY <1>2, <2>2, <2>3
  <2> QED
    BY <2>4, <2>5 DEF QuotaInv
<1>11. ASSUME NEW e \in Editors, BreakOff(e) PROVE QuotaInv'
  <2>1. Outstanding' = Outstanding \ {e}
    BY <1>11, <1>0 DEF BreakOff, Ends, NoRequest, Outstanding, QuotaType
  <2>2. c' = c \/ c' = c - 1
    BY <1>3, <2>1
  <2>3. workflowCount' = workflowCount /\ o' = o
    BY <1>11 DEF BreakOff
  <2>4. \A d \in Editors : request'[d].existing <= MaxCount
    BY <1>11, <1>0, <1>2 DEF BreakOff, Ends, NoRequest, QuotaType
  <2>5. o' + c' <= workflowCount'
    <3> HIDE DEF o, c
    <3> QED
      BY <1>2, <2>2, <2>3
  <2> QED
    BY <1>2, <2>3, <2>4, <2>5 DEF QuotaInv
<1>12. CASE UNCHANGED quotaVars
  BY <1>12, <1>0 DEF quotaVars, QuotaInv, Outstanding
<1> QED
  BY <1>4, <1>5, <1>6, <1>7, <1>8, <1>9, <1>10, <1>11, <1>12 DEF QuotaNext

(* workflow-policy.service.ts: no interleaving of requests that create and *)
(* delete, wherever they break off, lets a user own more workflows than    *)
(* the role allows.                                                        *)
THEOREM QuotaIsKept == QuotaSpec => []QuotaHolds
<1>1. QuotaInit => QuotaIInv
  BY QuotaStarts
<1>2. QuotaIInv /\ [QuotaNext]_quotaVars => QuotaIInv'
  BY TypeKept, QuotaKept DEF QuotaIInv
<1>3. QuotaIInv => QuotaHolds
  BY QuotaCountable DEF QuotaIInv, QuotaInv, QuotaHolds, QuotaType
<1> QED
  BY <1>1, <1>2, <1>3, PTL DEF QuotaSpec

-----------------------------------------------------------------------------
(* The concurrency slots *)

SlotsIInv == SlotsType /\ Cardinality(InFlight) <= Workers /\ SlotsBounded

USE SlotsAssumption

(* All the sets that are counted are sets of calls, and so finite *)
LEMMA SlotsCountable ==
  ASSUME NEW S, S \subseteq Calls
  PROVE  IsFiniteSet(S) /\ Cardinality(S) \in Nat
BY FS_Subset, FS_CardinalityType

(* At most one more, and no more when nothing is added *)
LEMMA OneMore ==
  ASSUME NEW S, S \subseteq Calls, NEW T, NEW c \in Calls, T \subseteq S \cup {c}
  PROVE  Cardinality(T) \in Nat /\ Cardinality(T) <= Cardinality(S) + 1
<1>1. IsFiniteSet(S) /\ IsFiniteSet(S \cup {c})
  BY SlotsCountable
<1>2. Cardinality(T) <= Cardinality(S \cup {c})
  BY <1>1, FS_Subset
<1>3. Cardinality(S \cup {c}) <= Cardinality(S) + 1
  BY <1>1, FS_AddElement, FS_CardinalityType
<1> QED
  BY <1>1, <1>2, <1>3, SlotsCountable, FS_CardinalityType, FS_Subset

LEMMA NotMore ==
  ASSUME NEW S, S \subseteq Calls, NEW T, T \subseteq S
  PROVE  Cardinality(T) \in Nat /\ Cardinality(T) <= Cardinality(S)
BY SlotsCountable, FS_Subset, FS_CardinalityType

(* One call leaves a set *)
LEMMA OneLess ==
  ASSUME NEW S, S \subseteq Calls, NEW c \in S
  PROVE  Cardinality(S \ {c}) = Cardinality(S) - 1
BY SlotsCountable, FS_RemoveElement

LEMMA SlotsStart == SlotsInit => SlotsIInv
<1> SUFFICES ASSUME SlotsInit PROVE SlotsIInv
  OBVIOUS
<1>1. SlotsType /\ InFlight = {} /\ Counted = {} /\ tokens = {}
  BY DEF SlotsInit, SlotsType, InFlight, Counted
<1> QED
  BY <1>1, FS_EmptySet DEF SlotsIInv, SlotsBounded

LEMMA SlotsTypeKept == SlotsType /\ [SlotsNext]_slotsVars => SlotsType'
BY DEF SlotsType, SlotsNext, slotsVars, TrimTokens, CountTokens, AddToken, ReleaseToken,
       DropCall, GrowStale

(* A call that comes to a new point enters and leaves the sets accordingly *)
LEMMA SlotMoves ==
  ASSUME SlotsType, NEW c \in Calls, NEW s, slot' = [slot EXCEPT ![c] = s]
  PROVE  /\ InFlight' = IF s \in {"trimmed", "counted", "held"} THEN InFlight \cup {c}
                        ELSE InFlight \ {c}
         /\ Counted' = IF s = "counted" THEN Counted \cup {c} ELSE Counted \ {c}
<1>1. \A d \in Calls : slot'[d] = IF d = c THEN s ELSE slot[d]
  BY DEF SlotsType
<1> QED
  BY <1>1 DEF InFlight, Counted

LEMMA SlotsKept == SlotsIInv /\ [SlotsNext]_slotsVars => SlotsIInv'
<1> SUFFICES ASSUME SlotsIInv, [SlotsNext]_slotsVars PROVE SlotsIInv'
  OBVIOUS
<1>0. SlotsType /\ SlotsType'
  BY SlotsTypeKept DEF SlotsIInv
<1> DEFINE f == Cardinality(InFlight)
           d == Cardinality(Counted)
           t == Cardinality(tokens)
<1>1. /\ InFlight \subseteq Calls /\ Counted \subseteq InFlight /\ tokens \subseteq Calls
      /\ InFlight' \subseteq Calls /\ Counted' \subseteq InFlight' /\ tokens' \subseteq Calls
  BY <1>0 DEF SlotsType, InFlight, Counted
<1>2. /\ f \in Nat /\ d \in Nat /\ t \in Nat /\ f <= Workers
      /\ t + d <= MaxConcurrent + Workers - 1
  BY <1>1, SlotsCountable, Zenon DEF SlotsIInv, SlotsBounded
<1>3. /\ f' \in Nat /\ d' \in Nat /\ t' \in Nat /\ d' <= f'
  BY <1>1, SlotsCountable, NotMore
<1> SUFFICES f' <= Workers /\ t' + d' <= MaxConcurrent + Workers - 1
  BY <1>0 DEF SlotsIInv, SlotsBounded
<1>4. ASSUME NEW c \in Calls, TrimTokens(c)
      PROVE  f' <= Workers /\ t' + d' <= MaxConcurrent + Workers - 1
  <2>1. InFlight' = InFlight \cup {c} /\ Counted' \subseteq Counted /\ tokens' \subseteq tokens
    <3>1. slot' = [slot EXCEPT ![c] = "trimmed"] /\ tokens' \subseteq tokens
      BY <1>4 DEF TrimTokens
    <3>2. InFlight' = InFlight \cup {c} /\ Counted' = Counted \ {c}
      <4> HIDE DEF f, d, t
      <4>1. /\ InFlight' = IF "trimmed" \in {"trimmed", "counted", "held"} THEN InFlight \cup {c}
                           ELSE InFlight \ {c}
            /\ Counted' = IF "trimmed" = "counted" THEN Counted \cup {c} ELSE Counted \ {c}
        BY <1>0, <3>1, SlotMoves
      <4> QED
        BY <4>1
    <3> QED
      BY <3>1, <3>2
  <2>2. f < Workers /\ f' <= f + 1 /\ d' <= d /\ t' <= t
    BY <1>1, <1>4, <2>1, OneMore, NotMore DEF TrimTokens
  <2> QED
    BY <1>2, <1>3, <2>2
<1>5. ASSUME NEW c \in Calls, CountTokens(c)
      PROVE  f' <= Workers /\ t' + d' <= MaxConcurrent + Workers - 1
  <2>1. InFlight' \subseteq InFlight
    BY <1>0, <1>5, SlotMoves DEF CountTokens, InFlight
  <2>2. f' <= f /\ tokens' = tokens
    BY <1>1, <1>5, <2>1, NotMore DEF CountTokens
  <2>3. CASE HasRoom
    <3>1. t < MaxConcurrent
      BY <2>3 DEF HasRoom
    <3> QED
      BY <1>2, <1>3, <2>2, <3>1
  <2>4. CASE ~HasRoom
    <3>1. Counted' \subseteq Counted
      <4>1. slot' = [slot EXCEPT ![c] = "over"]
        BY <1>5, <2>4 DEF CountTokens
      <4>2. Counted' = Counted \ {c}
        BY <1>0, <4>1, SlotMoves
      <4> QED
        BY <4>2
    <3>2. d' <= d
      BY <1>1, <3>1, NotMore
    <3> QED
      BY <1>2, <1>3, <2>2, <3>2
  <2> QED
    BY <2>3, <2>4
<1>6. ASSUME NEW c \in Calls, AddToken(c)
      PROVE  f' <= Workers /\ t' + d' <= MaxConcurrent + Workers - 1
  <2>1. InFlight' \subseteq InFlight /\ c \in Counted /\ Counted' = Counted \ {c}
        /\ tokens' = tokens \cup {c}
    <3>1. /\ slot' = [slot EXCEPT ![c] = "held"] /\ tokens' = tokens \cup {c}
          /\ c \in Counted /\ c \in InFlight
      <4>1. slot[c] = "counted"
        BY <1>6 DEF AddToken
      <4>2. c \in Counted /\ c \in InFlight
        BY <4>1 DEF InFlight, Counted
      <4> QED
        BY <1>6, <4>2, Zenon DEF AddToken
    <3>2. InFlight' = InFlight \cup {c} /\ Counted' = Counted \ {c}
      <4> HIDE DEF f, d, t
      <4>1. /\ InFlight' = IF "held" \in {"trimmed", "counted", "held"} THEN InFlight \cup {c}
                           ELSE InFlight \ {c}
            /\ Counted' = IF "held" = "counted" THEN Counted \cup {c} ELSE Counted \ {c}
        BY <1>0, <3>1, SlotMoves
      <4> QED
        BY <4>1
    <3>3. InFlight' \subseteq InFlight
      BY <3>1, <3>2, Zenon
    <3> QED
      BY <3>1, <3>2, <3>3, Zenon
  <2>2. f' <= f
    BY <1>1, <2>1, NotMore
  <2>3. d' = d - 1
    BY <1>1, <2>1, OneLess
  <2>4. t' <= t + 1
    BY <1>1, <2>1, OneMore
  <2> QED
    BY <1>2, <1>3, <2>2, <2>3, <2>4
<1>7. ASSUME NEW c \in Calls, ReleaseToken(c) \/ DropCall(c)
      PROVE  f' <= Workers /\ t' + d' <= MaxConcurrent + Workers - 1
  <2>1. InFlight' \subseteq InFlight /\ Counted' \subseteq Counted /\ tokens' \subseteq tokens
    BY <1>0, <1>7, SlotMoves DEF ReleaseToken, DropCall
  <2>2. f' <= f /\ d' <= d /\ t' <= t
    BY <1>1, <2>1, NotMore
  <2> QED
    BY <1>2, <1>3, <2>2
<1>8. CASE \/ UNCHANGED slotsVars
           \/ \E c \in Calls : GrowStale(c)
  <2>1. InFlight' = InFlight /\ Counted' = Counted /\ tokens' = tokens
    BY <1>8 DEF slotsVars, GrowStale, InFlight, Counted
  <2> QED
    BY <1>2, <2>1
<1> QED
  BY <1>4, <1>5, <1>6, <1>7, <1>8 DEF SlotsNext

-----------------------------------------------------------------------------
(* acquireConcurrent counts first and adds later: the tokens, with those   *)
(* about to be added, exceed the limit by less than the number of handlers *)
THEOREM SlotsAreBounded == SlotsSpec => [](SlotsType /\ SlotsBounded)
<1>1. SlotsSpec => []SlotsIInv
  BY SlotsStart, SlotsKept, PTL DEF SlotsSpec
<1>2. SlotsIInv => SlotsType /\ SlotsBounded
  BY DEF SlotsIInv
<1> QED
  BY <1>1, <1>2, PTL

-----------------------------------------------------------------------------
(* The window of requests *)

USE WindowAssumption

Answered == {r \in Requests : req[r].pc \in {"allowed", "refused"}}

AllowedIn(first) ==
  {r \in Allowed : req[r].at \in first..first + Window - MaxDelay - 1}

(* A batch is not under way for long, and nobody is stamped in the future  *)
StampsInTime ==
  /\ \A r \in Requests : req[r].at <= now
  /\ \A r \in Sent : now <= req[r].at + MaxDelay
  /\ touched <= now /\ \A r \in Answered : req[r].at <= touched

(* Whatever may still count against a request to come is in the set *)
YoungAreLogged ==
  \A r \in Answered : req[r].at > now - Window => r \in logged

WindowIInv ==
  /\ WindowType
  /\ StampsInTime
  /\ YoungAreLogged
  /\ \A first \in Nat : Cardinality(AllowedIn(first)) <= MaxRequests

LEMMA WindowStarts == WindowInit => WindowIInv
<1> SUFFICES ASSUME WindowInit PROVE WindowIInv
  OBVIOUS
<1>1. WindowType
  BY DEF WindowInit, WindowType
<1>2. StampsInTime /\ YoungAreLogged
  BY DEF WindowInit, StampsInTime, YoungAreLogged, Answered, Sent, At
<1>3. \A first \in Nat : AllowedIn(first) = {}
  BY DEF WindowInit, AllowedIn, Allowed, At
<1> QED
  BY <1>1, <1>2, <1>3, FS_EmptySet DEF WindowIInv

LEMMA WindowKept == WindowIInv /\ [WindowNext]_windowVars => WindowIInv'
<1> SUFFICES ASSUME WindowIInv, [WindowNext]_windowVars PROVE WindowIInv'
  OBVIOUS
<1>0. WindowType /\ now \in Nat /\ touched \in Nat /\ Window \in Nat /\ MaxDelay \in Nat
      /\ MaxDelay < Window /\ \A r \in Requests : req[r].at \in Nat
  BY DEF WindowIInv, WindowType
<1>1. ASSUME NEW r \in Requests, ReadClock(r)
      PROVE  WindowIInv'
  <2>1. /\ req[r].pc = "new" /\ req'[r] = [pc |-> "sent", at |-> now]
        /\ \A q \in Requests : q # r => req'[q] = req[q]
        /\ UNCHANGED <<now, logged, touched>>
    BY <1>0, <1>1 DEF ReadClock, At, WindowType
  <2>2. WindowType'
    BY <1>0, <1>1 DEF ReadClock, WindowType
  <2>3. Answered' = Answered /\ r \notin Answered /\ Sent' \subseteq Sent \cup {r}
    BY <2>1 DEF Answered, Sent, At
  <2>4. StampsInTime'
    BY <1>0, <2>1, <2>3 DEF WindowIInv, StampsInTime, Answered, Sent
  <2>5. YoungAreLogged'
    BY <2>1, <2>3 DEF WindowIInv, YoungAreLogged, Answered
  <2>6. \A first \in Nat : AllowedIn(first)' = AllowedIn(first)
    BY <2>1 DEF AllowedIn, Allowed, At
  <2> QED
    BY <2>2, <2>4, <2>5, <2>6 DEF WindowIInv
<1>2. ASSUME NEW r \in Requests, CountRequest(r)
      PROVE  WindowIInv'
  <2> DEFINE at == req[r].at
  <2>1. /\ req[r].pc = "sent" /\ at <= now /\ now <= at + MaxDelay
        /\ logged' = {q \in logged : req[q].at > at - Window} \cup {r}
        /\ touched' = now /\ now' = now
    BY <1>2 DEF CountRequest, StaysInWindow, At, WindowIInv, StampsInTime, Sent
  <2>2. /\ req'[r].pc = (IF Cardinality(logged') <= MaxRequests THEN "allowed" ELSE "refused")
        /\ req'[r].at = at
        /\ \A q \in Requests : q # r => req'[q] = req[q]
    BY <1>0, <1>2 DEF CountRequest, WindowType
  <2>3. WindowType'
    BY <1>0, <1>2, <2>1 DEF CountRequest, WindowType
  <2>4. Answered' = Answered \cup {r} /\ Sent' \subseteq Sent
    BY <2>1, <2>2 DEF Answered, Sent, At
  <2>5. StampsInTime'
    BY <1>0, <2>1, <2>2, <2>4 DEF WindowIInv, StampsInTime, Answered, Sent
  <2>6. YoungAreLogged'
    BY <1>0, <2>1, <2>2, <2>4 DEF WindowIInv, YoungAreLogged, Answered
  <2>7. ASSUME NEW first \in Nat
        PROVE  Cardinality(AllowedIn(first)') <= MaxRequests
    <3>1. CASE req'[r].pc = "refused" \/ at \notin first..first + Window - MaxDelay - 1
      <4>1. AllowedIn(first)' = AllowedIn(first)
        BY <2>1, <2>2, <3>1 DEF AllowedIn, Allowed, At
      <4> QED
        BY <4>1 DEF WindowIInv
    <3>2. CASE req'[r].pc = "allowed" /\ at \in first..first + Window - MaxDelay - 1
      <4>1. ASSUME NEW q \in AllowedIn(first)
            PROVE  q \in logged'
        <5>1. q \in Answered /\ req[q].at \in Nat /\ first <= req[q].at
          BY <1>0, <4>1 DEF AllowedIn, Allowed, At, Answered
        <5>2. req[q].at > now - Window /\ req[q].at > at - Window
          BY <1>0, <2>1, <3>2, <5>1
        <5> QED
          BY <2>1, <5>1, <5>2 DEF WindowIInv, YoungAreLogged
      <4>2. AllowedIn(first)' \subseteq AllowedIn(first) \cup {r}
        BY <2>1, <2>2 DEF AllowedIn, Allowed, At
      <4>3. AllowedIn(first)' \subseteq logged'
        BY <2>1, <4>1, <4>2
      <4>4. IsFiniteSet(logged')
        BY <2>3, FS_Subset DEF WindowType
      <4>5. Cardinality(AllowedIn(first)') <= Cardinality(logged')
            /\ Cardinality(AllowedIn(first)') \in Nat /\ Cardinality(logged') \in Nat
        BY <4>3, <4>4, FS_Subset, FS_CardinalityType
      <4>6. Cardinality(logged') <= MaxRequests
        BY <2>2, <3>2
      <4> QED
        BY <4>5, <4>6
    <3> QED
      BY <2>2, <3>1, <3>2
  <2> QED
    BY <2>3, <2>5, <2>6, <2>7 DEF WindowIInv
<1>3. CASE ExpireKey
  <2>1. now >= touched + Window /\ logged' = {} /\ UNCHANGED <<now, req, touched>>
    BY <1>3 DEF ExpireKey
  <2>2. WindowType' /\ StampsInTime'
    BY <2>1 DEF WindowIInv, WindowType, StampsInTime, Answered, Sent, At
  <2>3. YoungAreLogged'
    BY <1>0, <2>1 DEF WindowIInv, StampsInTime, YoungAreLogged, Answered
  <2>4. \A first \in Nat : AllowedIn(first)' = AllowedIn(first)
    BY <2>1 DEF AllowedIn, Allowed, At
  <2> QED
    BY <2>2, <2>3, <2>4 DEF WindowIInv
<1>4. CASE PassTime
  <2>1. /\ now < Horizon /\ \A r \in Sent : now < req[r].at + MaxDelay
        /\ now' = now + 1 /\ UNCHANGED <<req, logged, touched>>
    BY <1>4 DEF PassTime
  <2>2. WindowType'
    BY <1>0, <2>1 DEF WindowType
  <2>3. StampsInTime'
    BY <1>0, <2>1 DEF WindowIInv, StampsInTime, Answered, Sent, At
  <2>4. YoungAreLogged'
    BY <1>0, <2>1 DEF WindowIInv, YoungAreLogged, Answered
  <2>5. \A first \in Nat : AllowedIn(first)' = AllowedIn(first)
    BY <2>1 DEF AllowedIn, Allowed, At
  <2> QED
    BY <2>2, <2>3, <2>4, <2>5 DEF WindowIInv
<1>5. CASE UNCHANGED windowVars
  BY <1>5 DEF windowVars, WindowIInv, WindowType, StampsInTime, YoungAreLogged, Answered,
              AllowedIn, Allowed, Sent, At
<1> QED
  BY <1>1, <1>2, <1>3, <1>4, <1>5 DEF WindowNext

(* Requests counted late find everything that is still in their window,    *)
(* because a set is only cleared of what is too old for them, too          *)
THEOREM WindowIsKept == WindowSpec => []WindowHolds
<1>1. WindowSpec => []WindowIInv
  BY WindowStarts, WindowKept, PTL DEF WindowSpec
<1>2. WindowIInv => WindowHolds
  <2> SUFFICES ASSUME WindowIInv, NEW first \in Allowed
               PROVE  Cardinality({r \in Allowed : req[r].at \in
                        req[first].at..req[first].at + Window - MaxDelay - 1}) <= MaxRequests
    BY DEF WindowHolds
  <2>1. req[first].at \in Nat
    BY DEF WindowIInv, WindowType, Allowed
  <2> QED
    BY <2>1 DEF WindowIInv, AllowedIn
<1> QED
  BY <1>1, <1>2, PTL

-----------------------------------------------------------------------------
(* The circuit breaker *)

(* A record that has not counted all of its probes, and a dated opening *)
Good(r) ==
  /\ r \in Breaker
  /\ r.state = "HALF_OPEN" => r.probes < ProbeCount
  /\ r.state = "OPEN" => r.opened # None

States == {"CLOSED", "OPEN", "HALF_OPEN"}

Moves(from, to) == from = to \/ <<from, to>> \in LegalTransitions

KeyGood == key = None \/ Good(key)

CacheGood == /\ cache \in [Processes -> Breaker \cup {None}]
             /\ \A p \in Processes : cache[p] = None \/ Good(cache[p])

CallGood(c) ==
  /\ c.pc \in {"idle", "record", "recorded", "evaluate", "override"}
  /\ c.expected \in States
  /\ Good(c.next)
  /\ c.pc \in {"record", "evaluate"} => Moves(c.expected, c.next.state)

CallsGood ==
  /\ call \in [Processes -> [pc : {"idle", "record", "recorded", "evaluate", "override"},
                             expected : States, next : Breaker]]
  /\ \A p \in Processes : CallGood(call[p])

Bounded == outages \in 0..MaxOutages /\ orders \in 0..MaxOrders

IInv == KeyGood /\ CacheGood /\ CallsGood /\ Bounded

USE BreakerAssumption, NoneAssumption

-----------------------------------------------------------------------------
(* The records that the state machine computes *)

LEMMA DefaultGood == Good(DefaultClosed) /\ DefaultClosed.state = "CLOSED"
BY DEF Good, DefaultClosed, Breaker

LEMMA OpenedGood == Good(Opened) /\ Opened.state = "OPEN"
BY DEF Good, Opened, DefaultClosed, Breaker

LEMMA OrDefaultGood ==
  ASSUME NEW r, r = None \/ Good(r)
  PROVE  Good(OrDefault(r))
BY DefaultGood DEF OrDefault

(* recordResult: the last probe closes the breaker, it is never counted *)
LEMMA ResultGood ==
  ASSUME NEW s, Good(s), NEW success \in BOOLEAN
  PROVE  Good(AfterResult(s, success)) /\ Moves(s.state, AfterResult(s, success).state)
<1>1. CASE s.state # "HALF_OPEN"
  BY <1>1 DEF AfterResult, Moves
<1>2. CASE s.state = "HALF_OPEN" /\ ~success
  BY <1>2, OpenedGood DEF AfterResult, Moves, LegalTransitions
<1>3. CASE s.state = "HALF_OPEN" /\ success /\ ProbesDone(s.probes + 1)
  <2>1. AfterResult(s, success) = DefaultClosed
    BY <1>3 DEF AfterResult
  <2> QED
    BY <1>3, <2>1, DefaultGood DEF Moves, LegalTransitions
<1>4. CASE s.state = "HALF_OPEN" /\ success /\ ~ProbesDone(s.probes + 1)
  <2>1. AfterResult(s, success) = [s EXCEPT !.probes = @ + 1]
    BY <1>4 DEF AfterResult
  <2>2. s.probes \in Nat /\ s.probes + 1 < ProbeCount
    BY <1>4 DEF Good, Breaker, ProbesDone
  <2>3. /\ [s EXCEPT !.probes = @ + 1] \in Breaker
        /\ [s EXCEPT !.probes = @ + 1].state = "HALF_OPEN"
        /\ [s EXCEPT !.probes = @ + 1].probes = s.probes + 1
    BY <1>4, <2>2 DEF Good, Breaker
  <2> QED
    BY <1>4, <2>1, <2>2, <2>3 DEF Good, Moves
<1> QED
  BY <1>1, <1>2, <1>3, <1>4

(* evaluate: a half-open breaker starts without a counted probe *)
LEMMA EvaluationGood ==
  ASSUME NEW s, Good(s), NEW trips \in BOOLEAN
  PROVE  Good(AfterEvaluation(s, trips)) /\ Moves(s.state, AfterEvaluation(s, trips).state)
<1> DEFINE r == [s EXCEPT !.state = "HALF_OPEN", !.probes = 0]
<1>1. s.state = "CLOSED" => Good(Opened) /\ Moves(s.state, Opened.state)
  BY OpenedGood DEF Moves, LegalTransitions
<1>2. s.state = "OPEN" => Good(r) /\ Moves(s.state, r.state)
  <2>1. r \in Breaker /\ r.state = "HALF_OPEN" /\ r.probes = 0
    BY DEF Good, Breaker
  <2> QED
    BY <2>1 DEF Good, Moves, LegalTransitions
<1>3. Moves(s.state, s.state)
  BY DEF Moves
<1> QED
  BY <1>1, <1>2, <1>3 DEF AfterEvaluation

(* The end of the cooldown changes nothing but the date *)
LEMMA CooledGood ==
  ASSUME NEW r, Good(r)
  PROVE  \/ Cooled(r) = None /\ r = None
         \/ Good(Cooled(r)) /\ Cooled(r).state = r.state
BY DEF Cooled, Good, Breaker

-----------------------------------------------------------------------------
LEMMA BreakerStarts == BreakerInit => IInv
<1> SUFFICES ASSUME BreakerInit PROVE IInv
  OBVIOUS
<1>1. KeyGood /\ CacheGood /\ Bounded
  BY DEF BreakerInit, KeyGood, CacheGood, Bounded
<1>2. CallsGood
  BY DefaultGood DEF BreakerInit, CallsGood, CallGood, Idle, States, Good
<1> QED
  BY <1>1, <1>2 DEF IInv

(* What a process reads is good, and so are its copies afterwards *)
LEMMA ReadGood ==
  ASSUME IInv, NEW p \in Processes, NEW r, Reads(p, r)
  PROVE  /\ Good(OrDefault(r))
         /\ r = None \/ Good(r)
         /\ CacheGood' /\ outages' \in 0..MaxOutages
<1>1. r = None \/ Good(r)
  BY DEF Reads, IInv, KeyGood, CacheGood
<1>2. CacheGood'
  BY DEF Reads, IInv, KeyGood, CacheGood, Good
<1>3. outages' \in 0..MaxOutages
  BY DEF Reads, IInv, Bounded
<1> QED
  BY <1>1, <1>2, <1>3, OrDefaultGood

LEMMA BeginGood ==
  ASSUME IInv, NEW p \in Processes, NEW pc \in {"record", "evaluate", "override"},
         NEW s, Good(s), NEW next, Good(next),
         pc # "override" => Moves(s.state, next.state),
         Begin(p, pc, s, next)
  PROVE  CallsGood'
<1> DEFINE c == [pc |-> pc, expected |-> s.state, next |-> next]
<1>1. CallGood(c) /\ c \in [pc : {"idle", "record", "recorded", "evaluate", "override"},
                            expected : States, next : Breaker]
  BY DEF CallGood, Good, Breaker, States
<1>2. call' = [call EXCEPT ![p] = c]
  BY DEF Begin
<1> HIDE DEF c
<1> QED
  BY <1>1, <1>2 DEF IInv, CallsGood

(* A process that has written is idle, or about to evaluate *)
LEMMA DoneGood ==
  ASSUME IInv, NEW p \in Processes, NEW pc \in {"idle", "recorded"},
         call' = [call EXCEPT ![p] = [Idle EXCEPT !.pc = pc]]
  PROVE  CallsGood'
<1> DEFINE c == [Idle EXCEPT !.pc = pc]
<1>1. CallGood(c) /\ c \in [pc : {"idle", "record", "recorded", "evaluate", "override"},
                            expected : States, next : Breaker]
  BY DefaultGood DEF Idle, CallGood, Good, States
<1> HIDE DEF c
<1> QED
  BY <1>1 DEF IInv, CallsGood, c

LEMMA WriteGood ==
  ASSUME IInv, NEW p \in Processes, CompareAndSet(p)
  PROVE  KeyGood' /\ CacheGood' /\ outages' \in 0..MaxOutages
<1>1. Good(call[p].next)
  BY DEF IInv, CallsGood, CallGood
<1>2. KeyGood'
  BY <1>1 DEF CompareAndSet, IInv, KeyGood
<1>3. CacheGood'
  BY <1>1 DEF CompareAndSet, IInv, CacheGood, Good
<1>4. outages' \in 0..MaxOutages
  BY DEF CompareAndSet, IInv, Bounded
<1> QED
  BY <1>2, <1>3, <1>4

LEMMA BreakerKept == IInv /\ [BreakerNext]_breakerVars => IInv'
<1> SUFFICES ASSUME IInv, [BreakerNext]_breakerVars PROVE IInv'
  OBVIOUS
<1>1. CASE UNCHANGED breakerVars
  BY <1>1 DEF breakerVars, IInv, KeyGood, CacheGood, CallsGood, Bounded
<1>2. ASSUME NEW p \in Processes, BeginRecord(p) PROVE IInv'
  <2>1. PICK r \in {key, cache[p], None}, success \in BOOLEAN :
          /\ Reads(p, r)
          /\ Begin(p, "record", OrDefault(r), AfterResult(OrDefault(r), success))
    BY <1>2 DEF BeginRecord
  <2>2. CallsGood'
    BY <2>1, ReadGood, ResultGood, BeginGood
  <2> QED
    BY <1>2, <2>1, <2>2, ReadGood DEF BeginRecord, IInv, KeyGood, Bounded
<1>3. ASSUME NEW p \in Processes, WriteRecord(p) PROVE IInv'
  <2>1. CallsGood'
    BY <1>3, DoneGood DEF WriteRecord
  <2> QED
    BY <1>3, <2>1, WriteGood DEF WriteRecord, IInv, Bounded
<1>4. ASSUME NEW p \in Processes, BeginEvaluate(p) PROVE IInv'
  <2>1. PICK r \in {key, cache[p], None}, trips \in BOOLEAN :
          /\ Reads(p, r)
          /\ \/ call' = [call EXCEPT ![p] = Idle]
             \/ Begin(p, "evaluate", OrDefault(r), AfterEvaluation(OrDefault(r), trips))
    BY <1>4 DEF BeginEvaluate
  <2>2. CASE call' = [call EXCEPT ![p] = Idle]
    <3>1. Idle = [Idle EXCEPT !.pc = "idle"]
      BY DEF Idle
    <3>2. CallsGood'
      BY <2>2, <3>1, DoneGood
    <3> QED
      BY <1>4, <2>1, <3>2, ReadGood DEF BeginEvaluate, IInv, KeyGood, Bounded
  <2>3. CASE Begin(p, "evaluate", OrDefault(r), AfterEvaluation(OrDefault(r), trips))
    <3>1. CallsGood'
      BY <2>1, <2>3, ReadGood, EvaluationGood, BeginGood
    <3> QED
      BY <1>4, <2>1, <3>1, ReadGood DEF BeginEvaluate, IInv, KeyGood, Bounded
  <2> QED
    BY <2>1, <2>2, <2>3
<1>5. ASSUME NEW p \in Processes, WriteEvaluate(p) PROVE IInv'
  <2>1. Idle = [Idle EXCEPT !.pc = "idle"]
    BY DEF Idle
  <2>2. CallsGood'
    BY <1>5, <2>1, DoneGood DEF WriteEvaluate
  <2> QED
    BY <1>5, <2>2, WriteGood DEF WriteEvaluate, IInv, Bounded
<1>6. ASSUME NEW p \in Processes, BeginOverride(p) PROVE IInv'
  <2> DEFINE n(to) == [state |-> to, override |-> to, probes |-> 0,
                       opened |-> IF to = "OPEN" THEN "recent" ELSE None]
  <2>1. PICK r \in {key, cache[p], None}, to \in {"OPEN", "CLOSED"} :
          Reads(p, r) /\ Begin(p, "override", OrDefault(r), n(to))
    BY <1>6 DEF BeginOverride
  <2>2. Good(n(to))
    BY <2>1 DEF Good, Breaker
  <2>3. CallsGood'
    BY <2>1, <2>2, ReadGood, BeginGood
  <2> QED
    BY <1>6, <2>1, <2>3, ReadGood DEF BeginOverride, IInv, KeyGood, Bounded
<1>7. ASSUME NEW p \in Processes, BeginClear(p) PROVE IInv'
  <2>1. PICK r : /\ Reads(p, r)
                 /\ IF r = None THEN UNCHANGED call
                    ELSE Begin(p, "override", r, [r EXCEPT !.override = None])
    BY <1>7 DEF BeginClear
  <2>2. CallsGood'
    <3>1. CASE r = None
      BY <2>1, <3>1 DEF IInv, CallsGood
    <3>2. CASE r # None
      <4>1. Good(r)
        BY <2>1, <3>2, ReadGood
      <4>2. Good([r EXCEPT !.override = None])
        BY <4>1 DEF Good, Breaker
      <4> QED
        BY <2>1, <3>2, <4>1, <4>2, BeginGood
    <3> QED
      BY <3>1, <3>2
  <2> QED
    BY <1>7, <2>1, <2>2, ReadGood DEF BeginClear, IInv, KeyGood, Bounded
<1>8. ASSUME NEW p \in Processes, WriteOverride(p) PROVE IInv'
  <2>1. Good(call[p].next)
    BY DEF IInv, CallsGood, CallGood
  <2>2. CallsGood'
    <3>1. Idle = [Idle EXCEPT !.pc = "idle"]
      BY DEF Idle
    <3> QED
      BY <1>8, <3>1, DoneGood DEF WriteOverride
  <2>3. KeyGood' /\ CacheGood'
    BY <1>8, <2>1 DEF WriteOverride, IInv, KeyGood, CacheGood, Good
  <2>4. Bounded'
    BY <1>8 DEF WriteOverride, IInv, Bounded
  <2> QED
    BY <2>2, <2>3, <2>4 DEF IInv
<1>9. CASE CoolDown
  <2>1. KeyGood'
    BY <1>9, CooledGood DEF CoolDown, IInv, KeyGood
  <2>2. CacheGood'
    <3>1. \A p \in Processes : cache[p] = None \/ Good(cache[p])
      BY DEF IInv, CacheGood
    <3>2. \A p \in Processes : Cooled(cache[p]) = None \/ Good(Cooled(cache[p]))
      BY <3>1, CooledGood DEF Cooled
    <3>3. \A p \in Processes : cache'[p] \in {None, Cooled(cache[p])}
      BY <1>9 DEF CoolDown
    <3>4. cache' = [p \in Processes |-> cache'[p]]
      BY <1>9 DEF CoolDown
    <3> QED
      BY <3>2, <3>3, <3>4 DEF CacheGood, Good
  <2>3. CallsGood'
    <3>1. \A p \in Processes : call'[p] = [call[p] EXCEPT !.next = Cooled(@)]
      BY <1>9 DEF CoolDown
    <3>2. call' = [p \in Processes |-> call'[p]]
      BY <1>9 DEF CoolDown
    <3>3. ASSUME NEW p \in Processes
          PROVE  CallGood(call'[p]) /\ call'[p] \in
                   [pc : {"idle", "record", "recorded", "evaluate", "override"},
                    expected : States, next : Breaker]
      <4>1. CallGood(call[p]) /\ call[p] \in
                   [pc : {"idle", "record", "recorded", "evaluate", "override"},
                    expected : States, next : Breaker]
        BY DEF IInv, CallsGood
      <4>2. /\ call'[p].pc = call[p].pc /\ call'[p].expected = call[p].expected
            /\ call'[p].next = Cooled(call[p].next)
            /\ call'[p] = [pc |-> call[p].pc, expected |-> call[p].expected,
                           next |-> Cooled(call[p].next)]
        BY <3>1, <4>1
      <4>3. Good(Cooled(call[p].next)) /\ Cooled(call[p].next).state = call[p].next.state
        BY <4>1, CooledGood DEF CallGood
      <4> QED
        BY <4>1, <4>2, <4>3 DEF CallGood, Good
    <3> QED
      BY <3>2, <3>3 DEF CallsGood
  <2> QED
    BY <1>9, <2>1, <2>2, <2>3 DEF CoolDown, IInv, Bounded
<1>10. ASSUME NEW p \in Processes, ForgetCopy(p) PROVE IInv'
  BY <1>10 DEF ForgetCopy, IInv, KeyGood, CacheGood, CallsGood, Bounded
<1>11. CASE Expire
  BY <1>11 DEF Expire, IInv, KeyGood, CacheGood, CallsGood, Bounded
<1> QED
  BY <1>1, <1>2, <1>3, <1>4, <1>5, <1>6, <1>7, <1>8, <1>9, <1>10, <1>11
     DEF BreakerNext, Proceed

LEMMA GoodIsTyped == IInv => BreakerType /\ HalfOpenAdmits
<1> SUFFICES ASSUME IInv PROVE BreakerType /\ HalfOpenAdmits
  OBVIOUS
<1>1. BreakerType
  BY DEF IInv, KeyGood, CacheGood, CallsGood, Bounded, Good, BreakerType, States
<1>2. HalfOpenAdmits
  BY DEF IInv, KeyGood, Good, HalfOpenAdmits, StateOf, OrDefault, DefaultClosed
<1> QED
  BY <1>1, <1>2

-----------------------------------------------------------------------------
(* A half-open breaker always admits a probe, because no process ever      *)
(* holds a record that has counted all of them; and an open one has a date *)
(* to measure its cooldown from.                                           *)
THEOREM ProbesAreAdmitted == BreakerSpec => [](BreakerType /\ HalfOpenAdmits)
BY BreakerStarts, BreakerKept, GoodIsTyped, PTL DEF BreakerSpec

(* "CAS ensures atomic transitions": comparing the name of the state is    *)
(* enough for every write of a result or an evaluation to be a transition  *)
(* of the state machine, whatever happened since the copy was read.        *)
THEOREM TransitionsAreLegal == BreakerSpec => TransitionsLegal
<1> DEFINE Legal == \/ StateOf(key') = StateOf(key)
                    \/ <<StateOf(key), StateOf(key')>> \in LegalTransitions
                    \/ Expire \/ \E p \in Processes : WriteOverride(p)
<1>1. IInv /\ [BreakerNext]_breakerVars => [Legal]_breakerVars
  <2> SUFFICES ASSUME IInv, BreakerNext PROVE Legal
    BY DEF Legal
  <2>1. CASE UNCHANGED key
    BY <2>1
  <2>2. ASSUME NEW p \in Processes, WriteRecord(p) \/ WriteEvaluate(p) PROVE Legal
    <3>1. CompareAndSet(p) /\ call[p].pc \in {"record", "evaluate"}
      BY <2>2 DEF WriteRecord, WriteEvaluate
    <3>2. CASE UNCHANGED key
      BY <3>2
    <3>3. CASE Matches(call[p].expected) /\ key' = call[p].next
      <4>1. Moves(call[p].expected, call[p].next.state) /\ Good(call[p].next)
        BY <3>1 DEF IInv, CallsGood, CallGood
      <4>2. StateOf(key) = call[p].expected
        BY <3>3 DEF Matches
      <4>3. StateOf(key') = IF call[p].next = None THEN "CLOSED" ELSE call[p].next.state
        BY <3>3 DEF StateOf, OrDefault, DefaultClosed
      <4>4. call[p].next # None
        BY <4>1 DEF Good
      <4> QED
        BY <4>1, <4>2, <4>3, <4>4 DEF Moves
    <3> QED
      BY <3>1, <3>2, <3>3 DEF CompareAndSet
  <2>3. CASE CoolDown
    <3>1. KeyGood /\ key # None
      BY <2>3 DEF IInv, CoolDown
    <3>2. key' = Cooled(key) /\ Cooled(key).state = key.state
      BY <2>3, <3>1, CooledGood DEF CoolDown, KeyGood
    <3>3. key' # None
      BY <3>1, <3>2, CooledGood DEF KeyGood, Good
    <3> QED
      BY <3>1, <3>2, <3>3 DEF StateOf, OrDefault
  <2>4. ASSUME NEW p \in Processes, ForgetCopy(p) \/ BeginRecord(p) \/ BeginEvaluate(p)
                                    \/ BeginOverride(p) \/ BeginClear(p)
        PROVE  UNCHANGED key
    BY <2>4 DEF ForgetCopy, BeginRecord, BeginEvaluate, BeginOverride, BeginClear
  <2> QED
    BY <2>1, <2>2, <2>3, <2>4 DEF BreakerNext, Proceed
<1>2. BreakerSpec => []IInv
  BY BreakerStarts, BreakerKept, PTL DEF BreakerSpec
<1> QED
  BY <1>1, <1>2, PTL DEF BreakerSpec, TransitionsLegal

-----------------------------------------------------------------------------
(* Pricing *)

USE PricingAssumption

(* The configuration was still the model's at time t, or is it now *)
HeldSince(config, t) == config = modelConfig \/ replacedAt[config] >= t

RepliesInTime ==
  \A b \in Bills : asking[b].pc = "reply" =>
    /\ asking[b].readAt <= clock /\ clock <= asking[b].readAt + MaxReply
    /\ HeldSince(asking[b].config, asking[b].readAt)

EntriesInTime ==
  \A s \in Servers : priceCache[s] # Missing =>
    /\ priceCache[s].expireAt <= clock + Ttl
    /\ HeldSince(priceCache[s].config, priceCache[s].expireAt - Ttl - MaxReply)

AskingIsOpen == \A b \in Bills : asking[b] # NotAsking => actual[b] = Missing

QuotesAdded ==
  \A b \in Bills : quote[b] # Missing /\ quote[b].type # "token" =>
    quote[b].cost = quote[b].unitPrice * EstimatedUsage(quote[b].type, quantity[b])

SettledAsQuoted ==
  \A b \in Bills : actual[b] # Missing =>
    /\ quote[b] # Missing
    /\ actual[b].cost = quote[b].unitPrice
         * ActualUsage(actual[b].type, actual[b].reported, quantity[b])

PricingIInv ==
  /\ PricingType
  /\ RepliesInTime
  /\ EntriesInTime
  /\ AskingIsOpen
  /\ QuoteIsRecent
  /\ QuotesAdded
  /\ SettledAsQuoted

LEMMA PricingStarts == PricingInit => PricingIInv
<1> SUFFICES ASSUME PricingInit PROVE PricingIInv
  OBVIOUS
<1>1. PricingType
  BY DEF PricingInit, PricingType, DocumentsOf, Askings
<1>2. RepliesInTime /\ EntriesInTime /\ AskingIsOpen
  BY DEF PricingInit, RepliesInTime, EntriesInTime, AskingIsOpen, NotAsking
<1>3. QuoteIsRecent /\ QuotesAdded /\ SettledAsQuoted
  BY DEF PricingInit, QuoteIsRecent, QuotesAdded, SettledAsQuoted
<1> QED
  BY <1>1, <1>2, <1>3 DEF PricingIInv

(* Without a reported amount, both readings of the request agree *)
LEMMA UsagesAgree ==
  ASSUME NEW type \in UsageTypes \ {"token"}, NEW reported, ~Stated(reported),
         NEW q \in Quantities \cup {Missing}, q = Missing \/ Stated(q)
  PROVE  ActualUsage(type, reported, q) = EstimatedUsage(type, q)
<1>1. CASE q = Missing
  BY <1>1 DEF ActualUsage, EstimatedUsage, UsageTypes, Stated
<1>2. CASE q # Missing
  <2>1. Stated(q)
    BY <1>2
  <2> QED
    BY <1>2, <2>1 DEF ActualUsage, EstimatedUsage, UsageTypes
<1> QED
  BY <1>1, <1>2

LEMMA UsagesAreNumbers ==
  ASSUME NEW type \in UsageTypes, NEW reported \in Quantities \cup {Missing},
         NEW q \in Quantities \cup {Missing}
  PROVE  EstimatedUsage(type, q) \in Int /\ ActualUsage(type, reported, q) \in Int
<1>1. EstimatedUsage(type, q) \in Int
  BY DEF EstimatedUsage, UsageTypes, DefaultSeconds
<1>2. ActualUsage(type, reported, q) \in Int
  <2>1. Stated(reported) => reported \in Int
    BY DEF Stated
  <2>2. Stated(q) => q \in Int
    BY DEF Stated
  <2> QED
    BY <2>1, <2>2 DEF ActualUsage, UsageTypes, DefaultSeconds
<1> QED
  BY <1>1, <1>2

LEMMA PricesAreNumbers ==
  ASSUME NEW config \in DocumentsOf(ModelConfigs)
  PROVE  UnitPrice(config) \in Nat /\ UsageType(config) \in UsageTypes
BY DEF UnitPrice, UsageType, UsageTypes, DocumentsOf

LEMMA ProductsAreNumbers ==
  ASSUME NEW m \in Nat, NEW n \in Int PROVE m * n \in Int
OBVIOUS

(* A price taken from a configuration that is recent enough *)
LEMMA PriceKeeps ==
  ASSUME PricingIInv, NEW b \in Bills, NEW config \in DocumentsOf(ModelConfigs),
         Price(b, config), NEW t \in Int, HeldSince(config, t), clock - t < Ttl + MaxReply,
         actual[b] = Missing,
         UNCHANGED quantity
  PROVE  /\ quote' \in [Bills -> {Missing} \cup
                          [type : UsageTypes, unitPrice : Nat, cost : Int, age : Int]]
         /\ actual' \in [Bills -> {Missing} \cup
                          [type : UsageTypes, reported : Quantities \cup {Missing}, cost : Int]]
         /\ QuoteIsRecent' /\ QuotesAdded' /\ SettledAsQuoted'
<1> DEFINE u == UnitPrice(config)
           y == UsageType(config)
           q == quantity[b]
<1>1. u \in Nat /\ y \in UsageTypes /\ q \in Quantities \cup {Missing}
  BY PricesAreNumbers DEF PricingIInv, PricingType
<1>2. CASE quote[b] = Missing
  <2> DEFINE e == [type |-> y, unitPrice |-> u, cost |-> u * EstimatedUsage(y, q),
                   age |-> Age(config)]
  <2>1. quote' = [quote EXCEPT ![b] = e] /\ actual' = actual
    BY <1>2 DEF Price
  <2>2. Age(config) \in Int /\ Age(config) < Ttl + MaxReply
    <3>1. replacedAt[config] \in Nat /\ clock \in Nat
      BY DEF PricingIInv, PricingType
    <3> QED
      BY <3>1 DEF Age, HeldSince
  <2>3. EstimatedUsage(y, q) \in Int
    BY <1>1, UsagesAreNumbers
  <2>4. u * EstimatedUsage(y, q) \in Int
    BY <1>1, <2>3, ProductsAreNumbers
  <2>5. e \in [type : UsageTypes, unitPrice : Nat, cost : Int, age : Int]
    BY <1>1, <2>2, <2>4
  <2>6. quote' \in [Bills -> {Missing} \cup
                      [type : UsageTypes, unitPrice : Nat, cost : Int, age : Int]]
    BY <2>1, <2>5 DEF PricingIInv, PricingType
  <2>7. /\ quote'[b] = e
        /\ \A d \in Bills : d # b => quote'[d] = quote[d]
    BY <2>1 DEF PricingIInv, PricingType
  <2>8. QuoteIsRecent'
    BY <2>2, <2>7 DEF PricingIInv, QuoteIsRecent
  <2>9. QuotesAdded'
    BY <2>7 DEF PricingIInv, QuotesAdded
  <2>10. SettledAsQuoted'
    BY <2>1, <2>7 DEF PricingIInv, SettledAsQuoted
  <2> QED
    BY <2>1, <2>6, <2>8, <2>9, <2>10 DEF PricingIInv, PricingType
<1>3. CASE quote[b] # Missing
  <2>1. PICK reported \in Quantities \cup {Missing} :
          actual' = [actual EXCEPT ![b] =
            [type |-> y, reported |-> reported,
             cost |-> quote[b].unitPrice * ActualUsage(y, reported, q)]]
    BY <1>3 DEF Price
  <2>2. quote' = quote
    BY <1>3 DEF Price
  <2> DEFINE a == [type |-> y, reported |-> reported,
                   cost |-> quote[b].unitPrice * ActualUsage(y, reported, q)]
  <2>3. quote[b].unitPrice \in Nat
    BY <1>3 DEF PricingIInv, PricingType
  <2>4. ActualUsage(y, reported, q) \in Int
    BY <1>1, UsagesAreNumbers
  <2>5. quote[b].unitPrice * ActualUsage(y, reported, q) \in Int
    BY <2>3, <2>4, ProductsAreNumbers
  <2>6. a \in [type : UsageTypes, reported : Quantities \cup {Missing}, cost : Int]
    BY <1>1, <2>5
  <2>7. actual' \in [Bills -> {Missing} \cup
                      [type : UsageTypes, reported : Quantities \cup {Missing}, cost : Int]]
    BY <2>1, <2>6 DEF PricingIInv, PricingType
  <2>8. /\ actual'[b] = a
        /\ \A d \in Bills : d # b => actual'[d] = actual[d]
    BY <2>1 DEF PricingIInv, PricingType
  <2>9. QuoteIsRecent' /\ QuotesAdded'
    BY <2>2 DEF PricingIInv, QuoteIsRecent, QuotesAdded
  <2>10. SettledAsQuoted'
    BY <1>3, <2>2, <2>8 DEF PricingIInv, SettledAsQuoted
  <2> QED
    BY <2>2, <2>7, <2>9, <2>10 DEF PricingIInv, PricingType
<1> QED
  BY <1>2, <1>3

LEMMA PricingKept == PricingIInv /\ [PricingNext]_pricingVars => PricingIInv'
<1> SUFFICES ASSUME PricingIInv, [PricingNext]_pricingVars PROVE PricingIInv'
  OBVIOUS
<1>0. PricingType
  BY DEF PricingIInv
<1>1. ASSUME NEW b \in Bills, NEW s \in Servers, GetUnitPrice(b, s)
      PROVE  PricingIInv'
  <2>1. UNCHANGED <<clock, modelConfig, edits, replacedAt, priceCache, quantity>>
    BY <1>1 DEF GetUnitPrice
  <2>2. CASE Fresh(s)
    <3>1. Price(b, priceCache[s].config) /\ UNCHANGED asking /\ actual[b] = Missing
      BY <1>1, <2>2 DEF GetUnitPrice
    <3> DEFINE t == priceCache[s].expireAt - Ttl - MaxReply
    <3>2. /\ priceCache[s].config \in DocumentsOf(ModelConfigs)
          /\ t \in Int /\ clock - t < Ttl + MaxReply
          /\ HeldSince(priceCache[s].config, t)
      BY <1>0, <2>2 DEF PricingIInv, PricingType, Fresh, EntriesInTime, DocumentsOf
    <3>3. /\ quote' \in [Bills -> {Missing} \cup
                          [type : UsageTypes, unitPrice : Nat, cost : Int, age : Int]]
          /\ actual' \in [Bills -> {Missing} \cup
                          [type : UsageTypes, reported : Quantities \cup {Missing}, cost : Int]]
          /\ QuoteIsRecent' /\ QuotesAdded' /\ SettledAsQuoted'
      BY <2>1, <3>1, <3>2, PriceKeeps
    <3>4. PricingType' /\ RepliesInTime' /\ EntriesInTime'
      BY <2>1, <3>1, <3>3 DEF PricingIInv, PricingType, RepliesInTime, EntriesInTime,
                              HeldSince
    <3>5. AskingIsOpen'
      BY <1>0, <1>1, <3>1 DEF GetUnitPrice, Price, PricingIInv, PricingType, AskingIsOpen
    <3> QED
      BY <3>3, <3>4, <3>5 DEF PricingIInv
  <2>3. CASE ~Fresh(s)
    <3> DEFINE c == [pc |-> "query", server |-> s]
    <3>1. asking' = [asking EXCEPT ![b] = c] /\ UNCHANGED <<quote, actual>>
      BY <1>1, <2>3 DEF GetUnitPrice
    <3>2. c \in Askings /\ c.pc # "reply"
      BY DEF Askings
    <3>3. PricingType'
      BY <1>0, <2>1, <3>1, <3>2 DEF PricingType
    <3>4. RepliesInTime'
      BY <1>0, <2>1, <3>1, <3>2 DEF PricingIInv, PricingType, RepliesInTime, HeldSince
    <3>5. EntriesInTime' /\ QuoteIsRecent' /\ QuotesAdded' /\ SettledAsQuoted'
      BY <2>1, <3>1 DEF PricingIInv, EntriesInTime, HeldSince, QuoteIsRecent,
                        QuotesAdded, SettledAsQuoted
    <3>6. AskingIsOpen'
      BY <1>0, <1>1, <3>1 DEF GetUnitPrice, PricingIInv, PricingType, AskingIsOpen
    <3> QED
      BY <3>3, <3>4, <3>5, <3>6 DEF PricingIInv
  <2> QED
    BY <2>2, <2>3
<1>2. ASSUME NEW b \in Bills, QueryModel(b)
      PROVE  PricingIInv'
  <2> DEFINE c == [pc |-> "reply", server |-> asking[b].server,
                   config |-> modelConfig, readAt |-> clock]
  <2>1. /\ asking[b].pc = "query" /\ asking' = [asking EXCEPT ![b] = c]
        /\ UNCHANGED <<clock, modelConfig, edits, replacedAt, priceCache, quantity, quote,
                       actual>>
    BY <1>2 DEF QueryModel
  <2>2. asking[b].server \in Servers
    BY <1>0, <2>1 DEF PricingType, Askings, NotAsking
  <2>3. c \in Askings
    BY <1>0, <2>2 DEF PricingType, Askings
  <2>4. PricingType'
    BY <1>0, <2>1, <2>3 DEF PricingType
  <2>5. /\ asking'[b] = c
        /\ \A d \in Bills : d # b => asking'[d] = asking[d]
    BY <1>0, <2>1 DEF PricingType
  <2>6. RepliesInTime'
    BY <1>0, <2>1, <2>5 DEF PricingIInv, PricingType, RepliesInTime, HeldSince
  <2>7. EntriesInTime' /\ QuoteIsRecent' /\ QuotesAdded' /\ SettledAsQuoted'
    BY <2>1 DEF PricingIInv, EntriesInTime, HeldSince, QuoteIsRecent,
                QuotesAdded, SettledAsQuoted
  <2>8. AskingIsOpen'
    BY <2>1, <2>5 DEF PricingIInv, AskingIsOpen, NotAsking
  <2> QED
    BY <2>4, <2>6, <2>7, <2>8 DEF PricingIInv
<1>3. ASSUME NEW b \in Bills, TakeReply(b)
      PROVE  PricingIInv'
  <2> DEFINE got == asking[b]
  <2>1. /\ got.pc = "reply" /\ Price(b, got.config)
        /\ priceCache' = [priceCache EXCEPT ![got.server] =
                            IF got.config = Missing THEN priceCache[got.server]
                            ELSE CacheEntry(got.config)]
        /\ asking' = [asking EXCEPT ![b] = NotAsking]
        /\ UNCHANGED <<clock, modelConfig, edits, replacedAt, quantity>>
    BY <1>3 DEF TakeReply
  <2>2. /\ got.server \in Servers /\ got.config \in DocumentsOf(ModelConfigs)
        /\ got.readAt \in Nat
    BY <1>0, <2>1 DEF PricingType, Askings, NotAsking
  <2>3. /\ got.readAt <= clock /\ clock <= got.readAt + MaxReply
        /\ HeldSince(got.config, got.readAt)
    BY <2>1 DEF PricingIInv, RepliesInTime
  <2>4. actual[b] = Missing
    BY <2>1 DEF PricingIInv, AskingIsOpen, NotAsking
  <2>5. /\ quote' \in [Bills -> {Missing} \cup
                          [type : UsageTypes, unitPrice : Nat, cost : Int, age : Int]]
        /\ actual' \in [Bills -> {Missing} \cup
                          [type : UsageTypes, reported : Quantities \cup {Missing}, cost : Int]]
        /\ QuoteIsRecent' /\ QuotesAdded' /\ SettledAsQuoted'
    <3>1. clock \in Nat /\ clock - got.readAt < Ttl + MaxReply
      BY <1>0, <2>2, <2>3 DEF PricingType
    <3> QED
      BY <2>1, <2>2, <2>3, <2>4, <3>1, PriceKeeps
  <2>6. \A s \in Servers : \/ priceCache'[s] = priceCache[s]
                           \/ /\ got.config # Missing
                              /\ priceCache'[s] = CacheEntry(got.config)
    BY <1>0, <2>1 DEF PricingType
  <2>7. got.config # Missing =>
          CacheEntry(got.config) \in [config : ModelConfigs, expireAt : Nat]
    BY <1>0, <2>2 DEF CacheEntry, DocumentsOf, PricingType
  <2>8. PricingType'
    <3>1. priceCache' \in [Servers -> {Missing} \cup [config : ModelConfigs, expireAt : Nat]]
      BY <1>0, <2>1, <2>7 DEF PricingType
    <3> QED
      BY <1>0, <2>1, <2>5, <3>1 DEF PricingType, Askings
  <2>9. RepliesInTime'
    BY <1>0, <2>1 DEF PricingIInv, PricingType, RepliesInTime, HeldSince, NotAsking
  <2>10. EntriesInTime'
    <3> SUFFICES ASSUME NEW s \in Servers, priceCache'[s] # Missing
                 PROVE  /\ priceCache'[s].expireAt <= clock + Ttl
                        /\ HeldSince(priceCache'[s].config,
                                     priceCache'[s].expireAt - Ttl - MaxReply)
      BY <2>1 DEF EntriesInTime, HeldSince
    <3>1. CASE priceCache'[s] = priceCache[s]
      BY <3>1 DEF PricingIInv, EntriesInTime
    <3>2. CASE priceCache'[s] = CacheEntry(got.config)
      <4>1. priceCache'[s].expireAt = clock + Ttl /\ priceCache'[s].config = got.config
        BY <3>2 DEF CacheEntry
      <4>2. clock + Ttl - Ttl - MaxReply <= got.readAt /\ clock \in Nat
        BY <1>0, <2>2, <2>3 DEF PricingType
      <4>3. replacedAt[got.config] \in Nat
        BY <1>0, <2>2 DEF PricingType
      <4> QED
        BY <2>2, <2>3, <4>1, <4>2, <4>3 DEF HeldSince
    <3> QED
      BY <2>6, <3>1, <3>2
  <2>11. AskingIsOpen'
    BY <1>0, <2>1 DEF Price, PricingIInv, PricingType, AskingIsOpen
  <2> QED
    BY <2>5, <2>8, <2>9, <2>10, <2>11 DEF PricingIInv
<1>4. CASE EditModel
  <2>1. /\ replacedAt' = [replacedAt EXCEPT ![modelConfig] = clock]
        /\ modelConfig' \in DocumentsOf(ModelConfigs)
        /\ edits' = edits + 1
        /\ UNCHANGED <<clock, priceCache, quantity, asking, quote, actual>>
    BY <1>4 DEF EditModel, DocumentsOf
  <2>2. ASSUME NEW config \in DocumentsOf(ModelConfigs), NEW t \in Int, t <= clock,
               HeldSince(config, t)
        PROVE  config = modelConfig' \/ replacedAt'[config] >= t
    BY <1>0, <2>1, <2>2 DEF PricingType, HeldSince
  <2>3. PricingType'
    BY <1>0, <2>1 DEF PricingType
  <2>4. RepliesInTime'
    <3> SUFFICES ASSUME NEW b \in Bills, asking[b].pc = "reply"
                 PROVE  /\ asking[b].readAt <= clock /\ clock <= asking[b].readAt + MaxReply
                        /\ \/ asking[b].config = modelConfig'
                           \/ replacedAt'[asking[b].config] >= asking[b].readAt
      BY <2>1 DEF RepliesInTime, HeldSince
    <3>1. asking[b].config \in DocumentsOf(ModelConfigs) /\ asking[b].readAt \in Nat
      BY <1>0 DEF PricingType, Askings, NotAsking
    <3>2. /\ asking[b].readAt <= clock /\ clock <= asking[b].readAt + MaxReply
          /\ HeldSince(asking[b].config, asking[b].readAt)
      BY DEF PricingIInv, RepliesInTime
    <3> QED
      BY <2>2, <3>1, <3>2
  <2>5. EntriesInTime'
    <3> SUFFICES ASSUME NEW s \in Servers, priceCache[s] # Missing
                 PROVE  /\ priceCache[s].expireAt <= clock + Ttl
                        /\ \/ priceCache[s].config = modelConfig'
                           \/ replacedAt'[priceCache[s].config]
                                >= priceCache[s].expireAt - Ttl - MaxReply
      BY <2>1 DEF EntriesInTime, HeldSince
    <3>1. /\ priceCache[s].config \in DocumentsOf(ModelConfigs)
          /\ priceCache[s].expireAt \in Nat /\ clock \in Nat
      BY <1>0 DEF PricingType, DocumentsOf
    <3>2. /\ priceCache[s].expireAt <= clock + Ttl
          /\ HeldSince(priceCache[s].config, priceCache[s].expireAt - Ttl - MaxReply)
      BY DEF PricingIInv, EntriesInTime
    <3>3. /\ priceCache[s].expireAt - Ttl - MaxReply \in Int
          /\ priceCache[s].expireAt - Ttl - MaxReply <= clock
      BY <3>1, <3>2
    <3> QED
      BY <2>2, <3>1, <3>2, <3>3
  <2>6. AskingIsOpen' /\ QuoteIsRecent' /\ QuotesAdded' /\ SettledAsQuoted'
    BY <2>1 DEF PricingIInv, AskingIsOpen, QuoteIsRecent, QuotesAdded, SettledAsQuoted
  <2> QED
    BY <2>3, <2>4, <2>5, <2>6 DEF PricingIInv
<1>5. CASE Tick
  <2>1. /\ clock' = clock + 1
        /\ \A b \in Bills : asking[b].pc = "reply" => clock < asking[b].readAt + MaxReply
        /\ UNCHANGED <<modelConfig, edits, replacedAt, priceCache, quantity, asking, quote,
                       actual>>
    BY <1>5 DEF Tick
  <2>2. PricingType'
    BY <1>0, <2>1 DEF PricingType
  <2>3. RepliesInTime'
    <3>1. ASSUME NEW b \in Bills, asking[b].pc = "reply"
          PROVE  asking[b].readAt \in Nat
      BY <1>0, <3>1 DEF PricingType, Askings, NotAsking
    <3> QED
      BY <1>0, <2>1, <3>1 DEF PricingIInv, PricingType, RepliesInTime, HeldSince
  <2>4. EntriesInTime'
    <3>1. ASSUME NEW s \in Servers, priceCache[s] # Missing
          PROVE  priceCache[s].expireAt \in Nat
      BY <1>0, <3>1 DEF PricingType
    <3> QED
      BY <1>0, <2>1, <3>1 DEF PricingIInv, PricingType, EntriesInTime, HeldSince
  <2>5. AskingIsOpen' /\ QuoteIsRecent' /\ QuotesAdded' /\ SettledAsQuoted'
    BY <2>1 DEF PricingIInv, AskingIsOpen, QuoteIsRecent, QuotesAdded, SettledAsQuoted
  <2> QED
    BY <2>2, <2>3, <2>4, <2>5 DEF PricingIInv
<1>6. CASE UNCHANGED pricingVars
  BY <1>6 DEF pricingVars, PricingIInv, PricingType, RepliesInTime, EntriesInTime,
              HeldSince, AskingIsOpen, QuoteIsRecent, QuotesAdded, SettledAsQuoted
<1> QED
  BY <1>1, <1>2, <1>3, <1>4, <1>5, <1>6 DEF PricingNext

(* getUnitPrice sets expireAt when the answer arrives, so an entry may be  *)
(* as old as the answer was late, and no older                             *)
THEOREM QuotesAreRecent == PricingSpec => []QuoteIsRecent
<1>1. PricingSpec => []PricingIInv
  BY PricingStarts, PricingKept, PTL DEF PricingSpec
<1>2. PricingIInv => QuoteIsRecent
  BY DEF PricingIInv
<1> QED
  BY <1>1, <1>2, PTL

(* settle multiplies the unit price of the record, whatever the model      *)
(* costs by then, and falls back on what the estimate was made from: so it *)
(* is for pieces and seconds, when the request states a positive amount or *)
(* none.  (One of 0 or less is estimated at that and charged the default.) *)
THEOREM QuotesAreKept == PricingSpec => []QuoteIsKept
<1>1. PricingSpec => []PricingIInv
  BY PricingStarts, PricingKept, PTL DEF PricingSpec
<1>2. PricingIInv => QuoteIsKept
  <2> SUFFICES ASSUME PricingIInv, NEW b \in Bills,
                      actual[b] # Missing, ~Stated(actual[b].reported),
                      actual[b].type = quote[b].type, quote[b].type # "token",
                      quantity[b] = Missing \/ Stated(quantity[b])
               PROVE  actual[b].cost = quote[b].cost
    BY DEF QuoteIsKept
  <2>1. /\ quote[b] # Missing
        /\ quote[b].cost = quote[b].unitPrice * EstimatedUsage(quote[b].type, quantity[b])
        /\ actual[b].cost = quote[b].unitPrice
             * ActualUsage(actual[b].type, actual[b].reported, quantity[b])
    BY DEF PricingIInv, QuotesAdded, SettledAsQuoted
  <2>2. quote[b].type \in UsageTypes /\ quantity[b] \in Quantities \cup {Missing}
    BY <2>1 DEF PricingIInv, PricingType
  <2>3. ActualUsage(actual[b].type, actual[b].reported, quantity[b])
          = EstimatedUsage(quote[b].type, quantity[b])
    BY <2>2, UsagesAgree
  <2> QED
    BY <2>1, <2>3
<1> QED
  BY <1>1, <1>2, PTL

-----------------------------------------------------------------------------
(* The windows of notifications *)

USE NotificationAssumption

(* Those that have found room in the window of a rule and not used it yet *)
Adding(r) == {n \in Notifiers : notifier[n].pc = "add" /\ notifier[n].rule = r}

(* A window may hold more than its rule allows, but fewer than one entry   *)
(* more for each process.                                                  *)
WindowsBounded ==
  \A r \in RuleIds : MaxPerWindow[r] > 0 =>
    counted[r] + Cardinality(Adding(r)) <= MaxPerWindow[r] + Cardinality(Notifiers) - 1

(* Who handles an event is at one of the rules *)
RuleInHand == \A n \in Notifiers : ~Does(n, "idle") => notifier[n].rule \in RuleIds

NotificationInv == NotificationType /\ RuleInHand /\ WindowsBounded

LEMMA NotifiersCountable ==
  ASSUME NEW S, S \subseteq Notifiers
  PROVE  IsFiniteSet(S) /\ Cardinality(S) \in Nat /\ Cardinality(S) <= Cardinality(Notifiers)
BY FS_Subset, FS_CardinalityType

LEMMA NotificationsStart == NotificationInit => NotificationInv
<1> SUFFICES ASSUME NotificationInit PROVE NotificationInv
  OBVIOUS
<1>1. NotificationType /\ RuleInHand
  BY DEF NotificationInit, NotificationType, RuleInHand, Does, NoEvent, NoJob
<1>2. ASSUME NEW r \in RuleIds, MaxPerWindow[r] > 0
      PROVE  counted[r] + Cardinality(Adding(r)) <= MaxPerWindow[r] + Cardinality(Notifiers) - 1
  <2>1. Adding(r) = {} /\ counted[r] = 0
    BY <1>2 DEF NotificationInit, Adding, NoEvent
  <2>2. Cardinality(Adding(r)) = 0
    BY <2>1, FS_EmptySet
  <2>3. Cardinality(Notifiers) \in Nat
    BY NotifiersCountable
  <2> QED
    BY <1>2, <2>1, <2>2, <2>3
<1> QED
  BY <1>1, <1>2 DEF NotificationInv, WindowsBounded

LEMMA NotifierMoves ==
  ASSUME NotificationType, NEW n \in Notifiers, NEW s, notifier' = [notifier EXCEPT ![n] = s]
  PROVE  \A r : Adding(r)' = IF s.pc = "add" /\ s.rule = r THEN Adding(r) \cup {n}
                             ELSE Adding(r) \ {n}
<1>1. \A m \in Notifiers : notifier'[m] = IF m = n THEN s ELSE notifier[m]
  BY DEF NotificationType
<1> QED
  BY <1>1 DEF Adding

(* A step of a process takes it to a rule, or ends its event *)
LEMMA HandlingMoves ==
  ASSUME NotificationType, RuleInHand, NEW n \in Notifiers,
         ReceiveEvent(n) \/ Handle(n) \/ Fail(n)
  PROVE  \E s \in [pc : {"idle", "cooldown", "window", "add", "enqueue"}, rule : RuleIds \cup {0}] :
            /\ notifier' = [notifier EXCEPT ![n] = s]
            /\ s.pc # "idle" => s.rule \in RuleIds
            /\ s.pc = "add" => /\ CheckWindow(n) /\ s.rule = notifier[n].rule
                               /\ counted[s.rule] < MaxPerWindow[s.rule]
<1> DEFINE S == [pc : {"idle", "cooldown", "window", "add", "enqueue"}, rule : RuleIds \cup {0}]
           e == notifier[n]
<1>1. e \in S /\ (e.pc # "idle" => e.rule \in RuleIds)
  BY DEF NotificationType, RuleInHand, Does
<1>2. ASSUME NEW pc \in {"window", "add", "enqueue"}, Continue(n, pc)
      PROVE  [pc |-> pc, rule |-> e.rule] \in S
             /\ notifier' = [notifier EXCEPT ![n] = [pc |-> pc, rule |-> e.rule]]
  <2>1. [e EXCEPT !.pc = pc] = [pc |-> pc, rule |-> e.rule]
    BY <1>1
  <2>2. notifier' = [notifier EXCEPT ![n] = [e EXCEPT !.pc = pc]]
    BY <1>2 DEF Continue
  <2> QED
    BY <1>1, <2>1, <2>2
<1>0. /\ NoEvent \in S /\ NoEvent.pc = "idle"
      /\ \A k \in RuleIds : LET s == [pc |-> "cooldown", rule |-> k]
                          IN s \in S /\ s.pc = "cooldown" /\ s.rule = k
  BY DEF NoEvent
<1>3. ASSUME NextRule(n), e.rule \in RuleIds
      PROVE  \E s \in S : /\ notifier' = [notifier EXCEPT ![n] = s] /\ s.pc # "add"
                          /\ s.pc # "idle" => s.rule \in RuleIds
  <2>1. CASE e.rule = NumRules
    <3>1. notifier' = [notifier EXCEPT ![n] = NoEvent]
      BY <1>3, <2>1 DEF NextRule
    <3> QED
      BY <1>0, <3>1
  <2>2. CASE e.rule # NumRules
    <3>1. notifier' = [notifier EXCEPT ![n] = [pc |-> "cooldown", rule |-> e.rule + 1]]
      BY <1>3, <2>2 DEF NextRule
    <3>2. e.rule + 1 \in RuleIds
      BY <1>3, <2>2 DEF RuleIds
    <3> DEFINE s == [pc |-> "cooldown", rule |-> e.rule + 1]
    <3>3. s \in S /\ s.pc = "cooldown" /\ s.rule \in RuleIds
      BY <3>2
    <3> HIDE DEF s
    <3> QED
      BY <3>1, <3>3 DEF s
  <2> QED
    BY <2>1, <2>2
<1>4. CASE ReceiveEvent(n)
  <2>1. 1 \in RuleIds
    BY DEF RuleIds
  <2>2. notifier' = [notifier EXCEPT ![n] = [pc |-> "cooldown", rule |-> 1]]
    BY <1>4 DEF ReceiveEvent
  <2> QED
    BY <1>0, <2>1, <2>2
<1>5. CASE CheckCooldown(n)
  <2>1. e.rule \in RuleIds /\ (NextRule(n) \/ Continue(n, "window"))
    BY <1>1, <1>5 DEF CheckCooldown, Does
  <2> QED
    BY <1>2, <1>3, <2>1
<1>6. CASE CheckWindow(n)
  <2>1. /\ e.rule \in RuleIds
        /\ \/ NextRule(n) \/ Continue(n, "enqueue")
           \/ Continue(n, "add") /\ counted[e.rule] < MaxPerWindow[e.rule]
    BY <1>1, <1>6 DEF CheckWindow, Does
  <2>2. CASE NextRule(n)
    BY <1>3, <2>1, <2>2
  <2>3. CASE Continue(n, "enqueue")
    BY <1>2, <2>1, <2>3
  <2>4. CASE Continue(n, "add") /\ counted[e.rule] < MaxPerWindow[e.rule]
    BY <1>2, <1>6, <2>1, <2>4
  <2> QED
    BY <2>1, <2>2, <2>3, <2>4
<1>7. CASE AddToWindow(n)
  <2>1. e.rule \in RuleIds /\ Continue(n, "enqueue")
    BY <1>1, <1>7 DEF AddToWindow, Does
  <2> QED
    BY <1>2, <2>1
<1>8. CASE Enqueue(n)
  <2>1. e.rule \in RuleIds /\ NextRule(n)
    BY <1>1, <1>8 DEF Enqueue, Does
  <2> QED
    BY <1>3, <2>1
<1>9. CASE Fail(n)
  <2>1. /\ e.rule \in RuleIds
        /\ \/ Continue(n, "window") \/ Continue(n, "enqueue")
           \/ notifier' = [notifier EXCEPT ![n] = NoEvent]
    BY <1>1, <1>9 DEF Fail, Does
  <2>2. CASE notifier' = [notifier EXCEPT ![n] = NoEvent]
    BY <1>0, <2>2
  <2> QED
    BY <1>2, <2>1, <2>2
<1> QED
  BY <1>4, <1>5, <1>6, <1>7, <1>8, <1>9 DEF Handle

LEMMA NotificationTypeKept ==
  NotificationType /\ RuleInHand /\ [NotificationNext]_notificationVars
    => NotificationType' /\ RuleInHand'
<1> SUFFICES ASSUME NotificationType, RuleInHand, [NotificationNext]_notificationVars
             PROVE  NotificationType' /\ RuleInHand'
  OBVIOUS
<1>1. ASSUME NEW n \in Notifiers, ReceiveEvent(n) \/ Handle(n) \/ Fail(n)
      PROVE  NotificationType' /\ RuleInHand'
  <2>1. PICK s \in [pc : {"idle", "cooldown", "window", "add", "enqueue"},
                    rule : RuleIds \cup {0}] :
            /\ notifier' = [notifier EXCEPT ![n] = s]
            /\ s.pc # "idle" => s.rule \in RuleIds
    BY <1>1, HandlingMoves
  <2>2. RuleInHand'
    BY <2>1 DEF RuleInHand, Does, NotificationType
  <2>3. notifier' \in [Notifiers -> [pc : {"idle", "cooldown", "window", "add", "enqueue"},
                                     rule : RuleIds \cup {0}]]
    BY <2>1 DEF NotificationType
  <2>4. cooling' \subseteq RuleIds
    <3>1. ~Does(n, "idle") => notifier[n].rule \in RuleIds
      BY DEF RuleInHand
    <3>2. Does(n, "cooldown") => ~Does(n, "idle")
      BY DEF Does
    <3> QED
      BY <1>1, <3>1, <3>2 DEF NotificationType, ReceiveEvent, Handle, CheckCooldown, CheckWindow,
           AddToWindow, Enqueue, Fail
  <2>5. counted' \in [RuleIds -> Nat]
    <3>1. counted' = counted \/ counted' = [counted EXCEPT ![notifier[n].rule] = @ + 1]
      BY <1>1 DEF ReceiveEvent, Handle, CheckCooldown, CheckWindow, AfterRefusal,
           AddToWindow, Enqueue, Fail
    <3> QED
      BY <3>1 DEF NotificationType
  <2>6. dispatch' \in [Jobs -> [rule : RuleIds \cup {0}, attempts : 0..MaxAttempts]]
    <3>1. dispatch' = dispatch \/ \E j \in Jobs :
             dispatch' = [dispatch EXCEPT ![j] = [rule |-> notifier[n].rule, attempts |-> 0]]
      BY <1>1 DEF ReceiveEvent, Handle, CheckCooldown, CheckWindow, AddToWindow, Enqueue, Fail
    <3>2. notifier[n].rule \in RuleIds \cup {0}
      BY DEF NotificationType
    <3> QED
      BY <3>1, <3>2 DEF NotificationType
  <2>7. errors' \in 0..MaxErrors
    BY <1>1 DEF NotificationType, ReceiveEvent, Handle, CheckCooldown, CheckWindow,
         AddToWindow, Enqueue, Fail
  <2> QED
    BY <2>2, <2>3, <2>4, <2>5, <2>6, <2>7 DEF NotificationType
<1>2. ASSUME NEW j \in Jobs, HandleDispatch(j) PROVE NotificationType' /\ RuleInHand'
  BY <1>2 DEF HandleDispatch, NotificationType, RuleInHand, Does, NoJob
<1>3. ASSUME NEW r \in RuleIds, EndCooldown(r) \/ LeaveWindow(r)
      PROVE  NotificationType' /\ RuleInHand'
  BY <1>3 DEF EndCooldown, LeaveWindow, NotificationType, RuleInHand, Does
<1>4. CASE UNCHANGED notificationVars
  BY <1>4 DEF notificationVars, NotificationType, RuleInHand, Does
<1> QED
  BY <1>1, <1>2, <1>3, <1>4 DEF NotificationNext

LEMMA WindowsKept ==
  NotificationInv /\ [NotificationNext]_notificationVars => NotificationInv'
<1> SUFFICES ASSUME NotificationInv, [NotificationNext]_notificationVars PROVE NotificationInv'
  OBVIOUS
<1>1. NotificationType /\ RuleInHand /\ NotificationType' /\ RuleInHand'
  BY NotificationTypeKept DEF NotificationInv
<1> SUFFICES ASSUME NEW r \in RuleIds, MaxPerWindow[r] > 0
             PROVE  counted'[r] + Cardinality(Adding(r)')
                      <= MaxPerWindow[r] + Cardinality(Notifiers) - 1
  BY <1>1 DEF NotificationInv, WindowsBounded
<1> DEFINE N == Cardinality(Notifiers)
           M == MaxPerWindow[r]
           a == Cardinality(Adding(r))
           b == Cardinality(Adding(r)')
           c == counted[r]
           d == counted'[r]
<1>2. /\ a \in Nat /\ b \in Nat /\ b <= N /\ N \in Nat
      /\ M \in Nat /\ c \in Nat /\ d \in Nat
  <2>1. Adding(r) \subseteq Notifiers /\ Adding(r)' \subseteq Notifiers
    BY DEF Adding
  <2>2. a \in Nat /\ b \in Nat /\ b <= N /\ N \in Nat
    BY <2>1, NotifiersCountable
  <2> QED
    BY <1>1, <2>2 DEF NotificationType
<1>3. c + a <= M + N - 1
  BY DEF NotificationInv, WindowsBounded
<1>4. ASSUME NEW n \in Notifiers, ReceiveEvent(n) \/ Handle(n) \/ Fail(n)
      PROVE  d + b <= M + N - 1
  <2>1. PICK s : /\ notifier' = [notifier EXCEPT ![n] = s]
                 /\ s.pc = "add" => /\ CheckWindow(n) /\ s.rule = notifier[n].rule
                                    /\ counted[s.rule] < MaxPerWindow[s.rule]
    BY <1>1, <1>4, HandlingMoves
  <2>2. Adding(r)' = IF s.pc = "add" /\ s.rule = r THEN Adding(r) \cup {n} ELSE Adding(r) \ {n}
    BY <1>1, <2>1, NotifierMoves
  <2>3. CASE s.pc = "add" /\ s.rule = r
    <3>1. c < M
      BY <2>1, <2>3
    <3>2. counted' = counted
      BY <2>1, <2>3 DEF CheckWindow, AfterRefusal
    <3> QED
      BY <1>2, <3>1, <3>2
  <2>4. CASE ~(s.pc = "add" /\ s.rule = r)
    <3>1. Adding(r)' = Adding(r) \ {n} /\ IsFiniteSet(Adding(r))
      <4>1. Adding(r) \subseteq Notifiers
        BY DEF Adding
      <4> QED
        BY <2>2, <2>4, <4>1, NotifiersCountable
    <3>2. b <= a
      BY <3>1, FS_Subset
    <3>3. CASE AddToWindow(n) /\ notifier[n].rule = r
      <4>1. n \in Adding(r)
        BY <3>3 DEF AddToWindow, Does, Adding
      <4>2. b = a - 1
        BY <3>1, <4>1, FS_RemoveElement
      <4>3. d = c + 1
        BY <1>1, <3>3 DEF AddToWindow, NotificationType
      <4> QED
        BY <1>2, <1>3, <4>2, <4>3
    <3>4. CASE ~(AddToWindow(n) /\ notifier[n].rule = r)
      <4>1. d = c
        BY <1>1, <1>4, <3>4 DEF ReceiveEvent, Handle, CheckCooldown, CheckWindow, AfterRefusal,
             AddToWindow, Enqueue, Fail, NotificationType
      <4> QED
        BY <1>2, <1>3, <3>2, <4>1
    <3> QED
      BY <3>3, <3>4
  <2> QED
    BY <2>3, <2>4
<1>5. ASSUME d <= c, Adding(r)' = Adding(r) PROVE d + b <= M + N - 1
  BY <1>2, <1>3, <1>5
<1>6. ASSUME NEW j \in Jobs, HandleDispatch(j) PROVE d <= c /\ Adding(r)' = Adding(r)
  BY <1>2, <1>6 DEF HandleDispatch, Adding
<1>7. ASSUME NEW k \in RuleIds, EndCooldown(k) \/ LeaveWindow(k)
      PROVE  d <= c /\ Adding(r)' = Adding(r)
  BY <1>1, <1>2, <1>7 DEF EndCooldown, LeaveWindow, Adding, NotificationType
<1>8. ASSUME UNCHANGED notificationVars PROVE d <= c /\ Adding(r)' = Adding(r)
  BY <1>2, <1>8 DEF notificationVars, Adding
<1> HIDE DEF N, M, a, b, c, d
<1>9. d + b <= M + N - 1
  BY <1>4, <1>5, <1>6, <1>7, <1>8 DEF NotificationNext
<1> QED
  BY <1>9 DEF N, M, a, b, c, d

(* NotificationRateLimiterService counts first and adds later: a storm of  *)
(* events of one type, in whatever processes, adds fewer entries to the    *)
(* window of a rule beyond its limit than there are processes.             *)
THEOREM StormsAreDamped == NotificationSpec => [](NotificationType /\ WindowsBounded)
<1>1. NotificationSpec => []NotificationInv
  BY NotificationsStart, WindowsKept, PTL DEF NotificationSpec
<1>2. NotificationInv => NotificationType /\ WindowsBounded
  BY DEF NotificationInv
<1> QED
  BY <1>1, <1>2, PTL

=============================================================================
