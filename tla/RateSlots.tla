----------------------------- MODULE RateSlots -----------------------------
(***************************************************************************)
(* RateLimiterService.acquireConcurrent and releaseConcurrent: a set of    *)
(* tokens in Redis stands for the calls of one provider that are under     *)
(* way.  Removing old tokens, counting them and adding one are three       *)
(* operations.                                                             *)
(***************************************************************************)
EXTENDS Integers, FiniteSets

CONSTANTS
  Calls,          \* bound: calls of the provider, each with a token of its own
  MaxConcurrent,
  Workers         \* how many handlers there are to make calls

ASSUME SlotsAssumption ==
  IsFiniteSet(Calls) /\ MaxConcurrent \in Nat \ {0} /\ Workers \in Nat \ {0}

VARIABLES
  slot,    \* slot[c] : how far the call has come
  tokens,  \* the sorted set
  stale    \* tokens older than ttlMs

slotsVars == <<slot, tokens, stale>>

Counted == {c \in Calls : slot[c] = "counted"}
InFlight == {c \in Calls : slot[c] \in {"trimmed", "counted", "held"}}

SlotsType ==
  /\ slot \in [Calls -> {"waiting", "trimmed", "counted", "held", "over"}]
  /\ tokens \subseteq Calls /\ stale \subseteq tokens

-----------------------------------------------------------------------------
(* acquireConcurrent *)
TrimTokens(c) ==
  /\ slot[c] = "waiting" /\ Cardinality(InFlight) < Workers
  /\ slot' = [slot EXCEPT ![c] = "trimmed"]
  /\ tokens' = tokens \ stale /\ stale' = {}

(* Mutant of HasRoom: the limit itself still has room *)
HasRoomAtLimit == Cardinality(tokens) <= MaxConcurrent

HasRoom == Cardinality(tokens) < MaxConcurrent

(* A refused job is retried later, with another token *)
CountTokens(c) ==
  /\ slot[c] = "trimmed"
  /\ slot' = [slot EXCEPT ![c] = IF HasRoom THEN "counted" ELSE "over"]
  /\ UNCHANGED <<tokens, stale>>

AddToken(c) ==
  /\ slot[c] = "counted"
  /\ slot' = [slot EXCEPT ![c] = "held"]
  /\ tokens' = tokens \cup {c}
  /\ UNCHANGED stale

(* releaseConcurrent, in the finally of the handlers *)
ReleaseToken(c) ==
  /\ slot[c] = "held"
  /\ slot' = [slot EXCEPT ![c] = "over"]
  /\ tokens' = tokens \ {c} /\ stale' = stale \ {c}

(* The process dies; a token it has added stays *)
DropCall(c) ==
  /\ slot[c] \in {"trimmed", "counted", "held"}
  /\ slot' = [slot EXCEPT ![c] = "over"]
  /\ UNCHANGED <<tokens, stale>>

(* ttlMs have passed, whether the call is over or not *)
GrowStale(c) ==
  /\ c \in tokens \ stale
  /\ stale' = stale \cup {c}
  /\ UNCHANGED <<slot, tokens>>

-----------------------------------------------------------------------------
SlotsInit ==
  /\ slot = [c \in Calls |-> "waiting"]
  /\ tokens = {} /\ stale = {}

SlotsNext ==
  \E c \in Calls : \/ TrimTokens(c) \/ CountTokens(c) \/ AddToken(c)
                   \/ ReleaseToken(c) \/ DropCall(c) \/ GrowStale(c)

SlotsSpec == SlotsInit /\ [][SlotsNext]_slotsVars

-----------------------------------------------------------------------------
(* The limit does not hold exactly, because the count is old when the      *)
(* token is added; but the excess is bounded by the handlers, not by the   *)
(* number of calls: the limit and one less than all handlers.              *)
SlotsBounded ==
  Cardinality(tokens) + Cardinality(Counted) <= MaxConcurrent + Workers - 1
=============================================================================
