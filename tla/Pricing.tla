------------------------------- MODULE Pricing ------------------------------
(***************************************************************************)
(* PricingService and the two prices of a task: the estimate, made when    *)
(* the task is created, and the actual cost, made when it is settled, by   *)
(* another process and from other data.  Each process keeps the model's    *)
(* configuration in a cache of its own while administrators edit it.  The  *)
(* estimate fixes the unit price in the billing record; settlement reads   *)
(* the type of usage again and takes the amount from the provider's        *)
(* result, from the request, or from a default.                            *)
(***************************************************************************)
EXTENDS Integers

CONSTANTS
  Servers,      \* the processes that price tasks, each with its cache
  Bills,        \* bound: the tasks
  ModelConfigs, \* the configurations of the model that occur: the type of
                \* usage, unit_credit of the default tier, the flat price
  Quantities,   \* the numbers requests and results may state; nobody checks their sign
  Ttl,          \* pricingCacheTtlMs
  MaxReply,     \* how long the answer to a query may be on its way
  LastTick,     \* bound on time
  MaxEdits,     \* bound on the edits of the configuration
  Missing       \* no model, no cached price, no quantity, no amount

UsageTypes == {"count", "duration", "token"}

ASSUME PricingAssumption ==
  /\ ModelConfigs \subseteq [type : UsageTypes, credit : Nat, flat : Nat]
  /\ Quantities \subseteq Int /\ Missing \notin Quantities
  /\ Missing \notin ModelConfigs
  /\ Ttl \in Nat \ {0} /\ MaxReply \in Nat /\ LastTick \in Nat /\ MaxEdits \in Nat

VARIABLES
  clock,
  modelConfig, \* the document of the model
  edits,       \* how many edits there have been
  replacedAt,  \* history: when a configuration was last replaced
  priceCache,  \* priceCache[s] : the entry of process s
  quantity,    \* quantity[b] : what the request of b asks for
  asking,      \* asking[b] : the call of getUnitPrice that is under way for b
  quote,       \* quote[b] : the estimate, as the billing record keeps it
  actual       \* actual[b] : the settlement

pricingVars == <<clock, modelConfig, edits, replacedAt, priceCache, quantity, asking,
                 quote, actual>>

DocumentsOf(configs) == configs \cup {Missing}

NotAsking == [pc |-> "idle"]
Askings ==
  {NotAsking} \cup [pc : {"query"}, server : Servers]
    \cup [pc : {"reply"}, server : Servers, config : DocumentsOf(ModelConfigs), readAt : Nat]

PricingType ==
  /\ clock \in Nat /\ edits \in Nat
  /\ modelConfig \in DocumentsOf(ModelConfigs)
  /\ replacedAt \in [DocumentsOf(ModelConfigs) -> Nat]
  /\ priceCache \in [Servers -> {Missing} \cup [config : ModelConfigs, expireAt : Nat]]
  /\ quantity \in [Bills -> Quantities \cup {Missing}]
  /\ asking \in [Bills -> Askings]
  /\ quote \in [Bills -> {Missing} \cup
                         [type : UsageTypes, unitPrice : Nat, cost : Int, age : Int]]
  /\ actual \in [Bills -> {Missing} \cup
                          [type : UsageTypes, reported : Quantities \cup {Missing}, cost : Int]]

-----------------------------------------------------------------------------
(* What a configuration says *)

(* A price in a tier comes before a flat one; no price at all is zero *)
UnitPrice(config) ==
  CASE config = Missing  -> 0
    [] config # Missing /\ config.credit > 0 -> config.credit
    [] OTHER -> config.flat

(* A model that is not configured counts tokens *)
UsageType(config) == IF config = Missing THEN "token" ELSE config.type

DefaultSeconds == 5

(* Mutant of EstimatedUsage: without a duration, one second *)
EstimatedUsageOfOne(type, q) ==
  IF q # Missing THEN q ELSE IF type = "token" THEN 1000 ELSE 1

(* PricingService.estimate: ?? takes any number that is there, also 0 and  *)
(* negative ones.  (Of what is not a number the price is NaN, which the    *)
(* billing record does not accept, so that there is no such task.)         *)
EstimatedUsage(type, q) ==
  CASE q # Missing      -> q
    [] q = Missing /\ type = "count"    -> 1
    [] q = Missing /\ type = "duration" -> DefaultSeconds
    [] q = Missing /\ type = "token"    -> 1000

Stated(q) == q # Missing /\ q > 0

(* computeActualUsageValue: the result, else the request, else the default; *)
(* of tokens any number but 0 counts, of the rest only positive ones, and   *)
(* a value that is no number is like none                                   *)
ActualUsage(type, reported, q) ==
  CASE type = "token" -> IF reported \in {Missing, 0} THEN 1 ELSE reported
    [] type # "token" /\ Stated(reported) -> reported
    [] type # "token" /\ ~Stated(reported) /\ Stated(q) -> q
    [] type = "duration" /\ ~Stated(reported) /\ ~Stated(q) -> DefaultSeconds
    [] type = "count" /\ ~Stated(reported) /\ ~Stated(q) -> 1

-----------------------------------------------------------------------------
PricingInit ==
  /\ clock = 0 /\ edits = 0
  /\ modelConfig \in DocumentsOf(ModelConfigs)
  /\ replacedAt = [c \in DocumentsOf(ModelConfigs) |-> 0]
  /\ priceCache = [s \in Servers |-> Missing]
  /\ quantity \in [Bills -> Quantities \cup {Missing}]
  /\ asking = [b \in Bills |-> NotAsking]
  /\ quote = [b \in Bills |-> Missing]
  /\ actual = [b \in Bills |-> Missing]

Fresh(s) == priceCache[s] # Missing /\ priceCache[s].expireAt > clock

(* How long ago the configuration was replaced *)
Age(config) == IF config = modelConfig THEN 0 ELSE clock - replacedAt[config]

(* initBilling takes the estimate; settle charges the price of the record  *)
(* for what extractActualUsage found                                       *)
Price(b, config) ==
  \/ /\ quote[b] = Missing
     /\ quote' = [quote EXCEPT ![b] =
          [type      |-> UsageType(config),
           unitPrice |-> UnitPrice(config),
           cost      |-> UnitPrice(config) * EstimatedUsage(UsageType(config), quantity[b]),
           age       |-> Age(config)]]
     /\ UNCHANGED actual
  \/ /\ quote[b] # Missing
     /\ \E reported \in Quantities \cup {Missing} :
          actual' = [actual EXCEPT ![b] =
            [type     |-> UsageType(config),
             reported |-> reported,
             cost     |-> quote[b].unitPrice
                            * ActualUsage(UsageType(config), reported, quantity[b])]]
     /\ UNCHANGED quote

(* getUnitPrice: a fresh entry answers at once, else the model is queried *)
GetUnitPrice(b, s) ==
  /\ asking[b] = NotAsking /\ actual[b] = Missing
  /\ IF Fresh(s)
     THEN Price(b, priceCache[s].config) /\ UNCHANGED asking
     ELSE /\ asking' = [asking EXCEPT ![b] = [pc |-> "query", server |-> s]]
          /\ UNCHANGED <<quote, actual>>
  /\ UNCHANGED <<clock, modelConfig, edits, replacedAt, priceCache, quantity>>

(* The database answers with what it holds now *)
QueryModel(b) ==
  /\ asking[b].pc = "query"
  /\ asking' = [asking EXCEPT ![b] = [pc |-> "reply", server |-> asking[b].server,
                                      config |-> modelConfig, readAt |-> clock]]
  /\ UNCHANGED <<clock, modelConfig, edits, replacedAt, priceCache, quantity, quote, actual>>

(* Mutant of CacheEntry: an entry that lives one unit too long *)
CacheEntryForLonger(config) == [config |-> config, expireAt |-> clock + Ttl + 1]

CacheEntry(config) == [config |-> config, expireAt |-> clock + Ttl]

(* The answer arrives; a model that is not there is not cached, and what   *)
(* is cached stays until it is replaced: nobody calls refreshCache         *)
TakeReply(b) ==
  LET got == asking[b] IN
  /\ got.pc = "reply"
  /\ priceCache' = [priceCache EXCEPT ![got.server] =
                      IF got.config = Missing THEN @ ELSE CacheEntry(got.config)]
  /\ Price(b, got.config)
  /\ asking' = [asking EXCEPT ![b] = NotAsking]
  /\ UNCHANGED <<clock, modelConfig, edits, replacedAt, quantity>>

(* createConfig, updateConfig and updatePricing, after                     *)
(* validateMandatoryUnitPriceMap; an update may give the model another id  *)
EditModel ==
  /\ edits < MaxEdits
  /\ edits' = edits + 1
  /\ modelConfig' \in DocumentsOf({config \in ModelConfigs : config.credit > 0})
  /\ modelConfig' # modelConfig
  /\ replacedAt' = [replacedAt EXCEPT ![modelConfig] = clock]
  /\ UNCHANGED <<clock, priceCache, quantity, asking, quote, actual>>

(* No answer takes longer than MaxReply *)
Tick ==
  /\ clock < LastTick
  /\ \A b \in Bills : asking[b].pc = "reply" => clock < asking[b].readAt + MaxReply
  /\ clock' = clock + 1
  /\ UNCHANGED <<modelConfig, edits, replacedAt, priceCache, quantity, asking, quote, actual>>

PricingNext ==
  \/ \E b \in Bills : \/ \E s \in Servers : GetUnitPrice(b, s)
                      \/ QueryModel(b)
                      \/ TakeReply(b)
  \/ EditModel
  \/ Tick

PricingSpec == PricingInit /\ [][PricingNext]_pricingVars

-----------------------------------------------------------------------------
(* However calls, answers and edits meet in the caches, nobody is quoted a *)
(* price that was replaced longer ago than an entry lives and an answer    *)
(* may be late: an entry is as old as the query it comes from, which       *)
(* getUnitPrice does not take into account when it sets expireAt.          *)
QuoteIsRecent ==
  \A b \in Bills : quote[b] # Missing => quote[b].age < Ttl + MaxReply

(* A task whose provider reports no amount costs what was estimated, by    *)
(* whichever process and after whatever edits of the price it is settled,  *)
(* as long as the model still counts the same thing.  Three cases are left *)
(* out, in which the code does not keep the estimate: a request that       *)
(* states 0 or less is estimated at that and charged the default, though   *)
(* the comments of actual-usage.util.ts (lines 5 and 54) have the two      *)
(* agree, and tokens are estimated as 1000 and charged as 1.               *)
QuoteIsKept ==
  \A b \in Bills :
    /\ actual[b] # Missing
    /\ ~Stated(actual[b].reported)
    /\ actual[b].type = quote[b].type /\ quote[b].type # "token"
    /\ quantity[b] = Missing \/ Stated(quantity[b])
    => actual[b].cost = quote[b].cost
=============================================================================
