SPECIFICATION ServicesSpec
CONSTANTS
  None = None
  Unset = Unset
  Processes = {p1, p2}
  ProbeCount = 2
  MaxOutages = 1
  MaxOrders = 2
  Steps = {s1, s2, s3}
  Editors = {e1, e2}
  Workflows = {w1, w2, w3}
  MaxCount = 2
  Calls = {c1, c2, c3, c4}
  MaxConcurrent = 1
  Workers = 2
  Requests = {r1, r2, r3, r4}
  MaxRequests = 2
  Window = 3
  MaxDelay = 1
  Horizon = 4
  q1 = q1
  q2 = q2
  q3 = q3
  k1 = k1
  k2 = k2
  Providers = {q1, q2, q3}
  Keys = {k1, k2}
  Hashes = {4}
  Latencies = {1, 2}
  RuleSets <- MCRuleSets
  PoolSize = 3
  Weights <- MCWeights
  FailureThreshold = 1
  MinScore = 1
  Callers = {c1}
  NumRules = 2
  HasCooldown <- MCHasCooldown
  MaxPerWindow <- MCMaxCount
  Notifiers = {n1, n2}
  Jobs = {j1}
  MaxAttempts = 2
  MaxErrors = 1
  Literals = {1, 2}
  UnaryOperators = {"!", "-"}
  BinaryOperators = {"||", "&&", "===", "<", "-", "%"}
  MaxOperators = 3
  MaxDepth = 2
  Servers = {v1}
  b1 = b1
  Bills = {b1, b2}
  ModelConfigs <- MCModelConfigs
  Quantities <- MCQuantities
  Ttl = 1
  MaxReply = 1
  LastTick = 2
  MaxEdits = 1
  Missing = Missing
INVARIANTS
  HalfOpenAdmits
  AcceptedIsAcyclic
  CycleIsReal
  LevelsAreOrder
  QuotaHolds
  SlotsBounded
  WindowHolds
  OpenIsAvoided
  SharesAreWeights
  DebtIsBounded
  ReadAsMeant
  QuoteIsRecent
  QuoteIsKept
PROPERTIES
  TransitionsLegal
  OpenIsLeft
  RecurringIsQueued
CHECK_DEADLOCK FALSE
