SPECIFICATION Spec
CONSTANTS
  k1 = k1  k2 = k2  t1 = t1  t2 = t2  t3 = t3  w1 = w1  w2 = w2  p1 = p1  p2 = p2
  None = None
  ApiKeys = {k1}
  Tasks = {t1}
  Workers = {w1, w2}
  Pollers = {p1}
  Owner <- OneClient
  Policy <- Exempt1
  Prepaid = {}
  EstimatedCost <- CostTwo
  ActualCost <- CostTwo
  OpeningBalance <- BalanceThree
  Credits = {}
  Environment = {"overrun", "cancel", "reprioritise"}
  MaxPollCount = 1
  BatchSize = 2
  MaxJobs = 2
  MaxAttempts = 2
  IdempotencyKey <- NoKeys
  MaxTopUps = 0
  Routed = {t1}
  Traceable = {}
  Synchronous = {}
SYMMETRY AnyWorker
INVARIANTS PendingIsQueued
PROPERTIES StatusOnlyAdvances
CHECK_DEADLOCK FALSE
