SPECIFICATION Spec
CONSTANTS
  k1 = k1  k2 = k2  t1 = t1  t2 = t2  t3 = t3  w1 = w1  w2 = w2  p1 = p1  p2 = p2
  None = None
  ApiKeys = {k1}
  Tasks = {t1}
  Workers = {w1}
  Pollers = {p1}
  Owner <- OneClient
  Policy <- Internal1
  Prepaid = {t1}
  EstimatedCost <- CostTwo
  ActualCost <- CostTwo
  OpeningBalance <- BalanceTen
  Credits = {}
  Environment = {"crash"}
  MaxPollCount = 1
  BatchSize = 2
  MaxJobs = 1
  MaxAttempts = 1
  IdempotencyKey <- NoKeys
  MaxTopUps = 0
  Routed = {t1}
  Traceable = {t1}
  Synchronous = {}
INVARIANTS SettlementIsIdempotent
CHECK_DEADLOCK FALSE
