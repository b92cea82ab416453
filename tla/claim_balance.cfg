SPECIFICATION Spec
CONSTANTS
  k1 = k1  k2 = k2  t1 = t1  t2 = t2  t3 = t3  w1 = w1  w2 = w2  p1 = p1  p2 = p2
  None = None
  ApiKeys = {k1}
  Tasks = {t1, t2}
  Workers = {w1}
  Pollers = {p1}
  Owner <- OneClient
  Policy <- Internal1
  Prepaid = {t1}
  EstimatedCost <- BelowZero
  ActualCost <- CostThree
  OpeningBalance <- BalanceTwo
  Credits = {}
  Environment = {}
  MaxPollCount = 1
  BatchSize = 2
  MaxJobs = 2
  MaxAttempts = 1
  IdempotencyKey <- NoKeys
  MaxTopUps = 0
  Routed = {t1, t2}
  Traceable = {t1, t2}
  Synchronous = {}
INVARIANTS BalanceIsNeverNegative
CHECK_DEADLOCK FALSE
