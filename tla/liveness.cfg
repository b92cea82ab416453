SPECIFICATION FairSpec
CONSTANTS
  k1 = k1  k2 = k2  t1 = t1  t2 = t2  t3 = t3  w1 = w1  w2 = w2  p1 = p1  p2 = p2
  None = None
  ApiKeys = {k1, k2}
  Tasks = {t1, t2}
  Workers = {w1}
  Pollers = {p1}
  Owner <- ClientEach
  Policy <- InternalExempt
  Prepaid = {t1}
  EstimatedCost <- CostTwo
  ActualCost <- CostThree
  OpeningBalance <- BalanceTwo
  Credits = {1}
  Environment = {"cancel", "topUp"}
  MaxPollCount = 1
  BatchSize = 1
  MaxJobs = 2
  MaxAttempts = 1
  IdempotencyKey <- NoKeys
  MaxTopUps = 1
  Routed = {t1, t2}
  Traceable = {t1}
  Synchronous = {}
PROPERTIES SubmittedTasksEnd
CHECK_DEADLOCK FALSE
