SPECIFICATION Spec
CONSTANTS
  k1 = k1  k2 = k2  t1 = t1  t2 = t2  t3 = t3  w1 = w1  w2 = w2  p1 = p1  p2 = p2
  None = None
  ApiKeys = {k1, k2}
  Tasks = {t1, t2, t3}
  Workers = {w1}
  Pollers = {p1, p2}
  Owner <- ClientEach
  Policy <- InternalExternal
  Prepaid = {t1, t2}
  EstimatedCost <- CostTwo
  ActualCost <- CostTwo
  OpeningBalance <- BalanceThree
  Credits = {}
  Environment = {"overrun", "storeError", "crash"}
  MaxPollCount = 1
  BatchSize = 2
  MaxJobs = 1
  MaxAttempts = 1
  IdempotencyKey <- SameKey
  MaxTopUps = 0
  Routed = {t1, t2}
  Traceable = {t1, t2, t3}
  Synchronous = {}
CONSTRAINT OneClientActive
SYMMETRY AnyPoller
INVARIANTS TypeOK NeverOverdrawn ChargedOnlyForResults PolledSuccessIsPaid AcceptedIsRemembered OthersNeverPay
CHECK_DEADLOCK FALSE
