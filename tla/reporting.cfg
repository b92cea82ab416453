SPECIFICATION FairSpec
CONSTANTS
  t1 = t1  s1 = s1  s2 = s2  e1 = e1  c1 = c1
  Tasks = {t1}
  Schedulers = {s1, s2}
  Extractors = {e1}
  Couriers = {c1}
  WithCallback = {t1}
  ExtractAttempts = 2
  DeliverAttempts = 2
  MaxRetries = 2
  MaxStalls = 1
  MaxCrashes = 2
  MaxRequests = 0
  Environment = {"crash"}
INVARIANTS ProcessedBeforeReport GivenUpIsVisible
PROPERTIES EndIsReported
CHECK_DEADLOCK FALSE
