SPECIFICATION Spec
CONSTANTS
  t1 = t1  s1 = s1  s2 = s2  e1 = e1  c1 = c1
  Tasks = {t1}
  Schedulers = {s1}
  Extractors = {e1}
  Couriers = {c1}
  WithCallback = {t1}
  ExtractAttempts = 2
  DeliverAttempts = 1
  MaxRetries = 1
  MaxStalls = 1
  MaxCrashes = 0
  MaxRequests = 1
  Environment = {"callerCrash", "storeError", "overrun", "refresh", "replay"}
INVARIANTS TypeOK EndIsAcknowledged
CHECK_DEADLOCK FALSE
