SPECIFICATION WorkflowSpec
CONSTANTS
  n1 = n1
  n2 = n2
  n3 = n3
  yes = yes
  no = no
  Nodes = {n1, n2, n3}
  Branches = {yes, no}
  Scenarios <- MCScenarios
  MaxConcurrentRuns = 2
  Executors = {x1, x2}
  Retriers = {r1}
  MaxAttempt = 1
  MaxStalls = 1
  None = None
PROPERTY
  RetryMakesAttempt
CHECK_DEADLOCK FALSE
