SPECIFICATION Spec
CONSTANTS
  e1 = e1
  s1 = s1
  Events = {e1, e2}
  Subs = {s1, s2}
  Workers = {w1, w2}
  Wants <- MCWants
  Capacity = 1
  MaxRetries = 1
  Nothing = Nothing
INVARIANTS
  TypeOK
  Attended
  SettledForEach
PROPERTIES
  QueuedIsProcessed
  StopReturns
  Promise
