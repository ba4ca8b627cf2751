CONSTANTS
  g1 = g1  g2 = g2  a1 = a1  s1 = s1  s2 = s2  w1 = w1  w2 = w2
  Grants = {g1}
  Accounts = {a1}
  Account <- OneAccount
  Shells = {s1}
  Home <- SameHome
  Workers = {w1}
  Scheduler = Scheduler
  None = None
  MaxRows = 2
  MaxLines = 3
  MaxRequests = 1
  MaxFaults = 1
  Launched = {g1}
  Kinds <- CriticalLast
  RiskEngine = FALSE
  AutoRevoke = TRUE
SPECIFICATION Spec
INVARIANTS TypeOK   
