CONSTANTS
  s1 = s1  s2 = s2  w1 = w1  w2 = w2  c1 = c1
  Secrets = {s1, s2}
  Files = {s2}
  HostKey = s1
  Admins = {w1}
  Scheduler = Scheduler
  Callers = {c1}
  RiskEngine = FALSE
  None = None
  MaxDue = 1
  MaxRequests = 3
  MaxFaults = 1
SPECIFICATION FairSpec
INVARIANTS OneActiveVersion ServedIsCurrent
PROPERTIES NoQuietRevival DueAreRotated LockComesBack
CHECK_DEADLOCK FALSE
