CONSTANTS
  u1 = u1  u2 = u2  s1 = s1  t1 = t1  t2 = t2
  Users = {u1, u2}
  Servers = {s1}
  Threads = {t1, t2}
  MaxGroups = 3
  Rows <- MCRows
  Rules <- MCRules
  Templates <- MCTemplates
  Limits = {{30}}
  Minutes = {30}
  None = None
  MaxRequests = 2
  MaxFaults = 1
SPECIFICATION Spec
INVARIANTS TypeOK
PROPERTIES   CancelledWithScope
SYMMETRY Anyone
CHECK_DEADLOCK FALSE
