CONSTANTS
  u1 = u1  h1 = h1
  Workers = {w1}
  Scheduler = Scheduler
  Gateway = Gateway
  Clients = {c1}
  Grants = {g1}
  Sessions = {s1}
  Users = {u1}
  Hosts = {h1}
  Owner <- OneOwner
  Target <- OneTarget
  Strict = {h1}
  AutoRevoke = TRUE
  MaxSessions = 1
  Ageing = {s1}
  MaxLines = 1
  MaxFaults = 1
  None = None
SPECIFICATION FairSpec
INVARIANTS TypeOK SealIsExact RowsAgree
PROPERTIES StraySessionsEnd OrphansEnd
