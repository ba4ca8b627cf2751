CONSTANTS
  w1 = w1  w2 = w2  u1 = u1  u2 = u2  h1 = h1  h2 = h2  n1 = n1  r1 = r1  r2 = r2
  Workers = {w1, w2}
  Scheduler = Scheduler
  Nobody = Nobody
  Requests = {r1, r2}
  Users = {u1, u2}
  Hosts = {h1}
  Names = {n1}
  Subject <- TwoUsers
  Target <- OneServer
  AccessType <- TwoLevels
  LinuxName <- SharedName
  ForeignLines <- AllAccounts
  Retirable = {}
  Movable = {}
  MaxActive = 1
  MaxGrants = 2
  MaxFaults = 0
SYMMETRY Symmetry
SPECIFICATION Spec
INVARIANTS SudoNeedsGrant GrantNeedsApproval
