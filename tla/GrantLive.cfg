CONSTANTS
  w1 = w1  w2 = w2  u1 = u1  u2 = u2  h1 = h1  h2 = h2  n1 = n1  r1 = r1  r2 = r2
  Workers = {w1}
  Scheduler = Scheduler
  Nobody = Nobody
  Requests = {r1}
  Users = {u1}
  Hosts = {h1}
  Names = {n1}
  Subject <- OneUser
  Target <- OneServer
  AccessType <- TwoLevels
  LinuxName <- SharedName
  ForeignLines <- AllAccounts
  Retirable = {}
  Movable = {}
  MaxActive = 1
  MaxGrants = 2
  MaxFaults = 1
SPECIFICATION FairSpec
PROPERTIES DueGrantsEnd ApiComesBack
