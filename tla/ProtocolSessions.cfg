CONSTANTS
  Sessions = {1, 2}
  Tests = {t1}
  Admins = {a1}
  Monitor = Monitor
  Other = Other
  Pool = 1
  MaxFaults = 1
  None = None

SPECIFICATION FairSpec
INVARIANTS TypeOK ContextHasOneOwner PermitsBalance
PROPERTIES SessionsEnd ImplementsCustody
