CONSTANTS
  Sessions = {1}
  Tests = {}
  Admins = {}
  Monitor = Monitor
  Other = Other
  Pool = 1
  MaxFaults = 0
  None = None

SPECIFICATION Spec
PROPERTY SealedIsClosed
