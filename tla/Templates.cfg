CONSTANTS
  n1 = n1  n2 = n2  g1 = g1  t1 = t1  t2 = t2
  Names = {n1, n2}
  Home <- OneSeeded
  Groups = {g1}
  Threads = {t1, t2}
  None = None
  MaxRequests = 3
  MaxRestarts = 1
SPECIFICATION Spec
INVARIANTS DefaultsAreAllowed ManualServersArePinned
SYMMETRY Anyone
CHECK_DEADLOCK FALSE
