CONSTANTS
  p1 = p1  p2 = p2  p3 = p3  k1 = k1  t1 = t1  t2 = t2  z1 = z1  z2 = z2
  Places = {p1, p2, p3}
  Keys = {k1}
  Threads = {t1, t2}
  Wizards = {z1, z2}
  RateLimit = 1
  None = None
  MaxRequests = 4
  MaxFaults = 1
SPECIFICATION FairSpec
INVARIANTS TypeOK RegistrationKeepsItsPlace RateLimitSlack SubmissionIsOneResource
PROPERTIES CreatedWasTested CompletionsEnd
CHECK_DEADLOCK FALSE
