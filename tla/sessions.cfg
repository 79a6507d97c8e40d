SPECIFICATION FairSpec
CONSTANTS
  Keys = {k1, k2}
  Backends = {b1, b2}
  None = None
  sess_ttl = 2
  MaxTime = 5
  MaxArmed = 3
INVARIANT ListHashAgree
INVARIANT ExpiryJobPending
PROPERTY ExpiryExact
PROPERTY ExpiredSessionsRemoved
CHECK_DEADLOCK FALSE
