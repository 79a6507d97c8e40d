SPECIFICATION FairSpec
CONSTANTS
  Workers = {w1, w2, w3}
  Requests = {r1, r2, r3}
  None = None
  worker_min_count = 1
  worker_max_count = 3
INVARIANT CountsExact
INVARIANT WithinLimits
INVARIANT RequestInOnePlace
INVARIANT NoLostWakeup
INVARIANT DrainedMeansIdle
PROPERTY ImplementsRequestQueue
CHECK_DEADLOCK FALSE
