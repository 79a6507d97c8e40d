SPECIFICATION FairSpec
CONSTANTS
  MaxJobs = 3
  MaxCancels = 2
  MaxTime = 2
INVARIANT SleepsOnFirstJob
INVARIANT CancelledInTimeNeverRuns
PROPERTY ImplementsJobSet
PROPERTY EveryJobEnds
