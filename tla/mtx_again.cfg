SPECIFICATION FairSpec
CONSTANTS
  Runners = {"r1", "r2"}
  Outcomes = {"found"}
  MaxId = 5
  MaxAdmin = 2
PROPERTY DnsQueriedAgain
CHECK_DEADLOCK FALSE
