SPECIFICATION FairSpec
CONSTANTS
  ReqKinds <- SomeRequests
  RespKinds <- SomeResponses
  Regular = {b1, b2}
  Internal = {"acme", "control", "metrics"}
  None = None
  MaxReq = 2
  MaxInterim = 2
INVARIANT ResponsesMatch
INVARIANT RequestsAligned
INVARIANT OneAnswer
INVARIANT LogComplete
PROPERTY EveryRequestEnds
CHECK_DEADLOCK FALSE
