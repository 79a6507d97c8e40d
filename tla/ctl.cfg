SPECIFICATION Spec
CONSTANTS
  Null = Null
  Unset = Unset
  Conns = {c1, c2}
  Config <- MCConfig
  CommandLines <- MCCommands
  KeyOrder <- MCKeyOrder
  Keys <- MCKeys
  Answers <- MCAnswers
  Garbage <- MCGarbage
  BackendIds <- MCBackendIds
  KEY_SIZE = 2
  INT_MAX = 15
  LONG_MAX = 127
  MaxIndent = 80
  MaxNumber = 10
  MaxCommands = 2
  MaxEvents = 1
  Cuts = 2
INVARIANTS
  ListingTrue
  ReplyUnderstood
  ExitTruth
  ControlReachable
SYMMETRY Symmetry
CHECK_DEADLOCK FALSE
