SPECIFICATION Spec
CONSTANTS
  Backends = {b1, b2}
  Workers = {w1, w2}
  Removers = {r1, r2}
  None = None
  WithSessions = {TRUE, FALSE}
  MaxTouch = 1
  MaxLeaks = 1
SYMMETRY Symmetry
INVARIANT RefcountExact
INVARIANT NoUseAfterFree
INVARIANT RemoverAround
CHECK_DEADLOCK FALSE
