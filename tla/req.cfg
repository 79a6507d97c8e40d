CONSTANTS
  Null = Null
  Undef = Undef
  SMQ_SIZE = 3
  LenMax = 15
  MAXBUF = 5
  Upper <- MCUpper
  Methods <- MCMethods
  Combinable <- MCCombinable
  Digits <- MCDigits
  SafeChars <- MCSafe
  Bodies <- MCBodies
  Addresses <- MCAddresses
  Ports <- MCPorts
  Limits <- MCLimits
SPECIFICATION MCSpec
INVARIANT FirstMatchServes
INVARIANT ReferencesOfService
INVARIANT ViewsAgree
INVARIANT BodyExact
INVARIANT LocationsLeadBack
