SPECIFICATION FairSpec
CONSTANTS
  a = a
  b = b
  c = c
  s1 = s1
  s2 = s2
  None = None
  Lost = Lost
  Unlimited = Unlimited
  Endpoints <- MCEndpoints
  Ours = {a, b}
  Sessions <- MCSessions
  From <- CrossedFrom
  To <- CrossedTo
  KeyOf <- MCKeyOf
  Roster <- MutualRoster
  MaxSkew <- MCSkewOne
  ClockError <- MCClockAhead
  MaxTime = 1
  ForeignTimes = {}
  CloseCodes = {}
  U32 = 1000
INVARIANTS
  WorksBothWays
  DeniedOnlyForDelay
  SymmetricUnlessLost
PROPERTIES
  AdmissionSpec
  CrossedHandshakesEnd
CHECK_DEADLOCK FALSE
