SPECIFICATION Spec
CONSTANTS
  a = a
  b = b
  f = f
  r = r
  s1 = s1
  s2 = s2
  None = None
  Lost = Lost
  Unlimited = Unlimited
  Endpoints <- MCEndpoints
  Ours = {a, b}
  Sessions <- MCSessions
  From <- ReplayFrom
  To <- ReplayTo
  KeyOf <- MCKeyOf
  Roster <- MCRoster
  MaxSkew <- MCNoLimit
  ClockError <- MCClockExact
  MaxTime = 1
  ForeignTimes = {0, 1}
  CloseCodes = {1}
  U32 = 1000
SYMMETRY ReplaySymmetry
INVARIANTS
  NoReplay
CHECK_DEADLOCK FALSE
