SPECIFICATION Spec
CONSTANTS
  a = a
  b = b
  c = c
  s1 = s1
  s2 = s2
  None = None
  Lost = Lost
  Unlimited = Unlimited
  Endpoints <- MCEndpoints
  Ours = {a, b}
  Sessions <- MCSessions
  From <- ReplayFrom
  To <- ReplayTo
  KeyOf <- MCKeyOf
  Roster <- ReplayRoster
  MaxSkew <- MCNoLimit
  ClockError <- MCClockExact
  MaxTime = 0
  ForeignTimes = {1}
  CloseCodes = {1}
  U32 = 1000
SYMMETRY ReplaySymmetry
INVARIANTS
  NoReplay
CHECK_DEADLOCK FALSE
