SPECIFICATION Spec
CONSTANTS
  a = a
  b = b
  f = f
  r = r
  s1 = s1
  s2 = s2
  None = None
  Lost = Lost
  Unlimited = Unlimited
  Endpoints <- MCEndpoints
  Ours = {a, b}
  Sessions <- MCSessions
  From <- RelayFrom
  To <- RelayTo
  KeyOf <- MCKeyOf
  Roster <- MCRoster
  MaxSkew <- MCSkewOne
  ClockError <- MCClockBehind
  MaxTime = 2
  ForeignTimes = {0, 1}
  CloseCodes = {0, 1, 1001}
  U32 = 1000
INVARIANTS
  TypeOK
  MembersOnly
CHECK_DEADLOCK FALSE
