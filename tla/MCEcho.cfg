SPECIFICATION EFairSpec
CONSTANTS
  a = a
  b = b
  hosp2 = hosp2
  lab = lab
  s1 = s1
  s2 = s2
  d1 = d1
  d2 = d2
  None = None
  Lost = Lost
  Unlimited = Unlimited
  Endpoints <- MCEndpoints
  Ours <- MCEndpoints
  Sessions <- MCSessions
  From <- MCFrom
  To <- MCTo
  KeyOf <- MCKeyOf
  Roster <- MCRoster
  MaxSkew <- MCNoLimit
  ClockError <- MCClock
  MaxTime = 0
  ForeignTimes = {}
  CloseCodes = {}
  U32 = 1000
  Client = a
  Dials <- MCDials
  Target <- MCTarget
  Capacity = 1
  Bare <- MCBare
INVARIANTS
  ServedIsMember
  NotCutOff
PROPERTIES
  EchoReturns
CHECK_DEADLOCK FALSE
