SPECIFICATION DFairSpec
CONSTANTS
  a = a
  b = b
  s1 = s1
  s2 = s2
  d1 = d1
  d2 = d2
  None = None
  Lost = Lost
  Unlimited = Unlimited
  Endpoints <- MCEndpoints
  Ours <- MCEndpoints
  Sessions <- MCSessions
  From <- MCFrom
  To <- MCTo
  KeyOf <- MCKeyOf
  Roster <- MCRoster
  MaxSkew <- MCNoSkew
  ClockError <- MCClock
  MaxTime = 1
  ForeignTimes = {}
  CloseCodes = {}
  U32 = 1000
  Client = a
  Dials <- MCDials
  Target <- MCTarget
  Capacity = 1
  Bare = {}
INVARIANTS
  ReleasedIsAdmitted
PROPERTIES
  DialsDecided
  AcceptorsReleased
CHECK_DEADLOCK FALSE
