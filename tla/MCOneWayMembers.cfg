SPECIFICATION FairSpec
CONSTANTS
  a = a
  b = b
  f = f
  r = r
  s1 = s1
  s2 = s2
  None = None
  Lost = Lost
  Unlimited = Unlimited
  Endpoints <- MCEndpoints
  Ours = {a, b}
  Sessions <- MCSessions
  From <- MembersFrom
  To <- MembersTo
  KeyOf <- MCKeyOf
  Roster <- MCRoster
  MaxSkew <- MCSkewOne
  ClockError <- MCClockAhead
  MaxTime = 3
  ForeignTimes = {1}
  CloseCodes = {1}
  U32 = 1000
INVARIANTS
  VerdictIsRecorded
  DeniedOnlyForSkew
PROPERTIES
  AdmissionSpec
  HandshakeEnds
CHECK_DEADLOCK FALSE
