SPECIFICATION Spec
CONSTANTS
  a = a
  b = b
  c = c
  s1 = s1
  s2 = s2
  None = None
  Lost = Lost
  Unlimited = Unlimited
  Endpoints <- MCEndpoints
  Ours = {a, b}
  Sessions <- MCSessions
  From <- RelayFrom
  To <- RelayTo
  KeyOf <- MCKeyOf
  Roster <- RelayRoster
  MaxSkew <- MCSkewOne
  ClockError <- MCClockBehind
  MaxTime = 1
  ForeignTimes = {0}
  CloseCodes = {1001}
  U32 = 1000
INVARIANTS
  TypeOK
  TrustIsMutual
  AnswersOnlyVerified
CHECK_DEADLOCK FALSE
