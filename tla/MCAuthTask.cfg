SPECIFICATION FairSpec
CONSTANTS
  d1 = d1
  d2 = d2
  d3 = d3
  ra = ra
  rb = rb
  t1 = t1
  t2 = t2
  Dials <- MCDials
  Remotes <- MCRemotes
  Target <- MCTarget
  Tasks <- MCTasks
  Capacity = 2
  InboundPeers = {rb}
  Responsive = {ra}
INVARIANTS
  TypeOK
  AcceptedIsProved
  OneHandshakePerRemote
  AuthenticatesOnce
  NoStrandedDial
PROPERTIES
  GateSpec
  EveryDialDecided
CHECK_DEADLOCK FALSE
