\* Signer: three handshakes share a signer, on two threads.
SPECIFICATION FairSpec
CONSTANTS
  Calls = {c1, c2, c3}
  Threads = 2
  None = None
INVARIANTS
  SignatureIsOwn
  ContextIsOwn
PROPERTIES
  EveryCallAnswered
CHECK_DEADLOCK FALSE
