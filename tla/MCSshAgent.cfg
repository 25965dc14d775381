SPECIFICATION Spec
CONSTANTS
  Base = 16
  LenBytes = 1
  KeyLists <- MCKeyLists
  Wants <- MCWants
  Message <- MCMessage
  Garbage <- MCGarbage
  PkLen = 1
  SigLen = 2
  Usize = 16
  None = None
INVARIANTS
  TypeOK
  FirstCandidateIsUsed
  NeverPanics
  SignatureVerifies
CHECK_DEADLOCK FALSE
