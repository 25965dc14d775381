------------------------------- MODULE Bytes --------------------------------
(***************************************************************************)
(* Big-endian length prefixes: u32::to_be_bytes and u32::from_be_bytes, with  *)
(* bytes 0..Base-1 and LenBytes of them in a prefix (256 and 4 in the code).  *)
(***************************************************************************)
EXTENDS Naturals, Sequences, SequencesExt

CONSTANTS Base, LenBytes

ASSUME BytesAssumption == Base \in Nat \ {0, 1} /\ LenBytes \in Nat \ {0}

Byte == 0..Base - 1

\* Base to the power of k: the prover knows nothing of ^.
Power[k \in 0..LenBytes] == IF k = 0 THEN 1 ELSE Power[k-1] * Base

U32 == Power[LenBytes]

to_be_bytes(n) == [i \in 1..LenBytes |-> (n \div Power[LenBytes - i]) % Base]

from_be_bytes(bytes) ==
  LET value[i \in 0..Len(bytes)] == IF i = 0 THEN 0 ELSE value[i-1] * Base + bytes[i]
  IN  value[Len(bytes)]
=============================================================================
