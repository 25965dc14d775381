----------------------------- MODULE MCFraming ------------------------------
(***************************************************************************)
(* Instances of Framing for TLC, with two-bit lengths: messages of no byte,   *)
(* within the limit, above it, and too long for a prefix.                     *)
(***************************************************************************)
EXTENDS Framing

MCMessages == {<<>>, <<1>>, <<0, 1>>, <<1, 1, 0>>, <<0, 0, 0, 0>>}
=============================================================================
