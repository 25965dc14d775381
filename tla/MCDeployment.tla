---------------------------- MODULE MCDeployment ----------------------------
(***************************************************************************)
(* An instance of Deployment for TLC: a dials b twice, so that the second     *)
(* dial joins, follows or repeats the first one's handshake.  b tolerates no  *)
(* skew: it denies the handshake during which the clock moves.                *)
(***************************************************************************)
EXTENDS Deployment

CONSTANTS a, b, s1, s2, d1, d2

MCEndpoints == {a, b}
MCSessions == {s1, s2}
MCDials == {d1, d2}
MCFrom == [s \in MCSessions |-> a]
MCTo == [s \in MCSessions |-> b]
MCTarget == [d \in MCDials |-> b]
MCKeyOf == [e \in MCEndpoints |-> e]
MCRoster == [e \in MCEndpoints |-> {a}]
MCNoSkew == [e \in MCEndpoints |-> 0]
MCClock == [e \in MCEndpoints |-> 0]
=============================================================================
