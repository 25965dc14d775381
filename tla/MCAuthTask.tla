----------------------------- MODULE MCAuthTask -----------------------------
(***************************************************************************)
(* An instance of AuthTask for TLC: dials of which two want the same remote,  *)
(* a channel that two requests fill, and a slot for each remote.              *)
(***************************************************************************)
EXTENDS AuthTask, TLC

CONSTANTS d1, d2, d3, ra, rb, t1, t2

MCDials == {d1, d2, d3}
MCRemotes == {ra, rb}
MCTarget == d1 :> ra @@ d2 :> ra @@ d3 :> rb
MCTasks == {t1, t2}
=============================================================================
