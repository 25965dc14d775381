------------------------------- MODULE MCEcho -------------------------------
(***************************************************************************)
(* An instance of Echo for TLC: a dials b, which has it on its roster, and    *)
(* hosp2, which has not; lab, which is on b's roster too, dials b without a   *)
(* hook.                                                                     *)
(***************************************************************************)
EXTENDS Echo, TLC

CONSTANTS a, b, hosp2, lab, s1, s2, d1, d2

MCEndpoints == {a, b, hosp2, lab}
MCSessions == {s1, s2}
MCDials == {d1, d2}
MCFrom == [s \in MCSessions |-> a]
MCTo == s1 :> b @@ s2 :> hosp2
MCTarget == d1 :> b @@ d2 :> hosp2
MCBare == {<<lab, b>>}
MCKeyOf == [e \in MCEndpoints |-> e]
MCRoster == b :> {a, lab} @@ [e \in MCEndpoints |-> {lab}]
MCNoLimit == [e \in MCEndpoints |-> Unlimited]
MCClock == [e \in MCEndpoints |-> 0]
=============================================================================
