---------------------------- MODULE MCOneWayAuth ----------------------------
(***************************************************************************)
(* Instances of OneWayAuth for TLC.  The acceptor b trusts the institutions  *)
(* of a and f.  a and b run this code; f, a member, and r, which is not one,  *)
(* do not.                                                                   *)
(***************************************************************************)
EXTENDS OneWayAuth, TLC

CONSTANTS a, b, f, r, s1, s2

MCEndpoints == {a, b, f, r}
MCKeyOf == [e \in MCEndpoints |-> e]
MCRoster == [e \in MCEndpoints |-> IF e = b THEN {a, f} ELSE {}]
MCSkewOne == [e \in MCEndpoints |-> 1]
MCNoLimit == [e \in MCEndpoints |-> Unlimited]
MCClockExact == [e \in MCEndpoints |-> 0]
MCClockBehind == a :> -1 @@ MCClockExact    \* a started before the epoch
MCClockAhead == a :> 1 @@ MCClockExact

MCSessions == {s1, s2}

\* r is reached by a, and reaches b itself.
RelayFrom == s1 :> a @@ s2 :> r
RelayTo == s1 :> r @@ s2 :> b

\* f reaches b twice; b checks no timestamps.
ReplayFrom == [s \in MCSessions |-> f]
ReplayTo == [s \in MCSessions |-> b]
ReplaySymmetry == Permutations(MCSessions)

\* a and f both reach b.
MembersFrom == s1 :> a @@ s2 :> f
MembersTo == ReplayTo
=============================================================================
