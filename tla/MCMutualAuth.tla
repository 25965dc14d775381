---------------------------- MODULE MCMutualAuth ----------------------------
(***************************************************************************)
(* Instances of MutualAuth for TLC.  a and b run this code, c does not.       *)
(***************************************************************************)
EXTENDS MutualAuth, TLC

CONSTANTS a, b, c, s1, s2

MCEndpoints == {a, b, c}
MCSessions == {s1, s2}
MCKeyOf == [e \in MCEndpoints |-> e]

MCSkewOne == [role \in Roles |-> 1]
MCNoLimit == ROLE_INITIATOR :> 1 @@ ROLE_ACCEPTOR :> Unlimited
MCClockExact == [e \in MCEndpoints |-> 0]
MCClockBehind == b :> -1 @@ MCClockExact    \* b started before the epoch
MCClockAhead == a :> 1 @@ MCClockExact

\* a and b, which trust each other, dial each other.
CrossedFrom == s1 :> a @@ s2 :> b
CrossedTo == s1 :> b @@ s2 :> a
MutualRoster == a :> {b} @@ b :> {a} @@ c :> {}

\* a, which trusts c, dials it; c dials b, which trusts only a.
RelayFrom == s1 :> a @@ s2 :> c
RelayTo == s1 :> c @@ s2 :> b
RelayRoster == a :> {c} @@ b :> {a} @@ c :> {}

\* c, a member, dials b twice; b checks no timestamps.
ReplayFrom == [s \in MCSessions |-> c]
ReplayTo == [s \in MCSessions |-> b]
ReplayRoster == a :> {} @@ b :> {c} @@ c :> {}
ReplaySymmetry == Permutations(MCSessions)
=============================================================================
