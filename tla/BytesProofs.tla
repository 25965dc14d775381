---------------------------- MODULE BytesProofs -----------------------------
(***************************************************************************)
(* What the proofs about Framing and SshAgent need of byte strings and of     *)
(* length prefixes, and the induction that facts about strings and lengths    *)
(* of any size rest on.                                                      *)
(***************************************************************************)
EXTENDS Bytes, SequenceTheorems, WellFoundedInduction, TLAPS

(***************************************************************************)
(* Induction.  The library states it for a predicate, which is an operator;   *)
(* here it is stated for a set, from the fact that Nat is well-founded.       *)
(***************************************************************************)
LEMMA LeastNumber ==
  ASSUME NEW T \in SUBSET Nat, T # {}
  PROVE  \E m \in T : \A k \in T : m <= k
<1> DEFINE R == {ss \in Nat \X Nat : ss[1] < ss[2]}
<1>1. IsWellFoundedOn(R, Nat)
  BY NatLessThanWellFounded DEF OpToRel
<1>2. PICK m \in T : \A k \in T : ~(<<k, m>> \in R)
  <2> HIDE DEF R
  <2> QED
    BY <1>1, WFMin
<1>3. \A k \in T : m <= k
  <2> TAKE k \in T
  <2>1. k \in Nat /\ m \in Nat
    OBVIOUS
  <2>2. <<k, m>> \in Nat \X Nat /\ <<k, m>>[1] = k /\ <<k, m>>[2] = m
    BY <2>1
  <2>3. ~(k < m)
    BY <1>2, <2>1, <2>2
  <2> QED
    BY <2>1, <2>3
<1> QED
  BY <1>3

\* Induction up to n.
LEMMA Induction ==
  ASSUME NEW n \in Nat, NEW T, 0 \in T, \A i \in 1..n : i - 1 \in T => i \in T
  PROVE  \A i \in 0..n : i \in T
<1> DEFINE U == {i \in 0..n : i \notin T}
<1>1. SUFFICES ASSUME U # {} PROVE FALSE
  OBVIOUS
<1>2. U \in SUBSET Nat
  OBVIOUS
<1>3. PICK m \in U : \A k \in U : m <= k
  <2> HIDE DEF U
  <2> QED
    BY <1>1, <1>2, LeastNumber
<1>4. m \in 1..n /\ m - 1 \in 0..n /\ m \notin T /\ ~(m <= m - 1)
  BY <1>3
<1>5. m - 1 \in T
  BY <1>3, <1>4
<1> QED
  BY <1>4, <1>5

\* f begins with d and goes from each value to the next by step.
StepsFrom(d, n, step, f) == f[0] = d /\ \A i \in 1..n : f[i] = step[i][f[i-1]]

\* Recursion up to n: a function that steps from each value to the next exists.
LEMMA Recursion ==
  ASSUME NEW D, NEW d \in D, NEW n \in Nat, NEW step \in [1..n -> [D -> D]]
  PROVE  \E f \in [0..n -> D] : StepsFrom(d, n, step, f)
<1> DEFINE G(f, k) == f[0] = d /\ \A i \in 1..k : f[i] = step[i][f[i-1]]
           T == {k \in 0..n : \E f \in [0..k -> D] : G(f, k)}
<1>1. 0 \in T
  <2>1. [i \in 0..0 |-> d] \in [0..0 -> D] /\ G([i \in 0..0 |-> d], 0)
    OBVIOUS
  <2> HIDE DEF G
  <2>2. 0 \in 0..n /\ \E f \in [0..0 -> D] : G(f, 0)
    BY <2>1
  <2> QED
    BY <2>2
<1>2. ASSUME NEW k \in 0..n, k + 1 \in 1..n, NEW f \in [0..k -> D], G(f, k)
      PROVE  \E g \in [0..k+1 -> D] : G(g, k + 1)
  <2> DEFINE v == step[k + 1][f[k]]
             g == [i \in 0..k+1 |-> IF i = k + 1 THEN v ELSE f[i]]
  <2>1. v \in D
    <3>1. k \in 0..k
      OBVIOUS
    <3>2. f[k] \in D
      BY <3>1
    <3>3. step[k + 1] \in [D -> D]
      BY <1>2
    <3> QED
      BY <3>2, <3>3
  <2>2. v = step[k + 1][f[k]]
    OBVIOUS
  <2> HIDE DEF v
  <2>3. \A i \in 0..k : i \in 0..k+1 /\ i # k + 1 /\ g[i] = f[i]
    OBVIOUS
  <2>4. k + 1 \in 0..k+1 /\ g[k + 1] = v
    OBVIOUS
  <2>5. g \in [0..k+1 -> D]
    BY <2>1
  <2> HIDE DEF g
  <2>6. g[0] = d
    BY <1>2, <2>3
  <2>7. ASSUME NEW i \in 1..k+1
        PROVE  g[i] = step[i][g[i-1]]
    <3>1. i - 1 \in 0..k /\ (i = k + 1 \/ i \in 1..k)
      OBVIOUS
    <3>2. g[i-1] = f[i-1]
      BY <2>3, <3>1
    <3>3. CASE i = k + 1
      <4>1. i - 1 = k
        BY <3>3
      <4> QED
        BY <2>2, <2>4, <3>2, <3>3, <4>1
    <3>4. CASE i \in 1..k
      <4>1. f[i] = step[i][f[i-1]]
        BY <1>2, <3>4
      <4>2. g[i] = f[i]
        BY <2>3, <3>4
      <4> QED
        BY <3>2, <4>1, <4>2
    <3> QED
      BY <3>1, <3>3, <3>4
  <2>8. G(g, k + 1)
    BY <2>6, <2>7
  <2> QED
    BY <2>5, <2>8
<1>3. ASSUME NEW i \in 1..n, i - 1 \in T PROVE i \in T
  <2>1. i - 1 \in 0..n /\ (i - 1) + 1 = i
    OBVIOUS
  <2>2. PICK f \in [0..i - 1 -> D] : G(f, i - 1)
    BY <1>3
  <2> HIDE DEF G
  <2>3. \E g \in [0..(i - 1) + 1 -> D] : G(g, (i - 1) + 1)
    BY <1>2, <2>1, <2>2
  <2> QED
    BY <2>1, <2>3
<1>4. n \in T
  <2> HIDE DEF T
  <2>1. \A i \in 0..n : i \in T
    BY <1>1, <1>3, Induction
  <2> QED
    BY <2>1
<1> QED
  BY <1>4 DEF StepsFrom
-----------------------------------------------------------------------------
(***************************************************************************)
(* Strings of bytes.                                                         *)
(***************************************************************************)

\* Two strings whose beginnings have one length can be taken apart.
LEMMA Cancel ==
  ASSUME NEW S, NEW a \in Seq(S), NEW b \in Seq(S), NEW x \in Seq(S), NEW y \in Seq(S),
         Len(a) = Len(b), a \o x = b \o y
  PROVE  a = b /\ x = y
<1>1. \A i \in 1..Len(a) : a[i] = b[i]
  <2> TAKE i \in 1..Len(a)
  <2>1. (a \o x)[i] = a[i] /\ (b \o y)[i] = b[i]
    OBVIOUS
  <2> QED
    BY <2>1
<1>2. a = b
  BY <1>1, SeqEqual
<1>3. x = y
  BY <1>2, ConcatSimplifications
<1> QED
  BY <1>2, <1>3

LEMMA Assoc ==
  \A a, b, c \in Seq(Byte) : (a \o b) \o c = a \o (b \o c)
  BY ConcatAssociative

\* What a chunk takes from a stream and what it leaves.
LEMMA Split ==
  ASSUME NEW S, NEW s \in Seq(S), NEW k \in 1..Len(s)
  PROVE  /\ SubSeq(s, 1, k) \in Seq(S) /\ Len(SubSeq(s, 1, k)) = k
         /\ SubSeq(s, k + 1, Len(s)) \in Seq(S)
         /\ SubSeq(s, 1, k) \o SubSeq(s, k + 1, Len(s)) = s
<1>1. Len(s) \in Nat /\ k \in Nat /\ 1 <= k /\ k <= Len(s)
  OBVIOUS
<1>2. SubSeq(s, 1, k) \in Seq(S) /\ Len(SubSeq(s, 1, k)) = k
  OBVIOUS
<1>3. SubSeq(s, k + 1, Len(s)) \in Seq(S)
  OBVIOUS
<1>4. 1 \in 1..Len(s) + 1 /\ k \in 1 - 1..Len(s) /\ Len(s) \in k..Len(s)
  BY <1>1
<1>5. SubSeq(s, 1, k) \o SubSeq(s, k + 1, Len(s)) = SubSeq(s, 1, Len(s))
  BY <1>4, ConcatAdjacentSubSeq
<1>6. SubSeq(s, 1, Len(s)) = s
  BY SubSeqFull
<1> QED
  BY <1>2, <1>3, <1>5, <1>6

\* A string is found again between what precedes it and what follows it.
LEMMA Middle ==
  ASSUME NEW x \in Seq(Byte), NEW a \in Seq(Byte), NEW c \in Seq(Byte)
  PROVE  SubSeq(x \o (a \o c), Len(x) + 1, Len(x) + Len(a)) = a
<1> DEFINE b == x \o (a \o c)
           m == Len(x) + 1
           n == Len(x) + Len(a)
<1>1. Len(x) \in Nat /\ Len(a) \in Nat /\ Len(c) \in Nat
  OBVIOUS
<1>2. \A i \in 1..Len(a) : b[Len(x) + i] = a[i]
  <2> TAKE i \in 1..Len(a)
  <2>1. a \o c \in Seq(Byte) /\ Len(a \o c) = Len(a) + Len(c) /\ (a \o c)[i] = a[i]
    BY ConcatProperties
  <2>2. Len(x) + i \in 1..Len(x) + Len(a \o c) /\ ~(Len(x) + i <= Len(x))
    BY <1>1, <2>1
  <2>3. b[Len(x) + i] = (a \o c)[(Len(x) + i) - Len(x)]
    BY <2>1, <2>2, ConcatProperties
  <2>4. (Len(x) + i) - Len(x) = i
    BY <1>1
  <2> QED
    BY <2>1, <2>3, <2>4
<1>3. \A j \in m..n : b[j] \in Byte
  <2> TAKE j \in m..n
  <2>1. j - Len(x) \in 1..Len(a) /\ Len(x) + (j - Len(x)) = j
    BY <1>1
  <2>2. b[j] = a[j - Len(x)]
    BY <1>2, <2>1
  <2> QED
    BY <2>1, <2>2, ElementOfSeq
<1> HIDE DEF b
<1>4. /\ SubSeq(b, m, n) \in Seq(Byte)
      /\ Len(SubSeq(b, m, n)) = Len(a)
      /\ \A i \in 1..Len(a) : SubSeq(b, m, n)[i] = b[Len(x) + i]
  <2>1. m \in Int /\ n \in Int /\ n - m + 1 = Len(a)
    BY <1>1
  <2>2. /\ SubSeq(b, m, n) \in Seq(Byte)
        /\ Len(SubSeq(b, m, n)) = IF m <= n THEN n - m + 1 ELSE 0
        /\ \A i \in 1..n - m + 1 : SubSeq(b, m, n)[i] = b[m + i - 1]
    BY <1>3, <2>1, SubSeqProperties
  <2>3. \A i \in 1..Len(a) : m + i - 1 = Len(x) + i
    BY <1>1
  <2>4. (IF m <= n THEN n - m + 1 ELSE 0) = Len(a)
    BY <1>1
  <2> QED
    BY <2>1, <2>2, <2>3, <2>4
<1>5. SubSeq(b, m, n) = a
  BY <1>2, <1>4, SeqEqual
<1> QED
  BY <1>5 DEF b

\* at gives the beginnings of a concatenation: at[i] is what ends with the i-th part.
Beginnings(at, first, parts) ==
  /\ at \in [0..Len(parts) -> Seq(Byte)]
  /\ at[0] = first
  /\ \A i \in 1..Len(parts) : at[i] = at[i-1] \o parts[i]

\* FlattenSeq concatenates its parts one by one.
LEMMA FlattenIs ==
  ASSUME NEW parts \in Seq(Seq(Byte))
  PROVE  \E at : Beginnings(at, <<>>, parts) /\ FlattenSeq(parts) = at[Len(parts)]
<1> DEFINE n == Len(parts)
           D == Seq(Byte)
           step == [i \in 1..n |-> [s \in D |-> s \o parts[i]]]
           Def(f) == [i \in 1..n |-> IF i = 1 THEN parts[i] ELSE f[i-1] \o parts[i]]
           flatten == CHOOSE f : f = Def(f)
<1>0. n \in Nat /\ <<>> \in D /\ \A i \in 1..n : parts[i] \in D
  BY ElementOfSeq, LenProperties, EmptySeq
<1>1. FlattenSeq(parts) = IF n = 0 THEN parts ELSE flatten[n]
  BY DEF FlattenSeq
<1>2. n = 0 => parts = <<>>
  BY EmptySeq
<1> HIDE DEF n
<1>3. step \in [1..n -> [D -> D]]
  <2>1. \A i \in 1..n : \A s \in D : s \o parts[i] \in D
    BY <1>0, ConcatProperties
  <2> HIDE DEF D
  <2> QED
    BY <2>1
<1>4. PICK at \in [0..n -> D] : StepsFrom(<<>>, n, step, at)
  <2> HIDE DEF step, D
  <2> QED
    BY <1>0, <1>3, Recursion
<1>5. \A i \in 1..n : i - 1 \in 0..n /\ at[i-1] \in D /\ at[i] = at[i-1] \o parts[i]
  <2> TAKE i \in 1..n
  <2>1. i - 1 \in 0..n
    BY <1>0
  <2>2. at[i-1] \in D /\ at[i] = step[i][at[i-1]]
    BY <1>4, <2>1 DEF StepsFrom
  <2> HIDE DEF D
  <2> QED
    BY <2>1, <2>2
<1>6. at[0] = <<>>
  BY <1>4 DEF StepsFrom
<1> HIDE DEF step
<1>7. Beginnings(at, <<>>, parts)
  BY <1>5, <1>6 DEF Beginnings, n
<1>8. ASSUME n # 0
      PROVE  flatten[n] = at[n]
  <2> DEFINE g == [i \in 1..n |-> at[i]]
  <2>1. n \in 1..n /\ 1 \in 1..n
    BY <1>0, <1>8
  <2>2. at[1] = parts[1]
    <3>1. at[1] = at[0] \o parts[1] /\ parts[1] \in Seq(Byte)
      <4>1. 1 - 1 = 0
        OBVIOUS
      <4> QED
        BY <1>0, <1>5, <2>1, <4>1
    <3> QED
      BY <1>6, <3>1, ConcatEmptySeq
  <2>3. \A i \in 1..n : g[i] = IF i = 1 THEN parts[i] ELSE g[i-1] \o parts[i]
    <3> TAKE i \in 1..n
    <3>1. g[i] = at[i] /\ (i # 1 => i - 1 \in 1..n)
      BY <1>0
    <3> QED
      BY <1>5, <2>2, <3>1
  <2>4. g = Def(g)
    BY <2>3
  <2>5. flatten = Def(flatten)
    BY <2>4
  <2> HIDE DEF flatten, g
  <2> DEFINE T == {i \in 0..n : i # 0 => flatten[i] = at[i]}
  <2>6. 0 \in T
    BY <1>0
  <2>7. ASSUME NEW i \in 1..n, i - 1 \in T PROVE i \in T
    <3>1. flatten[i] = IF i = 1 THEN parts[i] ELSE flatten[i-1] \o parts[i]
      BY <2>5
    <3>2. i # 1 => flatten[i-1] = at[i-1]
      BY <2>7
    <3>3. flatten[i] = at[i]
      BY <1>5, <2>2, <3>1, <3>2
    <3> QED
      BY <1>0, <3>3
  <2>8. n \in T
    <3> HIDE DEF T
    <3>1. \A i \in 0..n : i \in T
      BY <1>0, <2>6, <2>7, Induction
    <3> QED
      BY <1>0, <3>1
  <2> QED
    BY <1>8, <2>8
<1>9. FlattenSeq(parts) = at[n]
  BY <1>1, <1>2, <1>6, <1>8
<1> QED
  BY <1>7, <1>9 DEF n

BeginsWith(s, t) == \E rest \in Seq(Byte) : s = t \o rest

\* Each beginning is followed by the rest.
LEMMA BeginningsBegin ==
  ASSUME NEW parts \in Seq(Seq(Byte)), NEW first, NEW at,
         Beginnings(at, first, parts), NEW i \in 0..Len(parts)
  PROVE  BeginsWith(at[Len(parts)], at[i])
<1> DEFINE n == Len(parts)
           T == {k \in 0..n : \E rest \in Seq(Byte) : at[n] = at[n - k] \o rest}
<1>0. n \in Nat /\ (\A k \in 1..n : parts[k] \in Seq(Byte)) /\ <<>> \in Seq(Byte)
  BY ElementOfSeq, LenProperties, EmptySeq
<1>1. /\ \A k \in 0..n : at[k] \in Seq(Byte)
      /\ \A k \in 1..n : at[k] = at[k-1] \o parts[k]
  BY DEF Beginnings
<1> HIDE DEF n
<1>2. 0 \in T
  <2>1. n - 0 = n /\ n \in 0..n /\ 0 \in 0..n
    BY <1>0
  <2>2. at[n] = at[n] \o <<>>
    BY <1>1, <2>1, ConcatEmptySeq
  <2> QED
    BY <1>0, <2>1, <2>2
<1>3. ASSUME NEW k \in 1..n, k - 1 \in T PROVE k \in T
  <2> DEFINE m == n - (k - 1)
  <2>1. m \in 1..n /\ m - 1 = n - k /\ n - k \in 0..n /\ k \in 0..n
    BY <1>0
  <2>2. PICK rest \in Seq(Byte) : at[n] = at[m] \o rest
    BY <1>3
  <2>3. at[m] = at[n - k] \o parts[m] /\ at[n - k] \in Seq(Byte) /\ parts[m] \in Seq(Byte)
    BY <1>0, <1>1, <2>1
  <2> HIDE DEF m
  <2>4. at[n] = at[n - k] \o (parts[m] \o rest) /\ parts[m] \o rest \in Seq(Byte)
    <3> DEFINE x == at[n - k]
               y == parts[m]
    <3>1. x \in Seq(Byte) /\ y \in Seq(Byte) /\ at[m] = x \o y
      BY <2>3
    <3> HIDE DEF x, y
    <3>2. (x \o y) \o rest = x \o (y \o rest)
      BY <3>1, Assoc, ZenonT(30)
    <3>3. y \o rest \in Seq(Byte)
      BY <3>1, ConcatProperties
    <3>4. at[n] = (x \o y) \o rest
      BY <2>2, <3>1
    <3> QED
      BY <3>2, <3>3, <3>4 DEF x, y
  <2> QED
    BY <2>1, <2>4
<1>4. n - i \in T /\ n - (n - i) = i
  <2> HIDE DEF T
  <2>1. \A k \in 0..n : k \in T
    BY <1>0, <1>2, <1>3, Induction
  <2>2. i \in 0..n
    BY DEF n
  <2>3. n - i \in 0..n /\ n - (n - i) = i
    BY <1>0, <2>2
  <2> QED
    BY <2>1, <2>3
<1> QED
  BY <1>4 DEF n, BeginsWith
-----------------------------------------------------------------------------
(***************************************************************************)
(* Length prefixes.                                                          *)
(***************************************************************************)

\* The powers of the base.
LEMMA PowerIs ==
  /\ Power \in [0..LenBytes -> Nat \ {0}]
  /\ Power[0] = 1
  /\ \A k \in 1..LenBytes : Power[k] = Power[k-1] * Base
<1> DEFINE D == Nat \ {0}
           step == [k \in 1..LenBytes |-> [v \in D |-> v * Base]]
           Def(f) == [k \in 0..LenBytes |-> IF k = 0 THEN 1 ELSE f[k-1] * Base]
<1>0. LenBytes \in Nat /\ Base \in D /\ 1 \in D
  BY BytesAssumption
<1>1. step \in [1..LenBytes -> [D -> D]]
  <2>1. \A v \in D : v * Base \in D
    BY <1>0
  <2> QED
    BY <2>1
<1>2. PICK f \in [0..LenBytes -> D] : StepsFrom(1, LenBytes, step, f)
  <2> HIDE DEF D, step
  <2> QED
    BY <1>0, <1>1, Recursion
<1>3. \A k \in 1..LenBytes : k - 1 \in 0..LenBytes /\ f[k-1] \in D /\ f[k] = f[k-1] * Base
  <2> TAKE k \in 1..LenBytes
  <2>1. k - 1 \in 0..LenBytes
    BY <1>0
  <2> QED
    BY <1>2, <2>1 DEF StepsFrom
<1> HIDE DEF D, step
<1>4. f = Def(f)
  <2>1. \A k \in 0..LenBytes : f[k] = IF k = 0 THEN 1 ELSE f[k-1] * Base
    <3> TAKE k \in 0..LenBytes
    <3>1. k = 0 \/ k \in 1..LenBytes
      BY <1>0
    <3> QED
      BY <1>0, <1>2, <1>3, <3>1 DEF StepsFrom
  <2> QED
    BY <2>1
<1>5. Power = Def(Power)
  BY <1>4 DEF Power
<1>6. Power[0] = 1 /\ \A k \in 1..LenBytes : Power[k] = Power[k-1] * Base
  <2>1. 0 \in 0..LenBytes /\ \A k \in 1..LenBytes : k \in 0..LenBytes /\ k # 0
    BY <1>0
  <2> QED
    BY <1>5, <2>1
<1>7. \A k \in 0..LenBytes : Power[k] \in D
  <2> DEFINE T == {k \in 0..LenBytes : Power[k] \in D}
  <2>1. 0 \in T
    BY <1>0, <1>6
  <2>2. ASSUME NEW k \in 1..LenBytes, k - 1 \in T PROVE k \in T
    <3>1. Power[k-1] \in D /\ Power[k] = Power[k-1] * Base /\ k \in 0..LenBytes
      BY <1>0, <1>6, <2>2
    <3>2. Power[k-1] * Base \in D
      BY <1>0, <3>1 DEF D
    <3> QED
      BY <3>1, <3>2
  <2>3. \A k \in 0..LenBytes : k \in T
    <3> HIDE DEF T
    <3> QED
      BY <1>0, <2>1, <2>2, Induction
  <2> QED
    BY <2>3
<1>8. Power = [k \in 0..LenBytes |-> Power[k]]
  BY <1>5
<1> QED
  BY <1>6, <1>7, <1>8 DEF D

LEMMA U32Typed == U32 \in Nat \ {0}
  BY BytesAssumption, PowerIs DEF U32

\* from_be_bytes reads digit by digit.
LEMMA ValueIs ==
  ASSUME NEW bytes \in Seq(Byte)
  PROVE  \E v \in [0..Len(bytes) -> Nat] :
           /\ v[0] = 0
           /\ \A i \in 1..Len(bytes) : v[i] = v[i-1] * Base + bytes[i]
           /\ from_be_bytes(bytes) = v[Len(bytes)]
<1> DEFINE n == Len(bytes)
           step == [i \in 1..n |-> [v \in Nat |-> v * Base + bytes[i]]]
           Def(f) == [i \in 0..n |-> IF i = 0 THEN 0 ELSE f[i-1] * Base + bytes[i]]
           value == CHOOSE f : f = Def(f)
<1>0. n \in Nat /\ Base \in Nat /\ 0 \in Nat /\ \A i \in 1..n : bytes[i] \in Nat
  <2>1. \A i \in 1..n : bytes[i] \in Byte
    BY ElementOfSeq
  <2> QED
    BY <2>1, BytesAssumption, LenProperties DEF Byte
<1>1. from_be_bytes(bytes) = value[n]
  BY DEF from_be_bytes
<1> HIDE DEF n
<1>2. step \in [1..n -> [Nat -> Nat]]
  <2>1. \A i \in 1..n : \A v \in Nat : v * Base + bytes[i] \in Nat
    BY <1>0
  <2> QED
    BY <2>1
<1>3. PICK f \in [0..n -> Nat] : StepsFrom(0, n, step, f)
  <2> HIDE DEF step
  <2> QED
    BY <1>0, <1>2, Recursion
<1>4. \A i \in 1..n : i - 1 \in 0..n /\ f[i-1] \in Nat /\ f[i] = f[i-1] * Base + bytes[i]
  <2> TAKE i \in 1..n
  <2>1. i - 1 \in 0..n
    BY <1>0
  <2> QED
    BY <1>3, <2>1 DEF StepsFrom
<1> HIDE DEF step
<1>5. f = Def(f)
  <2>1. \A i \in 0..n : f[i] = IF i = 0 THEN 0 ELSE f[i-1] * Base + bytes[i]
    <3> TAKE i \in 0..n
    <3>1. i = 0 \/ i \in 1..n
      BY <1>0
    <3> QED
      BY <1>0, <1>3, <1>4, <3>1 DEF StepsFrom
  <2> QED
    BY <2>1
<1>6. value = Def(value)
  BY <1>5
<1> HIDE DEF value
<1>7. value[0] = 0 /\ \A i \in 1..n : value[i] = value[i-1] * Base + bytes[i]
  <2>1. 0 \in 0..n /\ \A i \in 1..n : i \in 0..n /\ i # 0
    BY <1>0
  <2> QED
    BY <1>6, <2>1
<1>8. \A i \in 0..n : value[i] \in Nat
  <2> DEFINE T == {i \in 0..n : value[i] \in Nat}
  <2>1. 0 \in T
    BY <1>0, <1>7
  <2>2. ASSUME NEW i \in 1..n, i - 1 \in T PROVE i \in T
    <3>1. /\ value[i-1] \in Nat /\ value[i] = value[i-1] * Base + bytes[i] /\ i \in 0..n
          /\ bytes[i] \in Nat
      BY <1>0, <1>7, <2>2
    <3>2. value[i-1] * Base + bytes[i] \in Nat
      <4>1. \A a, b, c \in Nat : a * b + c \in Nat
        OBVIOUS
      <4> QED
        BY <1>0, <3>1, <4>1, Zenon
    <3> QED
      BY <3>1, <3>2
  <2>3. \A i \in 0..n : i \in T
    <3> HIDE DEF T
    <3> QED
      BY <1>0, <2>1, <2>2, Induction
  <2> QED
    BY <2>3
<1>9. value \in [0..n -> Nat]
  <2>1. value = [i \in 0..n |-> value[i]]
    BY <1>6
  <2> QED
    BY <1>8, <2>1
<1>10. /\ value \in [0..n -> Nat] /\ value[0] = 0
       /\ \A i \in 1..n : value[i] = value[i-1] * Base + bytes[i]
       /\ from_be_bytes(bytes) = value[n]
  BY <1>1, <1>7, <1>9
<1> QED
  BY <1>10 DEF n

\* A prefix holds no more than fits.
LEMMA ValueFits ==
  ASSUME NEW bytes \in [1..LenBytes -> Byte]
  PROVE  from_be_bytes(bytes) \in 0..U32 - 1
<1>0. LenBytes \in Nat /\ Base \in Nat \ {0}
  BY BytesAssumption
<1>1. bytes \in Seq(Byte) /\ Len(bytes) = LenBytes
  BY <1>0
<1>2. PICK v \in [0..LenBytes -> Nat] :
        /\ v[0] = 0 /\ \A i \in 1..LenBytes : v[i] = v[i-1] * Base + bytes[i]
        /\ from_be_bytes(bytes) = v[LenBytes]
  BY <1>1, ValueIs
<1> DEFINE T == {i \in 0..LenBytes : v[i] <= Power[i] - 1}
<1>3. 0 \in T
  BY <1>0, <1>2, PowerIs
<1>4. ASSUME NEW i \in 1..LenBytes, i - 1 \in T PROVE i \in T
  <2>1. /\ i - 1 \in 0..LenBytes /\ i \in 0..LenBytes /\ bytes[i] \in Byte
        /\ v[i-1] <= Power[i-1] - 1
    BY <1>0, <1>4
  <2>2. /\ v[i-1] \in Nat /\ Power[i-1] \in Nat /\ bytes[i] \in 0..Base - 1
        /\ v[i] = v[i-1] * Base + bytes[i] /\ Power[i] = Power[i-1] * Base
    BY <1>2, <2>1, PowerIs DEF Byte
  <2>3. \A a, p, b \in Nat : \A c \in 0..b - 1 : a <= p - 1 => a * b + c <= p * b - 1
    <3> TAKE a, p, b \in Nat
    <3> TAKE c \in 0..b - 1
    <3> HAVE a <= p - 1
    <3>1. a * b <= (p - 1) * b
      OBVIOUS
    <3>2. (p - 1) * b = p * b - b
      OBVIOUS
    <3> QED
      BY <3>1, <3>2
  <2>4. v[i-1] * Base + bytes[i] <= Power[i-1] * Base - 1
    BY <1>0, <2>1, <2>2, <2>3
  <2> QED
    BY <2>1, <2>2, <2>4
<1>5. LenBytes \in T
  <2> HIDE DEF T
  <2>1. \A i \in 0..LenBytes : i \in T
    BY <1>0, <1>3, <1>4, Induction
  <2> QED
    BY <1>0, <2>1
<1>6. v[LenBytes] \in Nat /\ U32 \in Nat /\ v[LenBytes] <= U32 - 1
  BY <1>0, <1>5, PowerIs DEF U32
<1> QED
  BY <1>2, <1>6

\* Dividing by a product is dividing by one factor and then by the other.
LEMMA DivDiv ==
  ASSUME NEW n \in Nat, NEW p \in Nat \ {0}, NEW b \in Nat \ {0}
  PROVE  n \div (p * b) = (n \div p) \div b
<1> DEFINE q == n \div p
           r == n % p
           d == q \div b
           s == q % b
<1>1. q \in Nat /\ r \in 0..p - 1 /\ d \in Nat /\ s \in 0..b - 1
  <2>1. q \in Nat /\ r \in 0..p - 1
    OBVIOUS
  <2> HIDE DEF q
  <2> QED
    BY <2>1
<1>2. n = q * p + r
  OBVIOUS
<1>3. q = d * b + s
  <2> HIDE DEF q
  <2> QED
    BY <1>1
<1> HIDE DEF q, r, d, s
<1>4. n = d * (p * b) + (s * p + r)
  <2>1. (d * b + s) * p = d * (p * b) + s * p
    BY <1>1
  <2> QED
    BY <1>1, <1>2, <1>3, <2>1
<1>5. s * p + r \in 0..p * b - 1
  <2>1. s * p \in Nat /\ s * p <= (b - 1) * p /\ (b - 1) * p = p * b - p
    BY <1>1
  <2>2. p * b \in Nat
    OBVIOUS
  <2> QED
    BY <1>1, <2>1, <2>2
<1>6. n \div (p * b) = d
  <2> DEFINE m == p * b
             e == s * p + r
  <2>1. m \in Nat \ {0} /\ e \in 0..m - 1 /\ n = d * m + e
    BY <1>4, <1>5
  <2> HIDE DEF m, e
  <2>2. n \div m = d
    BY <1>1, <2>1
  <2> QED
    BY <2>2 DEF m
<1> QED
  BY <1>6 DEF d, q

\* Every length that fits 32 bits (any number of bytes, in any base) is read from its
\* prefix as it was written (wire.rs write_msg and read_msg: u32::to_be_bytes and
\* u32::from_be_bytes; ssh_agent.rs put_string and Reader::string).
THEOREM PrefixRoundTrip ==
  ASSUME NEW n \in 0..U32 - 1
  PROVE  /\ to_be_bytes(n) \in [1..LenBytes -> Byte]
         /\ from_be_bytes(to_be_bytes(n)) = n
<1> DEFINE bytes == to_be_bytes(n)
<1>0. LenBytes \in Nat /\ Base \in Nat \ {0} /\ U32 \in Nat \ {0} /\ n \in Nat
  BY BytesAssumption, PowerIs DEF U32
<1>1. \A i \in 1..LenBytes : /\ LenBytes - i \in 0..LenBytes /\ Power[LenBytes - i] \in Nat \ {0}
                             /\ bytes[i] = (n \div Power[LenBytes - i]) % Base
                             /\ bytes[i] \in Byte
  <2> TAKE i \in 1..LenBytes
  <2>1. LenBytes - i \in 0..LenBytes
    BY <1>0
  <2>2. Power[LenBytes - i] \in Nat \ {0}
    BY <2>1, PowerIs
  <2>3. bytes[i] = (n \div Power[LenBytes - i]) % Base
    BY DEF to_be_bytes
  <2> DEFINE q == n \div Power[LenBytes - i]
  <2>4. q \in Nat
    BY <1>0, <2>2
  <2> HIDE DEF q
  <2>5. q % Base \in Byte
    BY <1>0, <2>4 DEF Byte
  <2> QED
    BY <2>1, <2>2, <2>3, <2>5 DEF q
<1>2. bytes \in [1..LenBytes -> Byte]
  BY <1>1 DEF to_be_bytes
<1> HIDE DEF bytes
<1>3. bytes \in Seq(Byte) /\ Len(bytes) = LenBytes
  BY <1>0, <1>2
<1>4. PICK v \in [0..LenBytes -> Nat] :
        /\ v[0] = 0 /\ \A i \in 1..LenBytes : v[i] = v[i-1] * Base + bytes[i]
        /\ from_be_bytes(bytes) = v[LenBytes]
  BY <1>3, ValueIs
<1> DEFINE T == {i \in 0..LenBytes : v[i] = n \div Power[LenBytes - i]}
<1>5. 0 \in T
  <2>1. n \div U32 = 0
    BY <1>0
  <2>2. LenBytes - 0 = LenBytes /\ 0 \in 0..LenBytes
    BY <1>0
  <2> QED
    BY <1>4, <2>1, <2>2 DEF U32
<1>6. ASSUME NEW i \in 1..LenBytes, i - 1 \in T PROVE i \in T
  <2> DEFINE p == Power[LenBytes - i]
             q == n \div p
  <2>1. p \in Nat \ {0} /\ bytes[i] = q % Base
    BY <1>1
  <2>2. Power[LenBytes - (i - 1)] = p * Base
    <3>1. LenBytes - (i - 1) \in 1..LenBytes /\ (LenBytes - (i - 1)) - 1 = LenBytes - i
      BY <1>0
    <3> QED
      BY <3>1, PowerIs
  <2>3. v[i-1] = n \div Power[LenBytes - (i - 1)]
    BY <1>6
  <2> HIDE DEF p
  <2>4. n \div (p * Base) = q \div Base
    BY <1>0, <2>1, DivDiv
  <2>5. q \in Nat
    BY <1>0, <2>1
  <2> HIDE DEF q
  <2>6. (q \div Base) * Base + (q % Base) = q
    BY <1>0, <2>5
  <2>7. v[i] = v[i-1] * Base + bytes[i]
    BY <1>4
  <2>8. v[i] = q
    BY <2>1, <2>2, <2>3, <2>4, <2>6, <2>7
  <2>9. i \in 0..LenBytes
    BY <1>0
  <2> QED
    BY <2>8, <2>9 DEF p, q
<1>7. LenBytes \in T
  <2> HIDE DEF T
  <2>1. \A i \in 0..LenBytes : i \in T
    BY <1>0, <1>5, <1>6, Induction
  <2> QED
    BY <1>0, <2>1
<1>8. v[LenBytes] = n
  <2>1. LenBytes - LenBytes = 0 /\ n \div 1 = n
    BY <1>0
  <2>2. v[LenBytes] = n \div Power[LenBytes - LenBytes]
    BY <1>7
  <2> QED
    BY <2>1, <2>2, PowerIs
<1> QED
  BY <1>2, <1>4, <1>8 DEF bytes

\* A length that fits is read from its prefix as it was.
LEMMA Prefix ==
  ASSUME NEW n \in Nat, n < U32
  PROVE  /\ to_be_bytes(n) \in Seq(Byte) /\ Len(to_be_bytes(n)) = LenBytes
         /\ from_be_bytes(to_be_bytes(n)) = n
<1>1. n \in 0..U32 - 1
  BY U32Typed
<1>2. to_be_bytes(n) \in [1..LenBytes -> Byte] /\ from_be_bytes(to_be_bytes(n)) = n
  BY <1>1, PrefixRoundTrip
<1>3. LenBytes \in Nat
  BY BytesAssumption
<1> QED
  BY <1>2, <1>3
=============================================================================
