--------------------------- MODULE SshAgentProofs ---------------------------
(***************************************************************************)
(* Proofs about SshAgent, for any keys, any message and any reply.            *)
(***************************************************************************)
EXTENDS SshAgent, BytesProofs

(***************************************************************************)
(* The Reader.                                                               *)
(***************************************************************************)

\* A read that succeeds returns the bytes after the position and moves it behind
\* them; it never panics, whatever length it is asked for.
LEMMA TakeOK ==
  ASSUME NEW b \in Seq(Byte), NEW p \in 0..Len(b), NEW n \in Nat
  PROVE  /\ take(b, p, n).st \in {"ok", "failed"}
         /\ take(b, p, n).pos \in 0..Len(b)
         /\ take(b, p, n).val \in Seq(Byte)
         /\ take(b, p, n).st = "ok" => /\ take(b, p, n) = Got(SubSeq(b, p + 1, p + n), p + n)
                                       /\ take(b, p, n).val = SubSeq(b, p + 1, p + n)
                                       /\ Len(take(b, p, n).val) = n
                                       /\ take(b, p, n).pos = p + n
<1>1. Len(b) \in Nat /\ p \in Nat /\ Usize \in Nat
  BY AgentAssumption
<1>2. CASE p + n >= Usize \/ p + n > Len(b)
  <2>1. take(b, p, n) = Failed("failed", p)
    BY <1>1, <1>2 DEF take, checked_add
  <2> QED
    BY <2>1, EmptySeq DEF Failed
<1>3. CASE ~(p + n >= Usize \/ p + n > Len(b))
  <2>1. take(b, p, n) = Got(SubSeq(b, p + 1, p + n), p + n)
    BY <1>1, <1>3 DEF take, checked_add
  <2>2. p + n <= Len(b) /\ p + n \in 0..Len(b)
    BY <1>1, <1>3
  <2>3. SubSeq(b, p + 1, p + n) \in Seq(Byte) /\ Len(SubSeq(b, p + 1, p + n)) = n
    BY <1>1, <2>2, SubSeqProperties
  <2> QED
    BY <2>1, <2>2, <2>3 DEF Got
<1> QED
  BY <1>2, <1>3

\* A read within the reply succeeds.
LEMMA TakeSucceeds ==
  ASSUME NEW b \in Seq(Byte), Len(b) < Usize, NEW p \in Nat, NEW n \in Nat, p + n <= Len(b)
  PROVE  take(b, p, n).st = "ok"
<1>1. Len(b) \in Nat /\ Usize \in Nat /\ ~(p + n >= Usize \/ p + n > Len(b)) /\ ~(p + n < p)
  BY AgentAssumption, LenProperties
<1>2. take(b, p, n) = Got(SubSeq(b, p + 1, p + n), p + n)
  BY <1>1 DEF take, checked_add
<1> QED
  BY <1>2 DEF Got

LEMMA U32OK ==
  ASSUME NEW b \in Seq(Byte), NEW p \in 0..Len(b)
  PROVE  /\ u32(b, p).st \in {"ok", "failed"}
         /\ u32(b, p).pos \in 0..Len(b)
         /\ u32(b, p).st = "ok" =>
              /\ u32(b, p).val \in 0..U32 - 1
              /\ u32(b, p).val = from_be_bytes(SubSeq(b, p + 1, p + LenBytes))
              /\ u32(b, p).pos = p + LenBytes
<1> DEFINE r == take(b, p, LenBytes)
<1>1. LenBytes \in Nat
  BY BytesAssumption
<1>2. /\ r.st \in {"ok", "failed"} /\ r.pos \in 0..Len(b) /\ r.val \in Seq(Byte)
      /\ r.st = "ok" => /\ r.val = SubSeq(b, p + 1, p + LenBytes)
                        /\ Len(r.val) = LenBytes /\ r.pos = p + LenBytes
  BY <1>1, TakeOK
<1>3. u32(b, p) = IF r.st = "ok" THEN Got(from_be_bytes(r.val), r.pos) ELSE r
  BY DEF u32, Then
<1> HIDE DEF r
<1>4. CASE r.st = "ok"
  <2>1. r.val \in [1..LenBytes -> Byte]
    BY <1>2, <1>4, LenProperties
  <2>2. from_be_bytes(r.val) \in 0..U32 - 1
    BY <2>1, ValueFits
  <2>3. u32(b, p) = Got(from_be_bytes(r.val), r.pos)
    BY <1>3, <1>4
  <2>4. /\ u32(b, p).st = "ok" /\ u32(b, p).val = from_be_bytes(r.val)
        /\ u32(b, p).pos = r.pos
    BY <2>3 DEF Got
  <2> QED
    BY <1>2, <1>4, <2>2, <2>4
<1>5. CASE r.st # "ok"
  BY <1>2, <1>3, <1>5
<1> QED
  BY <1>4, <1>5

LEMMA StringOK ==
  ASSUME NEW b \in Seq(Byte), NEW p \in 0..Len(b)
  PROVE  /\ string(b, p).st \in {"ok", "failed"}
         /\ string(b, p).pos \in 0..Len(b)
         /\ string(b, p).st = "ok" => string(b, p).val \in Seq(Byte)
<1> DEFINE len == u32(b, p)
<1>1. /\ len.st \in {"ok", "failed"} /\ len.pos \in 0..Len(b)
      /\ len.st = "ok" => len.val \in 0..U32 - 1
  BY U32OK
<1>2. string(b, p) = IF len.st = "ok" THEN take(b, len.pos, len.val) ELSE len
  BY DEF string, Then
<1> HIDE DEF len
<1>3. CASE len.st = "ok"
  <2>1. len.val \in Nat
    BY <1>1, <1>3, U32Typed
  <2> QED
    BY <1>1, <1>2, <1>3, <2>1, TakeOK
<1>4. CASE len.st # "ok"
  BY <1>1, <1>2, <1>4
<1> QED
  BY <1>3, <1>4

LEMMA TypedOK ==
  ASSUME NEW b \in Seq(Byte)
  PROVE  /\ Typed(b).st \in {"ok", "failed"}
         /\ Typed(b).st = "ok" => Typed(b).val \in Seq(Byte)
<1> DEFINE type == string(b, 0)
<1>1. 0 \in 0..Len(b)
  BY LenProperties
<1>2. type.st \in {"ok", "failed"} /\ type.pos \in 0..Len(b)
  BY <1>1, StringOK
<1>3. Typed(b) = IF type.st = "ok"
                 THEN IF type.val = ED25519_KEY_TYPE THEN string(b, type.pos)
                      ELSE Failed("failed", type.pos)
                 ELSE type
  BY DEF Typed, Then
<1> HIDE DEF type
<1>4. /\ string(b, type.pos).st \in {"ok", "failed"}
      /\ string(b, type.pos).st = "ok" => string(b, type.pos).val \in Seq(Byte)
  BY <1>2, StringOK
<1>5. Failed("failed", type.pos).st = "failed"
  BY DEF Failed
<1> QED
  BY <1>2, <1>3, <1>4, <1>5

-----------------------------------------------------------------------------
\* put_string and Reader::string are inverse, wherever in the reply the string is, if
\* the read succeeds, as it does in a reply that fits the memory.
LEMMA ReadString ==
  ASSUME NEW x \in Seq(Byte), NEW a \in Seq(Byte), NEW c \in Seq(Byte), Len(a) < U32,
         NEW b, b = x \o (put_string(a) \o c),
         string(b, Len(x)).st = "ok" \/ Len(b) < Usize
  PROVE  string(b, Len(x)) = Got(a, Len(x) + LenBytes + Len(a))
<1> DEFINE p == to_be_bytes(Len(a))
           len == u32(b, Len(x))
<1>1. /\ p \in Seq(Byte) /\ Len(p) = LenBytes /\ from_be_bytes(p) = Len(a)
      /\ Len(a) \in Nat /\ Len(x) \in Nat /\ LenBytes \in Nat
  BY Prefix, BytesAssumption, LenProperties
<1> HIDE DEF p
<1>2. a \o c \in Seq(Byte) /\ x \o p \in Seq(Byte) /\ Len(x \o p) = Len(x) + LenBytes
  BY <1>1, ConcatProperties
<1>3. b = x \o (p \o (a \o c)) /\ b = (x \o p) \o (a \o c)
  <2>1. (p \o a) \o c = p \o (a \o c)
    <3>1. p \in Seq(Byte) /\ a \in Seq(Byte) /\ c \in Seq(Byte)
      BY <1>1
    <3> QED
      BY <3>1, Assoc, ZenonT(30)
  <2>2. (x \o p) \o (a \o c) = x \o (p \o (a \o c))
    <3>1. x \in Seq(Byte) /\ p \in Seq(Byte) /\ a \o c \in Seq(Byte)
      BY <1>1, <1>2
    <3> QED
      BY <3>1, Assoc, ZenonT(30)
  <2>3. put_string(a) = p \o a
    BY DEF put_string, p
  <2> QED
    BY <2>1, <2>2, <2>3
<1>4. /\ b \in Seq(Byte) /\ Len(x) \in 0..Len(b)
      /\ Len(x) + LenBytes <= Len(b) /\ (Len(x) + LenBytes) + Len(a) <= Len(b)
  <2>1. p \o (a \o c) \in Seq(Byte)
    BY <1>1, <1>2, ConcatProperties
  <2>2. b \in Seq(Byte) /\ Len(b) = Len(x) + Len(p \o (a \o c))
    BY <1>3, <2>1, ConcatProperties
  <2>3. /\ Len(p \o (a \o c)) = LenBytes + Len(a \o c)
        /\ Len(a \o c) = Len(a) + Len(c)
    <3>1. Len(a \o c) = Len(a) + Len(c)
      BY ConcatProperties
    <3> DEFINE r == a \o c
    <3>2. r \in Seq(Byte)
      BY <1>2
    <3> HIDE DEF r
    <3>3. Len(p \o r) = Len(p) + Len(r)
      BY <1>1, <3>2, ConcatProperties
    <3> QED
      BY <1>1, <3>1, <3>3 DEF r
  <2>4. Len(c) \in Nat
    BY LenProperties
  <2> QED
    BY <1>1, <2>2, <2>3, <2>4
<1>5. SubSeq(b, Len(x) + 1, Len(x) + LenBytes) = p
  <2> DEFINE r == a \o c
  <2>1. r \in Seq(Byte) /\ b = x \o (p \o r)
    BY <1>2, <1>3
  <2> HIDE DEF r
  <2>2. SubSeq(x \o (p \o r), Len(x) + 1, Len(x) + Len(p)) = p
    BY <1>1, <2>1, Middle
  <2> QED
    BY <1>1, <2>1, <2>2
<1>6. SubSeq(b, (Len(x) + LenBytes) + 1, (Len(x) + LenBytes) + Len(a)) = a
  BY <1>2, <1>3, Middle
<1>7. string(b, Len(x)) = IF len.st = "ok" THEN take(b, len.pos, len.val) ELSE len
  BY DEF string, Then
<1>8. len.st = "ok"
  <2>1. CASE string(b, Len(x)).st = "ok"
    BY <1>7, <2>1
  <2>2. CASE Len(b) < Usize
    <3>1. take(b, Len(x), LenBytes).st = "ok"
      BY <1>1, <1>4, <2>2, TakeSucceeds
    <3> QED
      BY <3>1 DEF u32, Then, Got
  <2> QED
    BY <2>1, <2>2
<1>9. len.val = Len(a) /\ len.pos = Len(x) + LenBytes /\ len.pos \in 0..Len(b)
  <2>1. /\ len.pos \in 0..Len(b) /\ len.pos = Len(x) + LenBytes
        /\ len.val = from_be_bytes(SubSeq(b, Len(x) + 1, Len(x) + LenBytes))
    BY <1>4, <1>8, U32OK, Zenon
  <2> QED
    BY <1>1, <1>5, <2>1, Zenon
<1>10. string(b, Len(x)) = take(b, len.pos, Len(a))
  BY <1>7, <1>8, <1>9
<1> HIDE DEF len
<1>11. take(b, len.pos, Len(a)) =
         Got(SubSeq(b, len.pos + 1, len.pos + Len(a)), len.pos + Len(a))
  <2>1. take(b, len.pos, Len(a)).st = "ok"
    <3>1. CASE string(b, Len(x)).st = "ok"
      BY <1>10, <3>1
    <3>2. CASE Len(b) < Usize
      <4>1. len.pos \in Nat /\ len.pos + Len(a) <= Len(b)
        BY <1>1, <1>4, <1>9
      <4> QED
        BY <1>1, <1>4, <3>2, <4>1, TakeSucceeds
    <3> QED
      BY <3>1, <3>2
  <2> QED
    BY <1>1, <1>4, <1>9, <2>1, TakeOK
<1> QED
  BY <1>6, <1>9, <1>10, <1>11, Zenon

LEMMA PutString ==
  ASSUME NEW a \in Seq(Byte), Len(a) < U32
  PROVE  put_string(a) \in Seq(Byte) /\ Len(put_string(a)) = LenBytes + Len(a)
<1>1. to_be_bytes(Len(a)) \in Seq(Byte) /\ Len(to_be_bytes(Len(a))) = LenBytes
  BY Prefix, LenProperties
<1> QED
  BY <1>1, ConcatProperties DEF put_string

\* A blob is read as it was made, if it begins with the name of the key type.
LEMMA ReadTyped ==
  ASSUME NEW t \in Seq(Byte), NEW v \in Seq(Byte), Len(t) < U32, Len(v) < U32,
         NEW b, b = put_string(t) \o put_string(v), Len(b) < Usize
  PROVE  /\ t = ED25519_KEY_TYPE => Typed(b).st = "ok" /\ Typed(b).val = v
         /\ t # ED25519_KEY_TYPE => Typed(b).st = "failed"
<1> DEFINE type == string(b, 0)
           x == put_string(t)
           y == put_string(v)
<1>1. x \in Seq(Byte) /\ Len(x) = LenBytes + Len(t) /\ y \in Seq(Byte)
  BY PutString
<1>e. PICK e \in Seq(Byte) : e = <<>>
  BY EmptySeq
<1>2. /\ Len(e) = 0 /\ Len(e) + LenBytes + Len(t) = Len(x)
      /\ b = e \o (x \o y) /\ b = x \o (y \o e)
  <2>1. x \o y \in Seq(Byte) /\ LenBytes \in Nat /\ Len(t) \in Nat
    BY <1>1, ConcatProperties, BytesAssumption, LenProperties
  <2>2. e \o (x \o y) = x \o y /\ y \o e = y /\ Len(e) = 0
    BY <1>1, <1>e, <2>1, ConcatEmptySeq, EmptySeq
  <2> QED
    BY <1>1, <2>1, <2>2
<1>3. Typed(b) = IF type.st = "ok"
                 THEN IF type.val = ED25519_KEY_TYPE THEN string(b, type.pos)
                      ELSE Failed("failed", type.pos)
                 ELSE type
  BY DEF Typed, Then
<1>4. Failed("failed", type.pos).st = "failed"
  BY DEF Failed
<1>5. type = Got(t, Len(x))
  <2> HIDE DEF x, y
  <2>1. y \in Seq(Byte) /\ b = e \o (put_string(t) \o y)
    BY <1>1, <1>2 DEF x
  <2>2. string(b, Len(e)) = Got(t, Len(e) + LenBytes + Len(t))
    BY <2>1, ReadString, Zenon
  <2> QED
    BY <1>2, <2>2, Zenon
<1>6. type.st = "ok" /\ type.val = t /\ type.pos = Len(x)
  BY <1>5 DEF Got
<1>7. string(b, Len(x)).st = "ok" /\ string(b, Len(x)).val = v
  <2> HIDE DEF x, y
  <2>1. x \in Seq(Byte) /\ b = x \o (put_string(v) \o e)
    BY <1>1, <1>2 DEF y
  <2>2. string(b, Len(x)) = Got(v, Len(x) + LenBytes + Len(v))
    BY <2>1, ReadString, Zenon
  <2> QED
    BY <2>2 DEF Got
<1> HIDE DEF type
<1> QED
  BY <1>3, <1>4, <1>6, <1>7
-----------------------------------------------------------------------------
(***************************************************************************)
(* The agent's replies.                                                      *)
(***************************************************************************)
LEMMA KeyBytes ==
  ASSUME NEW list \in KeyLists, NEW i \in DOMAIN list
  PROVE  /\ list[i].type \in Seq(Byte) /\ Len(list[i].type) < U32
         /\ list[i].pk \in Seq(Byte) /\ Len(list[i].pk) < U32 /\ list[i].pk # <<>>
         /\ LenBytes + Len(list[i].type) + LenBytes + Len(list[i].pk) < U32
         /\ LenBytes + Len(list[i].type) + LenBytes + SigLen < U32
<1> DEFINE t == list[i].type
           v == list[i].pk
<1>1. t \in Seq(Byte) /\ v \in Seq(Byte) /\ v # <<>>
  <2> DEFINE Keys == [type : Seq(Byte), pk : Seq(Byte) \ {<<>>}]
  <2>1. list \in Seq(Keys)
    BY AgentAssumption
  <2> HIDE DEF Keys
  <2>2. list[i] \in Keys
    BY <2>1, ElementOfSeq
  <2> QED
    BY <2>2 DEF Keys
<1>2. /\ LenBytes + Len(t) + LenBytes + Len(v) < U32
      /\ LenBytes + Len(t) + LenBytes + SigLen < U32
  BY ReplyAssumption, Zenon
<1>3. /\ LenBytes \in Nat /\ SigLen \in Nat /\ U32 \in Nat
      /\ Len(t) \in Nat /\ Len(v) \in Nat
  BY <1>1, BytesAssumption, AgentAssumption, U32Typed, LenProperties
<1> HIDE DEF t, v
<1>4. Len(t) < U32 /\ Len(v) < U32
  BY <1>2, <1>3
<1> QED
  BY <1>1, <1>2, <1>4 DEF t, v

LEMMA BlobBytes ==
  ASSUME NEW list \in KeyLists, NEW i \in DOMAIN list
  PROVE  Blob(list[i]) \in Seq(Byte) /\ Len(Blob(list[i])) < U32
<1> DEFINE t == list[i].type
           v == list[i].pk
<1>1. /\ t \in Seq(Byte) /\ Len(t) < U32 /\ v \in Seq(Byte) /\ Len(v) < U32
      /\ LenBytes + Len(t) + LenBytes + Len(v) < U32
  BY KeyBytes
<1>2. LenBytes \in Nat /\ U32 \in Nat /\ Len(t) \in Nat /\ Len(v) \in Nat
  BY <1>1, BytesAssumption, U32Typed, LenProperties
<1> HIDE DEF t, v
<1>3. /\ put_string(t) \in Seq(Byte) /\ Len(put_string(t)) = LenBytes + Len(t)
      /\ put_string(v) \in Seq(Byte) /\ Len(put_string(v)) = LenBytes + Len(v)
  BY <1>1, PutString
<1>4. /\ put_string(t) \o put_string(v) \in Seq(Byte)
      /\ Len(put_string(t) \o put_string(v)) = Len(put_string(t)) + Len(put_string(v))
  BY <1>3, ConcatProperties
<1>5. Len(put_string(t) \o put_string(v)) < U32
  BY <1>1, <1>2, <1>3, <1>4
<1> QED
  BY <1>4, <1>5 DEF Blob, t, v

\* What connect makes of a key's blob: the public key, of an ed25519 key of the right
\* length, and nothing of any other.
LEMMA BlobRead ==
  ASSUME NEW list \in KeyLists, NEW i \in DOMAIN list
  PROVE  parse_ed25519_public_key(Blob(list[i])) =
           IF list[i].type = ED25519_KEY_TYPE /\ Len(list[i].pk) = PkLen
           THEN list[i].pk ELSE None
<1> DEFINE t == list[i].type
           v == list[i].pk
<1>1. /\ t \in Seq(Byte) /\ Len(t) < U32 /\ v \in Seq(Byte) /\ Len(v) < U32
  BY KeyBytes
<1>2. PICK b : b = Blob(list[i])
  OBVIOUS
<1>3. b = put_string(t) \o put_string(v) /\ Len(b) < Usize
  <2>1. b \in Seq(Byte) /\ Len(b) < U32
    BY <1>2, BlobBytes
  <2>2. Len(b) \in Nat /\ U32 \in Nat /\ Usize \in Nat /\ Usize >= U32
    BY <2>1, LenProperties, U32Typed, AgentAssumption
  <2> QED
    BY <1>2, <2>1, <2>2 DEF Blob
<1> HIDE DEF t, v
<1>4. /\ t = ED25519_KEY_TYPE => Typed(b).st = "ok" /\ Typed(b).val = v
      /\ t # ED25519_KEY_TYPE => Typed(b).st = "failed"
  BY <1>1, <1>3, ReadTyped, ZenonT(30)
<1>5. parse_ed25519_public_key(b) =
        IF t = ED25519_KEY_TYPE /\ Len(v) = PkLen THEN v ELSE None
  BY <1>4 DEF parse_ed25519_public_key
<1> QED
  BY <1>2, <1>5 DEF t, v

(***************************************************************************)
(* The list of keys in a reply: a header, and then the identities one by one. *)
(***************************************************************************)
Header(list) == <<IDENTITIES_ANSWER>> \o to_be_bytes(Len(list))
Identities(list) == [i \in DOMAIN list |-> EncodeIdentity(list[i])]

LEMMA ListLen ==
  ASSUME NEW list \in KeyLists
  PROVE  Len(list) \in Nat /\ Len(list) < U32 /\ DOMAIN list = 1..Len(list)
<1> DEFINE Keys == [type : Seq(Byte), pk : Seq(Byte) \ {<<>>}]
<1>1. list \in Seq(Keys) /\ Len(list) < U32
  BY AgentAssumption, ReplyAssumption
<1> HIDE DEF Keys
<1> QED
  BY <1>1, LenProperties

LEMMA HeaderBytes ==
  ASSUME NEW list \in KeyLists
  PROVE  Header(list) \in Seq(Byte) /\ Len(Header(list)) = 1 + LenBytes
<1>1. <<IDENTITIES_ANSWER>> \in Seq(Byte) /\ Len(<<IDENTITIES_ANSWER>>) = 1
  <2>1. IDENTITIES_ANSWER \in Byte
    BY AgentAssumption
  <2> QED
    BY <2>1
<1>2. to_be_bytes(Len(list)) \in Seq(Byte) /\ Len(to_be_bytes(Len(list))) = LenBytes
  BY ListLen, Prefix
<1> QED
  BY <1>1, <1>2, ConcatProperties DEF Header

LEMMA IdentityBytes ==
  ASSUME NEW list \in KeyLists, NEW i \in DOMAIN list
  PROVE  EncodeIdentity(list[i]) \in Seq(Byte)
<1>1. Blob(list[i]) \in Seq(Byte) /\ Len(Blob(list[i])) < U32
  BY BlobBytes
<1>2. <<>> \in Seq(Byte) /\ Len(<<>>) < U32
  BY EmptySeq, U32Typed
<1>3. put_string(Blob(list[i])) \in Seq(Byte) /\ put_string(<<>>) \in Seq(Byte)
  BY <1>1, <1>2, PutString
<1> QED
  BY <1>3, ConcatProperties DEF EncodeIdentity

LEMMA IdentitiesBytes ==
  ASSUME NEW list \in KeyLists
  PROVE  /\ Identities(list) \in Seq(Seq(Byte)) /\ Len(Identities(list)) = Len(list)
         /\ \A i \in 1..Len(list) : Identities(list)[i] = EncodeIdentity(list[i])
<1>1. Len(list) \in Nat /\ DOMAIN list = 1..Len(list)
  BY ListLen
<1>2. \A i \in 1..Len(list) : EncodeIdentity(list[i]) \in Seq(Byte)
  BY <1>1, IdentityBytes
<1>3. Identities(list) = [i \in 1..Len(list) |-> EncodeIdentity(list[i])]
  BY <1>1 DEF Identities
<1> DEFINE B == Seq(Byte)
<1>4. Identities(list) \in [1..Len(list) -> B]
  BY <1>2, <1>3
<1> HIDE DEF B
<1>5. Identities(list) \in Seq(B) /\ Len(Identities(list)) = Len(list)
  BY <1>1, <1>4
<1> QED
  BY <1>3, <1>5 DEF B

\* The reply to a request for the keys has a beginning for each of them.
LEMMA AnswerIs ==
  ASSUME NEW list \in KeyLists
  PROVE  \E at : /\ Beginnings(at, Header(list), Identities(list))
                 /\ IdentitiesAnswer(list) = at[Len(list)]
<1> DEFINE h == Header(list)
           parts == Identities(list)
           n == Len(list)
<1>1. /\ h \in Seq(Byte) /\ parts \in Seq(Seq(Byte)) /\ Len(parts) = n /\ n \in Nat
      /\ \A i \in 1..n : parts[i] \in Seq(Byte)
  BY HeaderBytes, IdentitiesBytes, ListLen, ElementOfSeq
<1>2. IdentitiesAnswer(list) = h \o FlattenSeq(parts)
  BY DEF IdentitiesAnswer, Header, Identities
<1> HIDE DEF h, parts, n
<1>3. PICK rest : Beginnings(rest, <<>>, parts) /\ FlattenSeq(parts) = rest[n]
  BY <1>1, FlattenIs
<1>4. /\ rest[0] = <<>> /\ \A i \in 0..n : rest[i] \in Seq(Byte)
      /\ \A i \in 1..n : rest[i] = rest[i-1] \o parts[i]
  BY <1>1, <1>3 DEF Beginnings
<1> DEFINE at == [i \in 0..n |-> h \o rest[i]]
<1>5. at \in [0..n -> Seq(Byte)]
  <2>1. \A i \in 0..n : h \o rest[i] \in Seq(Byte)
    BY <1>1, <1>4, ConcatProperties
  <2> QED
    BY <2>1
<1>6. at[0] = h
  <2>1. 0 \in 0..n /\ h \o <<>> = h
    BY <1>1, ConcatEmptySeq
  <2> QED
    BY <1>4, <2>1
<1>7. ASSUME NEW i \in 1..n
      PROVE  at[i] = at[i-1] \o parts[i]
  <2>1. i \in 0..n /\ i - 1 \in 0..n
    BY <1>1
  <2> DEFINE r == rest[i-1]
             p == parts[i]
  <2>2. r \in Seq(Byte) /\ p \in Seq(Byte)
    BY <1>1, <1>4, <2>1
  <2>3. at[i] = h \o rest[i] /\ at[i-1] = h \o r /\ rest[i] = r \o p
    BY <1>4, <2>1
  <2> HIDE DEF r, p, at
  <2>4. (h \o r) \o p = h \o (r \o p)
    BY <1>1, <2>2, Assoc, ZenonT(30)
  <2>5. at[i] = at[i-1] \o p
    BY <2>3, <2>4
  <2> QED
    BY <2>5 DEF p
<1>8. IdentitiesAnswer(list) = at[n]
  BY <1>1, <1>2, <1>3
<1> HIDE DEF at
<1>9. Beginnings(at, h, parts)
  BY <1>1, <1>5, <1>6, <1>7 DEF Beginnings
<1> QED
  BY <1>8, <1>9 DEF h, parts, n

\* connect reads the header as the agent made it.
LEMMA HeaderRead ==
  ASSUME NEW list \in KeyLists, NEW b, b = IdentitiesAnswer(list)
  PROVE  /\ b \in Seq(Byte) /\ Len(b) < Usize
         /\ u8(b, 0).val = <<IDENTITIES_ANSWER>>
         /\ u32(b, u8(b, 0).pos) = Got(Len(list), Len(Header(list)))
<1> DEFINE n == Len(list)
           p == to_be_bytes(n)
<1>1. PICK a \in Seq(Byte) : a = <<IDENTITIES_ANSWER>> /\ Len(a) = 1
  <2>1. IDENTITIES_ANSWER \in Byte
    BY AgentAssumption
  <2>2. <<IDENTITIES_ANSWER>> \in Seq(Byte) /\ Len(<<IDENTITIES_ANSWER>>) = 1
    BY <2>1
  <2> QED
    BY <2>2
<1>2. /\ p \in Seq(Byte) /\ Len(p) = LenBytes /\ from_be_bytes(p) = n
      /\ LenBytes \in Nat /\ n \in 0..U32 - 1
  BY ListLen, Prefix, BytesAssumption, U32Typed
<1>3. Header(list) = a \o p /\ Header(list) \in Seq(Byte) /\ Len(Header(list)) = 1 + LenBytes
  BY <1>1, HeaderBytes DEF Header
<1> HIDE DEF p
<1>4. PICK c \in Seq(Byte) : b = (a \o p) \o c
  <2>1. PICK at : /\ Beginnings(at, Header(list), Identities(list))
                  /\ IdentitiesAnswer(list) = at[Len(list)]
    BY AnswerIs
  <2>2. /\ Identities(list) \in Seq(Seq(Byte)) /\ Len(Identities(list)) = n
        /\ 0 \in 0..Len(Identities(list))
    BY IdentitiesBytes, ListLen
  <2>3. PICK j \in 0..Len(Identities(list)) : j = 0
    BY <2>2
  <2>4. BeginsWith(at[Len(Identities(list))], at[j])
    <3>1. Identities(list) \in Seq(Seq(Byte))
      BY <2>2
    <3>2. Beginnings(at, Header(list), Identities(list))
      BY <2>1
    <3> QED
      BY <3>1, <3>2, BeginningsBegin
  <2>5. at[j] = Header(list)
    BY <2>1, <2>3 DEF Beginnings
  <2> QED
    BY <1>3, <2>1, <2>2, <2>4, <2>5 DEF BeginsWith
<1>5. (a \o p) \o c = a \o (p \o c)
  BY <1>2, Assoc, ZenonT(30)
<1>6. /\ b \in Seq(Byte) /\ Len(b) < Usize /\ Len(b) \in Nat /\ 1 + LenBytes <= Len(b)
      /\ Usize \in Nat
  <2> DEFINE h == a \o p
  <2>1. h \in Seq(Byte) /\ Len(h) = 1 + LenBytes /\ b = h \o c
    BY <1>3, <1>4
  <2> HIDE DEF h
  <2>2. b \in Seq(Byte) /\ Len(b) = Len(h) + Len(c)
    BY <2>1, ConcatProperties
  <2>3. Len(b) < Usize /\ Usize \in Nat
    BY ReplyAssumption, AgentAssumption
  <2>4. Len(c) \in Nat
    BY LenProperties
  <2> QED
    BY <1>2, <2>1, <2>2, <2>3, <2>4
<1>7. SubSeq(b, 0 + 1, 0 + 1) = a
  <2> DEFINE r == p \o c
  <2>1. PICK e \in Seq(Byte) : e = <<>> /\ Len(e) = 0
    BY EmptySeq
  <2>2. r \in Seq(Byte) /\ b = a \o r
    BY <1>2, <1>4, <1>5, ConcatProperties
  <2> HIDE DEF r
  <2>3. a \o r \in Seq(Byte) /\ e \o (a \o r) = a \o r
    BY <2>1, <2>2, ConcatProperties, ConcatEmptySeq
  <2>4. SubSeq(e \o (a \o r), Len(e) + 1, Len(e) + Len(a)) = a
    BY <2>2, Middle
  <2> QED
    BY <1>1, <2>1, <2>2, <2>3, <2>4
<1>8. SubSeq(b, 1 + 1, 1 + LenBytes) = p
  <2>1. SubSeq(a \o (p \o c), Len(a) + 1, Len(a) + Len(p)) = p
    BY <1>2, Middle
  <2> QED
    BY <1>1, <1>2, <1>4, <1>5, <2>1
<1>9. u8(b, 0).val = a /\ u8(b, 0).pos = 1
  <2>1. 0 \in 0..Len(b) /\ 1 \in Nat /\ 0 \in Nat /\ 0 + 1 <= Len(b)
    BY <1>2, <1>6
  <2>2. take(b, 0, 1).st = "ok"
    BY <1>6, <2>1, TakeSucceeds
  <2>3. take(b, 0, 1).val = SubSeq(b, 0 + 1, 0 + 1) /\ take(b, 0, 1).pos = 0 + 1
    BY <1>6, <2>1, <2>2, TakeOK
  <2> QED
    BY <1>7, <2>3 DEF u8
<1>10. u32(b, 1) = Got(n, 1 + LenBytes)
  <2> DEFINE r == take(b, 1, LenBytes)
  <2>1. 1 \in 0..Len(b) /\ 1 \in Nat
    BY <1>2, <1>6
  <2>2. r.st = "ok"
    BY <1>2, <1>6, <2>1, TakeSucceeds
  <2>3. r.val = SubSeq(b, 1 + 1, 1 + LenBytes) /\ r.pos = 1 + LenBytes
    BY <1>2, <1>6, <2>1, <2>2, TakeOK
  <2>4. u32(b, 1) = IF r.st = "ok" THEN Got(from_be_bytes(r.val), r.pos) ELSE r
    BY DEF u32, Then
  <2> HIDE DEF r
  <2> QED
    BY <1>2, <1>8, <2>2, <2>3, <2>4
<1> QED
  BY <1>1, <1>3, <1>6, <1>9, <1>10

\* The two strings of an identity, read from p, are the blob of key and a comment that
\* ends at next.
IdentityIsRead(b, p, key, next) ==
  /\ string(b, p).st = "ok" /\ string(b, p).val = Blob(key)
  /\ string(b, string(b, p).pos).st = "ok"
  /\ string(b, string(b, p).pos).pos = next

\* An identity is read as it was made: its blob, and behind the comment its end.
LEMMA IdentityRead ==
  ASSUME NEW list \in KeyLists, NEW i \in DOMAIN list,
         NEW x \in Seq(Byte), NEW rest \in Seq(Byte),
         NEW b, b = (x \o EncodeIdentity(list[i])) \o rest, Len(b) < Usize
  PROVE  IdentityIsRead(b, Len(x), list[i], Len(x \o EncodeIdentity(list[i])))
<1> DEFINE k == Blob(list[i])
           y == put_string(k)
<1>e. PICK e \in Seq(Byte) : e = <<>>
  BY EmptySeq
<1> DEFINE z == put_string(e)
<1>1. /\ k \in Seq(Byte) /\ Len(k) < U32 /\ Len(e) = 0 /\ Len(e) < U32
      /\ Len(k) \in Nat /\ LenBytes \in Nat /\ Len(x) \in Nat
  BY <1>e, BlobBytes, EmptySeq, U32Typed, BytesAssumption, LenProperties
<1>2. EncodeIdentity(list[i]) = y \o z
  BY <1>e DEF EncodeIdentity
<1> HIDE DEF k
<1>3. /\ y \in Seq(Byte) /\ Len(y) = LenBytes + Len(k)
      /\ z \in Seq(Byte) /\ Len(z) = LenBytes
  <2>1. z \in Seq(Byte) /\ Len(z) = LenBytes + Len(e)
    BY <1>1, PutString
  <2> QED
    BY <1>1, <2>1, PutString
<1> HIDE DEF y, z
<1>4. /\ y \o z \in Seq(Byte) /\ z \o rest \in Seq(Byte) /\ x \o y \in Seq(Byte)
      /\ Len(y \o z) = Len(y) + Len(z) /\ Len(x \o y) = Len(x) + Len(y)
  BY <1>3, ConcatProperties
<1>5. Len(x \o (y \o z)) = Len(x) + Len(y \o z)
  <2> DEFINE w == y \o z
  <2>1. w \in Seq(Byte)
    BY <1>4
  <2> HIDE DEF w
  <2>2. Len(x \o w) = Len(x) + Len(w)
    BY <2>1, ConcatProperties
  <2> QED
    BY <2>2 DEF w
<1>6. b = x \o (y \o (z \o rest)) /\ b = (x \o y) \o (z \o rest)
  <2>1. b = (x \o (y \o z)) \o rest
    BY <1>2
  <2>2. (x \o (y \o z)) \o rest = x \o ((y \o z) \o rest)
    <3> DEFINE w == y \o z
    <3>1. w \in Seq(Byte)
      BY <1>4
    <3> HIDE DEF w
    <3>2. (x \o w) \o rest = x \o (w \o rest)
      BY <3>1, Assoc, ZenonT(30)
    <3> QED
      BY <3>2 DEF w
  <2>3. (y \o z) \o rest = y \o (z \o rest)
    BY <1>3, Assoc, ZenonT(30)
  <2>4. (x \o y) \o (z \o rest) = x \o (y \o (z \o rest))
    <3> DEFINE w == z \o rest
    <3>1. w \in Seq(Byte)
      BY <1>4
    <3> HIDE DEF w
    <3>2. (x \o y) \o w = x \o (y \o w)
      BY <1>3, <3>1, Assoc, ZenonT(30)
    <3> QED
      BY <3>2 DEF w
  <2> QED
    BY <2>1, <2>2, <2>3, <2>4
<1>7. string(b, Len(x)) = Got(k, Len(x) + LenBytes + Len(k))
  <2> DEFINE c == z \o rest
  <2>1. c \in Seq(Byte) /\ b = x \o (put_string(k) \o c)
    BY <1>4, <1>6 DEF y
  <2>2. k \in Seq(Byte) /\ Len(k) < U32
    BY <1>1
  <2> HIDE DEF c
  <2> QED
    BY <2>1, <2>2, ReadString, ZenonT(30)
<1>8. /\ string(b, Len(x)).st = "ok" /\ string(b, Len(x)).val = k
      /\ string(b, Len(x)).pos = Len(x \o y)
  <2>1. Len(x) + LenBytes + Len(k) = Len(x \o y)
    BY <1>1, <1>3, <1>4
  <2> QED
    BY <1>7, <2>1 DEF Got
<1>9. string(b, Len(x \o y)) = Got(e, Len(x \o y) + LenBytes + Len(e))
  <2> DEFINE w == x \o y
  <2>1. w \in Seq(Byte) /\ b = w \o (put_string(e) \o rest)
    BY <1>4, <1>6 DEF z
  <2> HIDE DEF w
  <2>2. string(b, Len(w)) = Got(e, Len(w) + LenBytes + Len(e))
    BY <1>1, <2>1, ReadString, ZenonT(30)
  <2> QED
    BY <2>2 DEF w
<1>10. Len(x \o y) + LenBytes + Len(e) = Len(x \o (y \o z))
  BY <1>1, <1>3, <1>4, <1>5
<1>11. /\ string(b, Len(x \o y)).st = "ok"
       /\ string(b, Len(x \o y)).pos = Len(x \o (y \o z))
  BY <1>9, <1>10 DEF Got
<1> QED
  BY <1>2, <1>8, <1>11 DEF k, IdentityIsRead
-----------------------------------------------------------------------------
LEMMA RawSignatureBytes ==
  ASSUME NEW pk \in Seq(Byte), pk # <<>>
  PROVE  RawSignature(pk, Message) \in Seq(Byte) /\ Len(RawSignature(pk, Message)) = SigLen
<1>1. pk[1] \in Byte /\ Message[1] \in Byte
  <2>1. Message \in Seq(Byte) /\ Message # <<>>
    BY AgentAssumption
  <2>2. 1 \in 1..Len(pk) /\ 1 \in 1..Len(Message)
    BY <2>1, EmptySeq
  <2> QED
    BY <2>1, <2>2, ElementOfSeq
<1>2. RawSignature(pk, Message) \in [1..SigLen -> Byte]
  BY <1>1 DEF RawSignature
<1>3. SigLen \in Nat
  BY AgentAssumption
<1> QED
  BY <1>2, <1>3

\* What the agent puts into the answer to a request for a signature.
SignatureBlob(key) == put_string(key.type) \o put_string(RawSignature(key.pk, Message))

LEMMA SignatureBlobBytes ==
  ASSUME TypeOK, NEW i \in DOMAIN keys
  PROVE  SignatureBlob(keys[i]) \in Seq(Byte) /\ Len(SignatureBlob(keys[i])) < U32
<1> DEFINE t == keys[i].type
           s == RawSignature(keys[i].pk, Message)
<1>1. /\ t \in Seq(Byte) /\ Len(t) < U32 /\ LenBytes + Len(t) + LenBytes + SigLen < U32
      /\ s \in Seq(Byte) /\ Len(s) = SigLen
  BY KeyBytes, RawSignatureBytes DEF TypeOK
<1>2. LenBytes \in Nat /\ SigLen \in Nat /\ U32 \in Nat /\ Len(t) \in Nat
  BY <1>1, BytesAssumption, AgentAssumption, U32Typed, LenProperties
<1>3. Len(s) < U32
  BY <1>1, <1>2
<1> HIDE DEF t, s
<1>4. /\ put_string(t) \in Seq(Byte) /\ Len(put_string(t)) = LenBytes + Len(t)
      /\ put_string(s) \in Seq(Byte) /\ Len(put_string(s)) = LenBytes + Len(s)
  BY <1>1, <1>3, PutString
<1>5. /\ put_string(t) \o put_string(s) \in Seq(Byte)
      /\ Len(put_string(t) \o put_string(s)) = Len(put_string(t)) + Len(put_string(s))
  BY <1>4, ConcatProperties
<1>6. Len(put_string(t) \o put_string(s)) < U32
  BY <1>1, <1>2, <1>4, <1>5
<1> QED
  BY <1>5, <1>6 DEF SignatureBlob, t, s

\* The agent refuses, or signs with the key of the blob.
LEMMA SignResponseIs ==
  ASSUME TypeOK, NEW blob
  PROVE  /\ SignResponse(blob) \in Seq(Byte)
         /\ \/ SignResponse(blob) = FAILURE
            \/ \E i \in DOMAIN keys :
                 /\ Blob(keys[i]) = blob
                 /\ SignResponse(blob) = <<SIGN_RESPONSE>> \o put_string(SignatureBlob(keys[i]))
<1> DEFINE held == {i \in DOMAIN keys : Blob(keys[i]) = blob}
<1>0. /\ 5 \in Byte /\ 14 \in Byte
  BY AgentAssumption, BytesAssumption DEF SIGN_RESPONSE, Byte
<1>1. CASE held = {}
  <2>1. SignResponse(blob) = FAILURE
    BY <1>1 DEF SignResponse
  <2>2. FAILURE \in Seq(Byte)
    BY <1>0 DEF FAILURE
  <2> QED
    BY <2>1, <2>2
<1>2. CASE held # {}
  <2> DEFINE i == CHOOSE j \in held : TRUE
  <2>1. i \in DOMAIN keys /\ Blob(keys[i]) = blob
    BY <1>2
  <2>2. SignResponse(blob) = <<SIGN_RESPONSE>> \o put_string(SignatureBlob(keys[i]))
    BY <1>2 DEF SignResponse, SignatureBlob
  <2> HIDE DEF i
  <2>3. put_string(SignatureBlob(keys[i])) \in Seq(Byte)
    BY <2>1, SignatureBlobBytes, PutString
  <2>4. <<SIGN_RESPONSE>> \in Seq(Byte)
    BY <1>0 DEF SIGN_RESPONSE
  <2>5. SignResponse(blob) \in Seq(Byte)
    BY <2>2, <2>3, <2>4, ConcatProperties
  <2> QED
    BY <2>1, <2>2, <2>5
<1> QED
  BY <1>1, <1>2

\* A signature is read from the agent's answer as the agent made it.
LEMMA SignatureRead ==
  ASSUME TypeOK, NEW i \in DOMAIN keys,
         NEW b, b = <<SIGN_RESPONSE>> \o put_string(SignatureBlob(keys[i])),
         NEW p, p = u8(b, 0).pos, u8(b, 0).val = <<SIGN_RESPONSE>>,
         string(b, p).st = "ok", Typed(string(b, p).val).st = "ok"
  PROVE  Typed(string(b, p).val).val = RawSignature(keys[i].pk, Message)
<1> DEFINE s == SignatureBlob(keys[i])
           t == keys[i].type
           v == RawSignature(keys[i].pk, Message)
<1>1. PICK x \in Seq(Byte) : x = <<SIGN_RESPONSE>>
  <2>1. SIGN_RESPONSE \in Byte
    BY AgentAssumption
  <2>2. <<SIGN_RESPONSE>> \in Seq(Byte)
    BY <2>1
  <2> QED
    BY <2>2
<1>2. s \in Seq(Byte) /\ Len(s) < U32
  BY SignatureBlobBytes
<1>3. PICK e \in Seq(Byte) : e = <<>>
  BY EmptySeq
<1>4. b \in Seq(Byte) /\ put_string(s) \in Seq(Byte) /\ put_string(s) \o e = put_string(s)
  <2>1. put_string(s) \in Seq(Byte)
    BY <1>2, PutString
  <2> QED
    BY <1>1, <1>3, <2>1, ConcatProperties, ConcatEmptySeq
<1>5. p = Len(x)
  <2>1. 0 \in 0..Len(b) /\ 1 \in Nat
    BY <1>4, LenProperties
  <2>2. u8(b, 0).st \in {"ok", "failed"}
    BY <1>4, <2>1, TakeOK DEF u8
  <2>3. u8(b, 0).st = "ok"
    <3>1. u8(b, 0) = Failed("failed", 0) \/ u8(b, 0).st = "ok" \/ u8(b, 0).st = "panicked"
      BY DEF u8, take, Got, Failed
    <3>2. Failed("failed", 0).val # <<SIGN_RESPONSE>>
      BY DEF Failed
    <3> QED
      BY <2>2, <3>1, <3>2
  <2>4. u8(b, 0).pos = 0 + 1
    BY <1>4, <2>1, <2>3, TakeOK DEF u8
  <2>5. Len(x) = 1
    BY <1>1
  <2> QED
    BY <2>4, <2>5
<1>6. b = x \o (put_string(s) \o e)
  BY <1>1, <1>4
<1>7. string(b, p).val = s
  <2> HIDE DEF s
  <2>1. string(b, Len(x)).st = "ok"
    BY <1>5
  <2>2. string(b, Len(x)) = Got(s, Len(x) + LenBytes + Len(s))
    BY <1>2, <1>6, <2>1, ReadString, Zenon
  <2> QED
    BY <1>5, <2>2 DEF Got
<1>8. /\ t \in Seq(Byte) /\ Len(t) < U32 /\ v \in Seq(Byte) /\ Len(v) < U32
      /\ s = put_string(t) \o put_string(v)
  <2>1. /\ t \in Seq(Byte) /\ Len(t) < U32 /\ LenBytes + Len(t) + LenBytes + SigLen < U32
        /\ v \in Seq(Byte) /\ Len(v) = SigLen
    BY KeyBytes, RawSignatureBytes DEF TypeOK
  <2>2. LenBytes \in Nat /\ SigLen \in Nat /\ U32 \in Nat /\ Len(t) \in Nat
    BY <2>1, BytesAssumption, AgentAssumption, U32Typed, LenProperties
  <2> QED
    BY <2>1, <2>2 DEF SignatureBlob
<1>9. Len(s) < Usize
  <2>1. Len(s) \in Nat /\ U32 \in Nat /\ Usize \in Nat /\ Usize >= U32
    BY <1>2, LenProperties, U32Typed, AgentAssumption
  <2> QED
    BY <1>2, <2>1
<1> HIDE DEF s, t, v
<1>10. Typed(s).val = v
  <2>1. Typed(s).st = "ok"
    BY <1>7
  <2>2. /\ t = ED25519_KEY_TYPE => Typed(s).val = v
        /\ t # ED25519_KEY_TYPE => Typed(s).st = "failed"
    BY <1>8, <1>9, ReadTyped, ZenonT(30)
  <2> QED
    BY <2>1, <2>2
<1> QED
  BY <1>7, <1>10 DEF v

\* The refusal of an agent that has not the key is told from a signature.
LEMMA RefusalRead == u8(FAILURE, 0).val # <<SIGN_RESPONSE>>
<1> DEFINE f == <<5>>
           r == take(f, 0, 1)
<1>1. f \in Seq(Byte) /\ Len(f) = 1
  <2>1. 5 \in Byte
    BY AgentAssumption, BytesAssumption DEF SIGN_RESPONSE, Byte
  <2> QED
    BY <2>1
<1>2. r = Failed("failed", 0) \/ r.st = "ok" \/ r.st = "panicked"
  BY DEF take, Got, Failed
<1>3. 0 \in 0..Len(f) /\ 1 \in Nat
  BY <1>1
<1>4. /\ r.st \in {"ok", "failed"}
      /\ r.st = "ok" => r.val = SubSeq(f, 0 + 1, 0 + 1)
  BY <1>1, <1>3, TakeOK
<1>5. SubSeq(f, 0 + 1, 0 + 1)[1] = 5
  OBVIOUS
<1>6. <<SIGN_RESPONSE>>[1] = 14 /\ Failed("failed", 0).val # <<SIGN_RESPONSE>>
  BY DEF SIGN_RESPONSE, Failed
<1> HIDE DEF r, f
<1>7. r.val # <<SIGN_RESPONSE>>
  BY <1>2, <1>4, <1>5, <1>6
<1> QED
  BY <1>7 DEF u8, r, f, FAILURE
-----------------------------------------------------------------------------
(***************************************************************************)
(* The inductive invariant: a signer once connected holds a blob and the key  *)
(* that is parsed from it.  Without it nothing ties the key that the signer   *)
(* publishes to the one that it asks the agent to sign with.                  *)
(***************************************************************************)
SignerParsed ==
  pc \in {"connected", "signed"} =>
    /\ signer.blob \in Seq(Byte)
    /\ signer.pk = parse_ed25519_public_key(signer.blob)
    /\ signer.pk # None

\* A Reader begins with its reply.
FreshReader == pc = "idle" => pos = 0

IInv == TypeOK /\ NeverPanics /\ FreshReader /\ SignerParsed /\ SignatureVerifies

\* A reply is a string of bytes.
LEMMA ReplyBytes ==
  ASSUME NEW reply \in Seq(Byte), TypeOK, recv(reply)
  PROVE  buf' \in Seq(Byte) /\ listed' \in KeyLists \cup {None}
  BY AgentAssumption DEF recv, TypeOK

LEMMA InitIInv == Init => IInv
<1> SUFFICES ASSUME Init PROVE IInv
  OBVIOUS
<1>1. <<>> \in Seq(Byte) /\ Len(<<>>) = 0 /\ U32 \in Nat \ {0}
  BY EmptySeq, U32Typed
<1>2. TypeOK
  BY <1>1 DEF Init, TypeOK
<1> QED
  BY <1>2 DEF IInv, Init, NeverPanics, FreshReader, SignerParsed, SignatureVerifies

LEMMA ConnectStep ==
  ASSUME IInv, connect
  PROVE  IInv'
<1> DEFINE type == u8(buf', 0)
           count == u32(buf', type.pos)
<1>1. buf' \in Seq(Byte) /\ listed' \in KeyLists \cup {None}
  <2>1. TypeOK /\ IdentitiesAnswer(keys) \in Seq(Byte)
    BY HeaderRead DEF IInv, TypeOK
  <2> QED
    BY <2>1, ReplyBytes DEF connect
<1>2. type.pos \in 0..Len(buf')
  <2>1. 0 \in 0..Len(buf') /\ 1 \in Nat
    BY <1>1, LenProperties
  <2> QED
    BY <1>1, <2>1, TakeOK DEF u8
<1>3. /\ count.pos \in 0..Len(buf')
      /\ count.st = "ok" => count.val \in 0..U32 - 1
  BY <1>1, <1>2, U32OK
<1>4. \/ /\ count.st = "ok"
         /\ pc' = "scanning" /\ pos' = count.pos /\ left' = count.val
      \/ pc' = "failed" /\ UNCHANGED <<pos, left>>
  BY DEF connect
<1> HIDE DEF type, count
<1>5. UNCHANGED <<keys, want, signer, sig>> /\ pc = "idle"
  BY DEF connect
<1>6. pos = 0 /\ pos \in 0..Len(buf')
  BY <1>1, <1>5, LenProperties DEF IInv, FreshReader
<1>7. TypeOK'
  BY <1>1, <1>3, <1>4, <1>5, <1>6 DEF IInv, TypeOK
<1> QED
  BY <1>4, <1>7 DEF IInv, NeverPanics, FreshReader, SignerParsed, SignatureVerifies

LEMMA ScanStep ==
  ASSUME IInv, scan_identity
  PROVE  IInv'
<1> DEFINE blob == string(buf, pos)
           second == string(buf, blob.pos)
           comment == Then(blob, second)
           pk == parse_ed25519_public_key(blob.val)
<1>1. /\ buf \in Seq(Byte) /\ pos \in 0..Len(buf) /\ left \in 0..U32 - 1
      /\ U32 \in Nat
  BY U32Typed DEF IInv, TypeOK
<1>2. /\ blob.st \in {"ok", "failed"} /\ blob.pos \in 0..Len(buf)
      /\ blob.st = "ok" => blob.val \in Seq(Byte)
  BY <1>1, StringOK
<1>3. /\ comment.st \in {"ok", "failed"} /\ comment.pos \in 0..Len(buf)
      /\ comment.st = "ok" => blob.st = "ok"
  <2>1. second.st \in {"ok", "failed"} /\ second.pos \in 0..Len(buf)
    BY <1>1, <1>2, StringOK
  <2> QED
    BY <1>2, <2>1 DEF Then
<1>4. /\ pc = "scanning" /\ left > 0 /\ pos' = comment.pos /\ left' = left - 1
      /\ UNCHANGED <<keys, want, buf, sig, listed>>
      /\ \/ /\ comment.st = "ok" /\ Wanted(pk)
            /\ pc' = "connected" /\ signer' = [blob |-> blob.val, pk |-> pk]
         \/ /\ pc' = IF comment.st = "ok" THEN pc ELSE comment.st
            /\ UNCHANGED signer
  BY DEF scan_identity
<1> HIDE DEF comment, second, blob
<1>5. left' \in 0..U32 - 1 /\ pos' \in 0..Len(buf')
  BY <1>1, <1>3, <1>4
<1>6. CASE /\ comment.st = "ok" /\ Wanted(pk)
           /\ pc' = "connected" /\ signer' = [blob |-> blob.val, pk |-> pk]
  <2>1. pk # None /\ blob.val \in Seq(Byte)
    BY <1>2, <1>3, <1>6 DEF Wanted
  <2>2. pk \in Seq(Byte)
    BY <2>1, TypedOK DEF parse_ed25519_public_key
  <2>3. signer'.blob = blob.val /\ signer'.pk = pk
    BY <1>6
  <2>4. TypeOK'
    BY <1>4, <1>5, <1>6, <2>1, <2>2, <2>3 DEF IInv, TypeOK
  <2>5. SignerParsed'
    BY <2>1, <2>3 DEF SignerParsed
  <2> QED
    BY <1>6, <2>4, <2>5 DEF IInv, NeverPanics, FreshReader, SignatureVerifies
<1>7. CASE /\ pc' = IF comment.st = "ok" THEN pc ELSE comment.st
           /\ UNCHANGED signer
  <2>1. pc' \in {"scanning", "failed"}
    BY <1>3, <1>4, <1>7
  <2>2. TypeOK'
    BY <1>4, <1>5, <1>7, <2>1 DEF IInv, TypeOK
  <2> QED
    BY <2>1, <2>2 DEF IInv, NeverPanics, FreshReader, SignerParsed, SignatureVerifies
<1> QED
  BY <1>4, <1>6, <1>7

LEMMA SignStep ==
  ASSUME IInv, sign
  PROVE  IInv'
<1> DEFINE reply == SignResponse(signer.blob)
           type == u8(buf', 0)
           blob == string(buf', type.pos)
           value == Typed(blob.val)
           raw == Then(blob, value)
<1>1. TypeOK /\ reply \in Seq(Byte)
  BY SignResponseIs DEF IInv
<1>2. recv(reply)
  BY DEF sign, RequestedKey
<1>3. buf' \in Seq(Byte) /\ listed' \in KeyLists \cup {None}
  BY <1>1, <1>2, ReplyBytes
<1>4. type.pos \in 0..Len(buf')
  <2>1. 0 \in 0..Len(buf') /\ 1 \in Nat
    BY <1>3, LenProperties
  <2> QED
    BY <1>3, <2>1, TakeOK DEF u8
<1>5. /\ blob.st \in {"ok", "failed"}
      /\ blob.st = "ok" => blob.val \in Seq(Byte)
  BY <1>3, <1>4, StringOK
<1>6. /\ raw.st \in {"ok", "failed"}
      /\ raw.st = "ok" => blob.st = "ok" /\ raw = value /\ value.st = "ok"
                          /\ raw.val \in Seq(Byte)
  BY <1>5, TypedOK DEF Then
<1>7. /\ pc = "connected" /\ pos' = 0
      /\ UNCHANGED <<keys, want, left, signer>>
      /\ \/ /\ type.val = <<SIGN_RESPONSE>> /\ raw.st = "ok"
            /\ pc' = "signed" /\ sig' = raw.val
         \/ /\ pc' = IF raw.st = "panicked" THEN "panicked" ELSE "failed"
            /\ UNCHANGED sig
  BY DEF sign
<1>8. CASE /\ type.val = <<SIGN_RESPONSE>> /\ raw.st = "ok"
           /\ pc' = "signed" /\ sig' = raw.val
  <2>1. TypeOK'
    <3>1. pos' \in 0..Len(buf') /\ sig' \in Seq(Byte)
      BY <1>3, <1>6, <1>7, <1>8, LenProperties
    <3> QED
      BY <1>3, <1>7, <1>8, <3>1 DEF IInv, TypeOK
  <2>2. SignerParsed'
    BY <1>7 DEF IInv, SignerParsed
  <2>3. ASSUME listed' # None
        PROVE  verify({signer.pk}, signer.pk, Message, raw.val)
    <3>1. buf' = reply
      BY <1>2, <2>3 DEF recv
    <3>2. reply # FAILURE
      BY <1>8, <3>1, RefusalRead
    <3>3. PICK i \in DOMAIN keys :
            /\ Blob(keys[i]) = signer.blob
            /\ reply = <<SIGN_RESPONSE>> \o put_string(SignatureBlob(keys[i]))
      BY <1>1, <3>2, SignResponseIs
    <3>4. signer.pk = parse_ed25519_public_key(signer.blob) /\ signer.pk # None
      BY <1>7 DEF IInv, SignerParsed
    <3>5. signer.pk = keys[i].pk /\ Len(keys[i].pk) = PkLen
      BY <1>1, <3>3, <3>4, BlobRead DEF TypeOK
    <3>6. raw.val = RawSignature(keys[i].pk, Message)
      <4> HIDE DEF reply, type, blob, value, raw
      <4>1. /\ buf' = <<SIGN_RESPONSE>> \o put_string(SignatureBlob(keys[i]))
            /\ type.pos = u8(buf', 0).pos /\ u8(buf', 0).val = <<SIGN_RESPONSE>>
        BY <1>8, <3>1, <3>3 DEF type
      <4>2. string(buf', type.pos).st = "ok" /\ Typed(string(buf', type.pos).val).st = "ok"
        BY <1>6, <1>8 DEF blob, value
      <4>3. Typed(string(buf', type.pos).val).val = RawSignature(keys[i].pk, Message)
        BY <1>1, <4>1, <4>2, SignatureRead, Zenon
      <4> QED
        BY <1>6, <1>8, <4>3 DEF blob, value
    <3>7. Len(RawSignature(keys[i].pk, Message)) = SigLen
      BY <1>1, KeyBytes, RawSignatureBytes DEF TypeOK
    <3> QED
      BY <3>5, <3>6, <3>7 DEF verify
  <2>4. SignatureVerifies'
    BY <1>7, <1>8, <2>3 DEF SignatureVerifies, verify, RawSignature
  <2> QED
    BY <1>8, <2>1, <2>2, <2>4 DEF IInv, NeverPanics, FreshReader
<1>9. CASE /\ pc' = IF raw.st = "panicked" THEN "panicked" ELSE "failed"
           /\ UNCHANGED sig
  <2>1. pc' = "failed"
    BY <1>6, <1>9
  <2>2. pos' \in 0..Len(buf')
    BY <1>3, <1>7, LenProperties
  <2>3. TypeOK'
    BY <1>3, <1>7, <1>9, <2>1, <2>2 DEF IInv, TypeOK
  <2> QED
    BY <2>1, <2>3 DEF IInv, NeverPanics, FreshReader, SignerParsed, SignatureVerifies
<1> QED
  BY <1>7, <1>8, <1>9

\* The user changes the agent's keys, or the agent is not there.
LEMMA OtherSteps ==
  ASSUME IInv, change_keys \/ recv_fails \/ no_identity \/ UNCHANGED vars
  PROVE  IInv'
<1>1. /\ UNCHANGED <<want, buf, pos, left, signer, sig, listed>>
      /\ keys' \in KeyLists
      /\ pc' = pc \/ pc' = "failed"
  BY DEF change_keys, recv_fails, no_identity, vars, readerVars, IInv, TypeOK
<1>2. TypeOK'
  BY <1>1 DEF IInv, TypeOK
<1>3. NeverPanics' /\ FreshReader' /\ SignerParsed'
  BY <1>1 DEF IInv, NeverPanics, FreshReader, SignerParsed
<1>4. SignatureVerifies'
  BY <1>1 DEF IInv, SignatureVerifies, verify, RawSignature
<1> QED
  BY <1>2, <1>3, <1>4 DEF IInv

\* The ssh-agent backend keeps the invariant.
THEOREM Invariance == Spec => []IInv
<1>1. IInv /\ [Next]_vars => IInv'
  BY ConnectStep, ScanStep, SignStep, OtherSteps DEF Next
<1> QED
  BY InitIInv, <1>1, PTL DEF Spec

\* Connecting and signing keep the state of its type: the Reader's position never
\* leaves the reply (Reader::take).
THEOREM TypeCorrect == Spec => []TypeOK
<1>1. IInv => TypeOK
  BY DEF IInv
<1> QED
  BY Invariance, <1>1, PTL

\* No reply makes the Reader panic (Reader::take's checked_add), whatever lengths it
\* announces.
THEOREM NeverPanicsAlways == Spec => []NeverPanics
<1>1. IInv => NeverPanics
  BY DEF IInv
<1> QED
  BY Invariance, <1>1, PTL

\* A signature that the agent returned is one of the key that the signer publishes,
\* and its verifier accepts it (SshAgentSigner::sign, SshVerifier::verify).
THEOREM SignatureVerifiesAlways == Spec => []SignatureVerifies
<1>1. IInv => SignatureVerifies
  BY DEF IInv
<1> QED
  BY Invariance, <1>1, PTL
-----------------------------------------------------------------------------
(***************************************************************************)
(* The order of the list.  While connect scans the reply of an ssh-agent, its *)
(* Reader is behind the identities that it has taken, none of which is a      *)
(* candidate, and as many are left as the list has more.                      *)
(***************************************************************************)
Scanned ==
  pc = "scanning" /\ listed # None =>
    /\ left \in 0..Len(listed)
    /\ Len(buf) < Usize
    /\ \E at : /\ Beginnings(at, Header(listed), Identities(listed))
               /\ buf = at[Len(listed)]
               /\ pos = Len(at[Len(listed) - left])
    /\ \A i \in 1..Len(listed) - left : ~Candidate(listed[i])

\* There is a signer once connect has found its key, and no reply before connect.
SignerIsSet ==
  /\ pc \in {"idle", "scanning"} => signer = None
  /\ pc = "idle" => listed = None
  /\ pc = "connected" => signer \in [blob : Seq(Byte), pk : Seq(Byte)]

ListInv == Scanned /\ SignerIsSet /\ FirstCandidateIsUsed

LEMMA ConnectLists ==
  ASSUME IInv, ListInv, connect
  PROVE  ListInv'
<1> DEFINE type == u8(buf', 0)
           count == u32(buf', type.pos)
<1>1. /\ UNCHANGED <<keys, want, signer, sig>> /\ pc = "idle" /\ signer = None
      /\ recv(IdentitiesAnswer(keys)) /\ keys \in KeyLists
  BY DEF connect, IInv, TypeOK, ListInv, SignerIsSet
<1>2. \/ /\ type.val = <<IDENTITIES_ANSWER>> /\ count.st = "ok"
         /\ pc' = "scanning" /\ pos' = count.pos /\ left' = count.val
      \/ /\ ~(type.val = <<IDENTITIES_ANSWER>> /\ count.st = "ok")
         /\ pc' = "failed"
  BY DEF connect
<1> HIDE DEF type, count
<1>3. SignerIsSet'
  BY <1>1, <1>2 DEF SignerIsSet
<1>4. CASE listed' = None
  BY <1>2, <1>3, <1>4 DEF ListInv, Scanned, FirstCandidateIsUsed
<1>5. CASE listed' # None
  <2>1. listed' = keys /\ buf' = IdentitiesAnswer(keys)
    BY <1>1, <1>5 DEF recv
  <2>2. /\ Len(buf') < Usize /\ type.val = <<IDENTITIES_ANSWER>>
        /\ count = Got(Len(keys), Len(Header(keys)))
    BY <1>1, <2>1, HeaderRead DEF type, count
  <2>3. pc' = "scanning" /\ pos' = Len(Header(keys)) /\ left' = Len(keys)
    BY <1>2, <2>2 DEF Got
  <2>4. Len(keys) \in Nat /\ left' \in 0..Len(keys) /\ Len(keys) - left' = 0
    BY <1>1, <2>3, ListLen
  <2>5. PICK at : /\ Beginnings(at, Header(keys), Identities(keys))
                  /\ IdentitiesAnswer(keys) = at[Len(keys)]
    BY <1>1, AnswerIs
  <2>6. at[Len(keys) - left'] = Header(keys)
    BY <2>4, <2>5 DEF Beginnings
  <2>7. \E f : /\ Beginnings(f, Header(keys), Identities(keys))
               /\ buf' = f[Len(keys)]
               /\ pos' = Len(f[Len(keys) - left'])
    BY <2>1, <2>3, <2>5, <2>6
  <2>8. \A i \in 1..Len(keys) - left' : FALSE
    BY <2>4
  <2>9. Scanned'
    BY <2>1, <2>2, <2>4, <2>7, <2>8 DEF Scanned, Header, Identities, EncodeIdentity, Blob
  <2>10. FirstCandidateIsUsed'
    BY <2>3 DEF FirstCandidateIsUsed
  <2> QED
    BY <1>3, <2>9, <2>10 DEF ListInv
<1> QED
  BY <1>4, <1>5

\* What an iteration of connect's loop reads, in the reply of an ssh-agent.
LEMMA ScanReads ==
  ASSUME IInv, ListInv, pc = "scanning", listed # None, left > 0,
         NEW blob, blob = string(buf, pos),
         NEW comment, comment = Then(blob, string(buf, blob.pos)),
         NEW i, i = Len(listed) - left + 1
  PROVE  /\ listed \in KeyLists /\ i \in DOMAIN listed
         /\ blob.val = Blob(listed[i]) /\ comment.st = "ok"
         /\ Wanted(parse_ed25519_public_key(blob.val)) <=> Candidate(listed[i])
         /\ \E at : /\ Beginnings(at, Header(listed), Identities(listed))
                    /\ buf = at[Len(listed)]
                    /\ comment.pos = Len(at[i])
<1> DEFINE n == Len(listed)
<1>1. listed \in KeyLists /\ n \in Nat /\ DOMAIN listed = 1..n /\ left \in 0..n
  BY ListLen DEF IInv, TypeOK, ListInv, Scanned
<1>2. i \in 1..n /\ i - 1 = n - left /\ i \in 0..n /\ i - 1 \in 0..n
  BY <1>1
<1>3. PICK at : /\ Beginnings(at, Header(listed), Identities(listed))
                /\ buf = at[n] /\ pos = Len(at[n - left])
  BY DEF ListInv, Scanned
<1>4. Len(buf) < Usize
  BY DEF ListInv, Scanned
<1>5. /\ Identities(listed) \in Seq(Seq(Byte)) /\ Len(Identities(listed)) = n
      /\ Identities(listed)[i] = EncodeIdentity(listed[i])
  BY <1>1, <1>2, IdentitiesBytes
<1>6. /\ at[i-1] \in Seq(Byte)
      /\ at[i] = at[i-1] \o EncodeIdentity(listed[i])
  BY <1>2, <1>3, <1>5 DEF Beginnings
<1>7. PICK rest \in Seq(Byte) : buf = at[i] \o rest
  <2>1. BeginsWith(at[Len(Identities(listed))], at[i])
    <3>1. i \in 0..Len(Identities(listed))
      BY <1>2, <1>5
    <3> QED
      BY <1>3, <1>5, <3>1, BeginningsBegin
  <2> QED
    BY <1>3, <1>5, <2>1 DEF BeginsWith
<1>8. PICK x \in Seq(Byte) : x = at[i-1] /\ pos = Len(x)
  BY <1>2, <1>3, <1>6
<1>9. buf = (x \o EncodeIdentity(listed[i])) \o rest
  BY <1>6, <1>7, <1>8
<1>10. IdentityIsRead(buf, Len(x), listed[i], Len(x \o EncodeIdentity(listed[i])))
  <2>1. i \in DOMAIN listed
    BY <1>1, <1>2
  <2> QED
    BY <1>1, <1>4, <1>8, <1>9, <2>1, IdentityRead
<1>11. /\ blob.st = "ok" /\ blob.val = Blob(listed[i])
       /\ comment = string(buf, blob.pos)
       /\ comment.st = "ok" /\ comment.pos = Len(at[i])
  BY <1>6, <1>8, <1>10 DEF Then, IdentityIsRead
<1>12. Wanted(parse_ed25519_public_key(blob.val)) <=> Candidate(listed[i])
  <2>1. parse_ed25519_public_key(blob.val) =
          IF listed[i].type = ED25519_KEY_TYPE /\ Len(listed[i].pk) = PkLen
          THEN listed[i].pk ELSE None
    BY <1>1, <1>2, <1>11, BlobRead
  <2>2. listed[i].pk # None
    <3>1. listed[i].pk \in Seq(Byte)
      BY <1>1, <1>2, KeyBytes
    <3> QED
      BY <3>1, AgentAssumption
  <2> QED
    BY <2>1, <2>2 DEF Wanted, Candidate
<1>13. \E f : /\ Beginnings(f, Header(listed), Identities(listed))
              /\ buf = f[Len(listed)] /\ comment.pos = Len(f[i])
  BY <1>3, <1>11
<1> QED
  BY <1>1, <1>2, <1>11, <1>12, <1>13

LEMMA ScanLists ==
  ASSUME IInv, ListInv, scan_identity
  PROVE  ListInv'
<1> DEFINE blob == string(buf, pos)
           comment == Then(blob, string(buf, blob.pos))
           pk == parse_ed25519_public_key(blob.val)
<1>1. /\ pc = "scanning" /\ left > 0 /\ pos' = comment.pos /\ left' = left - 1
      /\ UNCHANGED <<keys, want, buf, sig, listed>>
      /\ IF comment.st = "ok" /\ Wanted(pk)
         THEN pc' = "connected" /\ signer' = [blob |-> blob.val, pk |-> pk]
         ELSE pc' = (IF comment.st = "ok" THEN pc ELSE comment.st) /\ UNCHANGED signer
  BY DEF scan_identity
<1>2. signer = None /\ buf \in Seq(Byte) /\ pos \in 0..Len(buf)
  BY <1>1 DEF ListInv, SignerIsSet, IInv, TypeOK
<1>3. /\ comment.st \in {"ok", "failed"}
      /\ comment.st = "ok" => blob.val \in Seq(Byte)
  <2>1. /\ blob.st \in {"ok", "failed"} /\ blob.pos \in 0..Len(buf)
        /\ blob.st = "ok" => blob.val \in Seq(Byte)
    BY <1>2, StringOK
  <2>2. string(buf, blob.pos).st \in {"ok", "failed"}
    BY <1>2, <2>1, StringOK
  <2> HIDE DEF blob
  <2> QED
    BY <2>1, <2>2 DEF Then
<1>4. pk # None /\ blob.val \in Seq(Byte) => pk \in Seq(Byte)
  BY TypedOK DEF parse_ed25519_public_key
<1>5. SignerIsSet'
  <2> HIDE DEF blob, comment, pk
  <2>1. CASE comment.st = "ok" /\ Wanted(pk)
    <3>1. pk \in Seq(Byte) /\ blob.val \in Seq(Byte)
      BY <1>3, <1>4, <2>1 DEF Wanted
    <3> QED
      BY <1>1, <2>1, <3>1 DEF SignerIsSet
  <2>2. CASE ~(comment.st = "ok" /\ Wanted(pk))
    BY <1>1, <1>2, <1>3, <2>2 DEF SignerIsSet
  <2> QED
    BY <2>1, <2>2
<1>6. CASE listed = None
  BY <1>1, <1>5, <1>6 DEF ListInv, Scanned, FirstCandidateIsUsed
<1>7. CASE listed # None
  <2> DEFINE n == Len(listed)
             i == n - left + 1
  <2>1. /\ listed \in KeyLists /\ i \in DOMAIN listed
        /\ blob.val = Blob(listed[i]) /\ comment.st = "ok"
        /\ Wanted(pk) <=> Candidate(listed[i])
        /\ \E at : /\ Beginnings(at, Header(listed), Identities(listed))
                   /\ buf = at[Len(listed)]
                   /\ comment.pos = Len(at[i])
    BY <1>1, <1>7, ScanReads
  <2>2. /\ n \in Nat /\ DOMAIN listed = 1..n /\ left \in 0..n
        /\ Len(buf) < Usize /\ \A j \in 1..n - left : ~Candidate(listed[j])
    BY <1>1, <1>7, <2>1, ListLen DEF ListInv, Scanned
  <2>3. /\ i \in 1..n /\ i - 1 = n - left /\ n - (left - 1) = i
        /\ left - 1 \in 0..n
        /\ \A j \in 1..i : j = i \/ j \in 1..n - left
    BY <1>1, <2>2
  <2> HIDE DEF blob, comment, pk, i
  <2>4. CASE Candidate(listed[i])
    <3>1. pc' = "connected" /\ signer' = [blob |-> Blob(listed[i]), pk |-> pk]
      BY <1>1, <2>1, <2>4
    <3>2. pk = listed[i].pk
      <4>1. parse_ed25519_public_key(Blob(listed[i])) = listed[i].pk
        BY <2>1, <2>4, BlobRead DEF Candidate
      <4> QED
        BY <2>1, <4>1 DEF pk
    <3>3. /\ i \in DOMAIN listed /\ Candidate(listed[i])
          /\ \A j \in 1..i - 1 : ~Candidate(listed[j])
          /\ signer' = [blob |-> Blob(listed[i]), pk |-> listed[i].pk]
      BY <2>1, <2>2, <2>3, <2>4, <3>1, <3>2
    <3>4. FirstCandidateIsUsed'
      BY <1>1, <3>1, <3>3 DEF FirstCandidateIsUsed, Candidate
    <3> QED
      BY <1>5, <3>1, <3>4 DEF ListInv, Scanned
  <2>5. CASE ~Candidate(listed[i])
    <3>1. pc' = "scanning" /\ UNCHANGED signer
      BY <1>1, <2>1, <2>5
    <3>2. \A j \in 1..n - left' : ~Candidate(listed[j])
      BY <1>1, <2>2, <2>3, <2>5
    <3>3. /\ left' \in 0..n /\ n - left' = i
          /\ \E at : /\ Beginnings(at, Header(listed), Identities(listed))
                     /\ buf = at[n]
                     /\ pos' = Len(at[n - left'])
      BY <1>1, <2>1, <2>3
    <3>4. Scanned'
      BY <1>1, <2>2, <3>2, <3>3
      DEF Scanned, Candidate, Header, Identities, EncodeIdentity, Blob
    <3> QED
      BY <1>5, <3>1, <3>4 DEF ListInv, FirstCandidateIsUsed
  <2> QED
    BY <2>4, <2>5
<1> QED
  BY <1>6, <1>7

\* The other steps leave the list that connect has read, or end the connect.
LEMMA OtherLists ==
  ASSUME IInv, ListInv,
         change_keys \/ recv_fails \/ no_identity \/ sign \/ UNCHANGED vars
  PROVE  ListInv'
<1>1. CASE change_keys \/ UNCHANGED vars
  <2>1. UNCHANGED <<pc, want, buf, pos, left, signer, sig, listed>>
    BY <1>1 DEF change_keys, vars, readerVars
  <2>2. SignerIsSet'
    BY <2>1 DEF ListInv, SignerIsSet
  <2>3. Scanned'
    BY <2>1 DEF ListInv, Scanned, Candidate, Header, Identities, EncodeIdentity, Blob
  <2>4. FirstCandidateIsUsed'
    BY <2>1 DEF ListInv, FirstCandidateIsUsed, Candidate
  <2> QED
    BY <2>2, <2>3, <2>4 DEF ListInv
<1>2. signer \in [blob : Seq(Byte), pk : Seq(Byte)] => signer # None
  BY AgentAssumption
<1>3. CASE recv_fails
  <2>1. /\ UNCHANGED <<want, signer, listed>> /\ pc' = "failed"
        /\ (pc = "idle" /\ listed = None) \/ (pc = "connected" /\ signer # None)
    BY <1>2, <1>3 DEF recv_fails, ListInv, SignerIsSet
  <2> QED
    BY <2>1 DEF ListInv, Scanned, SignerIsSet, FirstCandidateIsUsed
<1>4. CASE no_identity
  <2>1. UNCHANGED <<want, signer, listed>> /\ pc' = "failed" /\ pc = "scanning" /\ left = 0
    BY <1>4 DEF no_identity
  <2>2. ASSUME listed # None
        PROVE  \A i \in DOMAIN listed : ~Candidate(listed[i])
    <3>1. listed \in KeyLists
      BY <2>2 DEF IInv, TypeOK
    <3>2. Len(listed) - left = Len(listed) /\ DOMAIN listed = 1..Len(listed)
      BY <2>1, <3>1, ListLen
    <3> QED
      BY <2>1, <2>2, <3>2 DEF ListInv, Scanned
  <2>3. FirstCandidateIsUsed'
    BY <2>1, <2>2 DEF FirstCandidateIsUsed, Candidate
  <2> QED
    BY <2>1, <2>3 DEF ListInv, Scanned, SignerIsSet
<1>5. CASE sign
  <2>1. UNCHANGED signer /\ signer # None /\ pc' \in {"signed", "panicked", "failed"}
    BY <1>2, <1>5 DEF sign, ListInv, SignerIsSet
  <2> QED
    BY <2>1 DEF ListInv, Scanned, SignerIsSet, FirstCandidateIsUsed
<1> QED
  BY <1>1, <1>3, <1>4, <1>5

\* connect uses the first candidate of the list that the agent has sent, and fails
\* only if the list has none (SshAgentSigner::connect).
THEOREM FirstCandidateIsUsedAlways == Spec => []FirstCandidateIsUsed
<1>1. Init => ListInv
  BY DEF Init, ListInv, Scanned, SignerIsSet, FirstCandidateIsUsed
<1>2. IInv /\ ListInv /\ [Next]_vars => ListInv'
  BY ConnectLists, ScanLists, OtherLists DEF Next
<1>3. ListInv => FirstCandidateIsUsed
  BY DEF ListInv
<1> QED
  BY Invariance, <1>1, <1>2, <1>3, PTL DEF Spec
=============================================================================
