--------------------------- MODULE FramingProofs ----------------------------
(***************************************************************************)
(* Proofs about Framing, for any messages, limits and width of the prefix:    *)
(* however the bytes are cut into chunks and wherever the stream ends.        *)
(***************************************************************************)
EXTENDS Framing, BytesProofs

(***************************************************************************)
(* The limit on what a peer can make the reader allocate.                    *)
(***************************************************************************)

\* Whatever a peer's prefixes announce, the reader never sets aside more than the
\* limit (read_msg, recv).
THEOREM AllocationBoundedAlways == Spec => []AllocationBounded
<1>1. Init => AllocationBounded
  BY DEF Init, AllocationBounded
<1>2. ASSUME AllocationBounded, [Next]_vars
      PROVE  AllocationBounded'
  <2>1. CASE read_length
    BY <1>2, <2>1 DEF AllocationBounded, read_length, Acceptable
  <2>2. CASE read_body
    BY <2>2 DEF AllocationBounded, read_body
  <2>3. CASE read_eof
    BY <1>2, <2>3 DEF AllocationBounded, read_eof
  <2>4. CASE ~read_length /\ ~read_body /\ ~read_eof
    BY <1>2, <2>4 DEF AllocationBounded, Next, Read, write_length, write_body, finish,
                      lose, read_chunk, vars, readerVars
  <2> QED
    BY <2>1, <2>2, <2>3, <2>4
<1> QED
  BY <1>1, <1>2, PTL DEF Spec

(***************************************************************************)
(* The inductive invariant.  What the reader has in its buffer, followed by   *)
(* what is on the stream and what is still to come, is the encoding of the    *)
(* messages that have not been returned: g[i] is that of sent[i] and those    *)
(* after it.  What is to come, Z, is the rest of the body while the stream    *)
(* lasts, and is never read once it has ended.                                *)
(***************************************************************************)
Encoding(g) ==
  /\ g[Len(sent) + 1] = <<>>
  /\ \A i \in 1..Len(sent) :
       g[i] = to_be_bytes(Len(sent[i])) \o (sent[i] \o g[i + 1])

Follows(Z, g) ==
  /\ ~ended => Z = unsent
  /\ Encoding(g)
  /\ reader = "length" => buf \o (stream \o Z) = g[Len(got) + 1]
  /\ reader = "body" => buf \o (stream \o Z) = sent[Len(got) + 1] \o g[Len(got) + 2]

Encodings == [1..Len(sent) + 1 -> Seq(Byte)]

Layout == \E Z \in Seq(Byte), g \in Encodings : Follows(Z, g)

\* Only lengths that fit a prefix are written; what is read is what was announced.
Lengths ==
  /\ \A i \in 1..Len(sent) : Len(sent[i]) < U32
  /\ Len(got) <= Len(sent)
  /\ reader = "length" => need = LenBytes
  /\ reader = "body" =>
       /\ Len(got) < Len(sent)
       /\ need = Len(sent[Len(got) + 1])
       /\ Acceptable(need)

IInv == TypeOK /\ Lengths /\ Layout
-----------------------------------------------------------------------------
\* The bytes of a message that was sent.
LEMMA SentBytes ==
  ASSUME TypeOK, NEW i \in 1..Len(sent)
  PROVE  sent[i] \in Seq(Byte) /\ sent[i] \in Messages
<1>1. sent[i] \in Messages
  BY ElementOfSeq DEF TypeOK
<1> QED
  BY <1>1, FramingAssumption

\* A complete prefix is that of the next message, whose body follows.
LEMMA PrefixRead ==
  ASSUME TypeOK, Lengths, NEW Z \in Seq(Byte), NEW g \in Encodings, Follows(Z, g),
         reader = "length", Len(buf) = need
  PROVE  /\ Len(got) < Len(sent)
         /\ from_be_bytes(buf) = Len(sent[Len(got) + 1])
         /\ stream \o Z = sent[Len(got) + 1] \o g[Len(got) + 2]
<1>1. /\ Len(got) \in Nat /\ Len(sent) \in Nat /\ Len(got) <= Len(sent)
      /\ Len(buf) = LenBytes /\ LenBytes \in Nat \ {0}
  BY BytesAssumption DEF TypeOK, Lengths
<1>2. buf \in Seq(Byte) /\ stream \o Z \in Seq(Byte)
  BY ConcatProperties DEF TypeOK
<1>3. buf \o (stream \o Z) = g[Len(got) + 1]
  BY DEF Follows
<1>4. Len(got) # Len(sent)
  <2> SUFFICES ASSUME Len(got) = Len(sent) PROVE FALSE
    OBVIOUS
  <2>1. buf \o (stream \o Z) = <<>>
    BY <1>3 DEF Follows, Encoding
  <2>2. buf = <<>>
    BY <1>2, <2>1, ConcatEqualIffEmpty
  <2> QED
    BY <1>1, <2>2, EmptySeq
<1>5. Len(got) + 1 \in 1..Len(sent) /\ (Len(got) + 1) + 1 = Len(got) + 2
  BY <1>1, <1>4
<1> DEFINE m == sent[Len(got) + 1]
           r == g[Len(got) + 2]
<1>6. m \in Seq(Byte) /\ Len(m) \in Nat /\ Len(m) < U32
  <2>1. m \in Seq(Byte)
    BY <1>5, SentBytes
  <2> QED
    BY <1>5, <2>1, LenProperties DEF Lengths
<1>7. r \in Seq(Byte)
  BY <1>1, <1>5 DEF Encodings
<1>8. g[Len(got) + 1] = to_be_bytes(Len(m)) \o (m \o r)
  BY <1>5 DEF Follows, Encoding
<1> HIDE DEF m, r
<1>9. /\ to_be_bytes(Len(m)) \in Seq(Byte) /\ Len(to_be_bytes(Len(m))) = LenBytes
      /\ from_be_bytes(to_be_bytes(Len(m))) = Len(m)
  BY <1>6, Prefix
<1>10. m \o r \in Seq(Byte)
  BY <1>6, <1>7, ConcatProperties
<1>11. buf = to_be_bytes(Len(m)) /\ stream \o Z = m \o r
  <2> DEFINE p == to_be_bytes(Len(m))
             x == stream \o Z
             y == m \o r
  <2>1. buf \o x = p \o y /\ Len(buf) = Len(p)
    BY <1>1, <1>3, <1>8, <1>9
  <2>2. p \in Seq(Byte) /\ x \in Seq(Byte) /\ y \in Seq(Byte)
    BY <1>2, <1>9, <1>10
  <2> HIDE DEF p, x, y
  <2>3. buf = p /\ x = y
    BY <1>2, <2>1, <2>2, Cancel, Zenon
  <2> QED
    BY <2>3 DEF p, x, y
<1> QED
  BY <1>1, <1>4, <1>9, <1>11 DEF m, r

\* A complete body is the next message, and the messages after it follow.
LEMMA BodyRead ==
  ASSUME TypeOK, Lengths, NEW Z \in Seq(Byte), NEW g \in Encodings, Follows(Z, g),
         reader = "body", Len(buf) = need
  PROVE  /\ buf = sent[Len(got) + 1]
         /\ stream \o Z = g[Len(got) + 2]
<1>1. Len(got) \in Nat /\ Len(sent) \in Nat /\ Len(got) < Len(sent)
  BY DEF TypeOK, Lengths
<1>2. buf \in Seq(Byte) /\ stream \o Z \in Seq(Byte)
  BY ConcatProperties DEF TypeOK
<1>3. Len(got) + 1 \in 1..Len(sent) /\ Len(got) + 2 \in 1..Len(sent) + 1
  BY <1>1
<1>4. sent[Len(got) + 1] \in Seq(Byte)
  BY <1>3, SentBytes
<1>5. g[Len(got) + 2] \in Seq(Byte)
  BY <1>3 DEF Encodings
<1>6. buf \o (stream \o Z) = sent[Len(got) + 1] \o g[Len(got) + 2]
  BY DEF Follows
<1>7. Len(buf) = Len(sent[Len(got) + 1])
  BY DEF Lengths
<1> DEFINE m == sent[Len(got) + 1]
           x == stream \o Z
           y == g[Len(got) + 2]
<1>8. m \in Seq(Byte) /\ x \in Seq(Byte) /\ y \in Seq(Byte) /\ buf \o x = m \o y
  BY <1>2, <1>4, <1>5, <1>6
<1>9. Len(buf) = Len(m)
  BY <1>7
<1> HIDE DEF m, x, y
<1>10. buf = m /\ x = y
  BY <1>2, <1>8, <1>9, Cancel, Zenon
<1> QED
  BY <1>10 DEF m, x, y
-----------------------------------------------------------------------------
LEMMA InitIInv == Init => IInv
<1> SUFFICES ASSUME Init PROVE IInv
  OBVIOUS
<1>1. TypeOK
  <2>1. <<>> \in Seq(Byte) /\ <<>> \in Seq(Messages) /\ <<>> \in Seq(Seq(Byte))
    BY EmptySeq
  <2>2. Len(<<>>) = 0 /\ 0 < U32 /\ LenBytes \in Nat /\ 0 <= LenBytes
    BY BytesAssumption, U32Typed, EmptySeq
  <2> QED
    BY <2>1, <2>2 DEF Init, TypeOK
<1>2. Lengths
  BY EmptySeq DEF Init, Lengths
<1>3. Layout
  <2> DEFINE g == [i \in 1..Len(sent) + 1 |-> <<>>]
  <2>1. <<>> \in Seq(Byte) /\ Len(sent) = 0 /\ Len(got) = 0
    BY EmptySeq DEF Init
  <2>2. g \in Encodings
    BY <2>1 DEF Encodings
  <2>3. g[1] = <<>>
    BY <2>1
  <2>4. <<>> \o (<<>> \o <<>>) = <<>>
    BY <2>1, ConcatEmptySeq
  <2> HIDE DEF g
  <2>5. Follows(<<>>, g)
    BY <2>1, <2>3, <2>4 DEF Init, Follows, Encoding
  <2> QED
    BY <2>1, <2>2, <2>5 DEF Layout
<1> QED
  BY <1>1, <1>2, <1>3 DEF IInv

LEMMA TypeStep ==
  ASSUME IInv, [Next]_vars
  PROVE  TypeOK'
<1> USE DEF TypeOK
<1>0. Len(<<>>) = 0 /\ <<>> \in Seq(Byte) /\ U32 \in Nat \ {0} /\ LenBytes \in Nat
  BY EmptySeq, U32Typed, BytesAssumption
<1>1. CASE UNCHANGED vars
  BY <1>1 DEF IInv, vars, writerVars, readerVars
<1>2. ASSUME NEW m \in Messages, write_length(m)
      PROVE  TypeOK'
  <2>1. m \in Seq(Byte) /\ Len(m) \in Nat /\ Len(m) < U32
    BY <1>2, FramingAssumption DEF write_length, LengthFits
  <2>2. to_be_bytes(Len(m)) \in Seq(Byte)
    BY <2>1, Prefix
  <2>3. stream' \in Seq(Byte)
    BY <1>2, <2>2, ConcatProperties DEF write_length, IInv
  <2>4. sent' \in Seq(Messages)
    BY <1>2, AppendProperties DEF write_length, IInv
  <2>5. unsent' \in Seq(Byte) /\ Len(unsent') < U32
    BY <1>2, <2>1 DEF write_length
  <2> QED
    BY <1>2, <2>3, <2>4, <2>5 DEF write_length, readerVars, IInv
<1>3. CASE write_body
  <2>1. stream' \in Seq(Byte)
    BY <1>3, ConcatProperties DEF write_body, IInv
  <2> QED
    BY <1>0, <1>3, <2>1 DEF write_body, readerVars, IInv
<1>4. CASE finish \/ lose
  BY <1>0, <1>4 DEF finish, lose, writerVars, readerVars, IInv
<1>5. CASE read_chunk
  <2>1. PICK k \in 1..Len(stream) :
          /\ Len(buf) + k <= need
          /\ buf' = buf \o SubSeq(stream, 1, k)
          /\ stream' = SubSeq(stream, k + 1, Len(stream))
    BY <1>5 DEF read_chunk
  <2>2. /\ SubSeq(stream, 1, k) \in Seq(Byte) /\ Len(SubSeq(stream, 1, k)) = k
        /\ stream' \in Seq(Byte)
    BY <2>1, Split DEF IInv
  <2>3. buf' \in Seq(Byte) /\ Len(buf') = Len(buf) + k
    BY <2>1, <2>2, ConcatProperties DEF IInv
  <2> QED
    BY <1>5, <2>1, <2>2, <2>3 DEF read_chunk, writerVars, IInv
<1>6. CASE read_eof
  BY <1>6 DEF read_eof, writerVars, IInv
<1>7. CASE read_length
  <2>1. PICK Z \in Seq(Byte), g \in Encodings : Follows(Z, g)
    BY DEF IInv, Layout
  <2>2. Len(got) < Len(sent) /\ from_be_bytes(buf) = Len(sent[Len(got) + 1])
    BY <1>7, <2>1, PrefixRead DEF read_length, IInv
  <2>3. Len(got) + 1 \in 1..Len(sent)
    BY <2>2 DEF IInv
  <2>4. from_be_bytes(buf) \in Nat
    BY <2>2, <2>3, SentBytes, LenProperties DEF IInv
  <2>5. /\ need' \in Nat /\ buf' \in Seq(Byte) /\ Len(buf') <= need'
        /\ reader' \in {"length", "body", "failed"}
    <3>1. CASE Acceptable(from_be_bytes(buf))
      BY <1>0, <1>7, <2>4, <3>1 DEF read_length
    <3>2. CASE ~Acceptable(from_be_bytes(buf))
      BY <1>7, <3>2 DEF read_length, IInv
    <3> QED
      BY <3>1, <3>2
  <2> QED
    BY <1>7, <2>5 DEF read_length, writerVars, IInv
<1>8. CASE read_body
  <2>1. got' \in Seq(Seq(Byte))
    BY <1>8, AppendProperties DEF read_body, IInv
  <2> QED
    BY <1>0, <1>8, <2>1 DEF read_body, writerVars, IInv
<1> QED
  BY <1>1, <1>2, <1>3, <1>4, <1>5, <1>6, <1>7, <1>8 DEF Next, Read

LEMMA LengthsStep ==
  ASSUME IInv, [Next]_vars
  PROVE  Lengths'
<1> USE DEF Lengths, Acceptable
<1>0. /\ Len(got) \in Nat /\ Len(sent) \in Nat /\ Len(got) <= Len(sent)
  BY LenProperties DEF IInv, TypeOK
<1>2. ASSUME NEW m \in Messages, write_length(m)
      PROVE  Lengths'
  <2>1. /\ Len(sent') = Len(sent) + 1
        /\ \A i \in 1..Len(sent) : sent'[i] = sent[i]
        /\ sent'[Len(sent) + 1] = m
    BY <1>2, AppendProperties DEF write_length, IInv, TypeOK
  <2>2. Len(m) < U32
    BY <1>2 DEF write_length, LengthFits
  <2>3. \A i \in 1..Len(sent') : Len(sent'[i]) < U32
    <3> TAKE i \in 1..Len(sent')
    <3>1. i \in 1..Len(sent) \/ i = Len(sent) + 1
      BY <1>0, <2>1
    <3> QED
      BY <2>1, <2>2, <3>1 DEF IInv
  <2>4. reader = "body" => sent'[Len(got) + 1] = sent[Len(got) + 1]
    BY <1>0, <2>1 DEF IInv
  <2> QED
    BY <1>0, <1>2, <2>1, <2>3, <2>4 DEF write_length, readerVars, IInv
<1>3. CASE write_body \/ finish \/ lose \/ read_chunk \/ read_eof \/ UNCHANGED vars
  BY <1>3 DEF write_body, finish, lose, read_chunk, read_eof, writerVars,
                readerVars, vars, IInv
<1>7. CASE read_length
  <2>1. PICK Z \in Seq(Byte), g \in Encodings : Follows(Z, g)
    BY DEF IInv, Layout
  <2>2. Len(got) < Len(sent) /\ from_be_bytes(buf) = Len(sent[Len(got) + 1])
    BY <1>7, <2>1, PrefixRead DEF read_length, IInv
  <2> QED
    BY <1>7, <2>2 DEF read_length, writerVars, IInv
<1>8. CASE read_body
  <2>1. Len(got') = Len(got) + 1
    BY <1>8, AppendProperties DEF read_body, IInv, TypeOK
  <2> QED
    BY <1>0, <1>8, <2>1 DEF read_body, writerVars, IInv
<1> QED
  BY <1>2, <1>3, <1>7, <1>8 DEF Next, Read

\* The encoding changes only when a message is sent.
LEMMA SameEncoding ==
  ASSUME NEW g \in Encodings, Encoding(g), UNCHANGED sent
  PROVE  g \in Encodings' /\ Encoding(g)'
  BY DEF Encodings, Encoding

LEMMA LayoutStep ==
  ASSUME IInv, [Next]_vars
  PROVE  Layout'
<1>1. PICK Z, g : Z \in Seq(Byte) /\ g \in Encodings /\ Follows(Z, g)
  BY DEF IInv, Layout
<1>2. /\ Len(got) \in Nat /\ Len(sent) \in Nat /\ Len(got) <= Len(sent)
      /\ buf \in Seq(Byte) /\ stream \in Seq(Byte) /\ unsent \in Seq(Byte)
      /\ stream \o Z \in Seq(Byte) /\ <<>> \in Seq(Byte)
  BY <1>1, EmptySeq, ConcatProperties DEF IInv, TypeOK, Lengths
<1>3. ASSUME NEW m \in Messages, write_length(m)
      PROVE  Layout'
  <2> DEFINE p == to_be_bytes(Len(m))
             e == p \o m
  <2>1. m \in Seq(Byte) /\ p \in Seq(Byte)
    <3>1. m \in Seq(Byte) /\ Len(m) \in Nat /\ Len(m) < U32
      BY <1>3, FramingAssumption DEF write_length, LengthFits
    <3> QED
      BY <3>1, Prefix
  <2>2. e \in Seq(Byte) /\ e = p \o (m \o <<>>) /\ <<>> \o e = e
    BY <2>1, ConcatProperties, ConcatEmptySeq
  <2>3. /\ Len(sent') = Len(sent) + 1 /\ sent'[Len(sent) + 1] = m
        /\ \A i \in 1..Len(sent) : sent'[i] = sent[i]
    BY <1>3, AppendProperties DEF write_length, IInv, TypeOK
  <2>4. \A i \in 1..Len(sent) + 1 : g[i] \in Seq(Byte) /\ g[i] \o e \in Seq(Byte)
    BY <1>1, <2>2, ConcatProperties DEF Encodings
  <2> HIDE DEF p, e
  <2>h. PICK h : h = [i \in 1..Len(sent) + 2 |-> IF i <= Len(sent) + 1 THEN g[i] \o e
                                                                     ELSE <<>>]
    OBVIOUS
  <2>5. h \in Encodings'
    BY <1>2, <2>h, <2>3, <2>4 DEF Encodings
  <2>6. /\ \A i \in 1..Len(sent) + 1 : h[i] = g[i] \o e
        /\ h[Len(sent) + 2] = <<>>
    BY <1>2, <2>h
  <2>7. Encoding(h)'
    <3>1. h[Len(sent') + 1] = <<>>
      BY <1>2, <2>3, <2>6
    <3>2. ASSUME NEW i \in 1..Len(sent')
          PROVE  h[i] = to_be_bytes(Len(sent'[i])) \o (sent'[i] \o h[i + 1])
      <4>1. CASE i = Len(sent) + 1
        <5>1. g[i] = <<>> /\ h[i] = g[i] \o e
          <6>1. g[Len(sent) + 1] = <<>>
            BY <1>1 DEF Follows, Encoding
          <6>2. Len(sent) + 1 \in 1..Len(sent) + 1
            BY <1>2
          <6> QED
            BY <2>6, <4>1, <6>1, <6>2, Zenon
        <5>2. sent'[i] = m /\ h[i + 1] = <<>>
          BY <1>2, <2>3, <2>6, <4>1
        <5> QED
          BY <2>2, <5>1, <5>2, Zenon DEF p
      <4>2. CASE i \in 1..Len(sent)
        <5> DEFINE n == sent[i]
                   q == to_be_bytes(Len(n))
        <5>1. n \in Seq(Byte) /\ q \in Seq(Byte) /\ sent'[i] = n
          <6>1. n \in Seq(Byte) /\ Len(n) \in Nat /\ Len(n) < U32
            BY <4>2, SentBytes, LenProperties DEF IInv, Lengths
          <6> QED
            BY <2>3, <4>2, <6>1, Prefix
        <5>2. g[i] = q \o (n \o g[i + 1])
          BY <1>1, <4>2 DEF Follows, Encoding
        <5>3. i + 1 \in 1..Len(sent) + 1 /\ i \in 1..Len(sent) + 1
          BY <1>2, <4>2
        <5>4. h[i] = g[i] \o e /\ h[i + 1] = g[i + 1] \o e /\ g[i + 1] \in Seq(Byte)
          BY <2>4, <2>6, <5>3
        <5> HIDE DEF n, q
        <5>5. (q \o (n \o g[i + 1])) \o e = q \o (n \o (g[i + 1] \o e))
          <6> DEFINE x == g[i + 1]
          <6>1. n \in Seq(Byte) /\ x \in Seq(Byte) /\ e \in Seq(Byte)
            BY <2>2, <5>1, <5>4
          <6> HIDE DEF x
          <6>2. (n \o x) \o e = n \o (x \o e)
            BY <6>1, Assoc, Zenon
          <6>3. q \in Seq(Byte) /\ n \o x \in Seq(Byte) /\ e \in Seq(Byte)
            BY <5>1, <6>1, ConcatProperties
          <6>4. (q \o (n \o x)) \o e = q \o ((n \o x) \o e)
            BY <6>3, Assoc, Zenon
          <6> QED
            BY <6>2, <6>4, Zenon DEF x
        <5> QED
          BY <5>1, <5>2, <5>4, <5>5, Zenon DEF n, q
      <4>3. i = Len(sent) + 1 \/ i \in 1..Len(sent)
        BY <1>2, <2>3
      <4> QED
        BY <4>1, <4>2, <4>3
    <3> QED
      BY <3>1, <3>2 DEF Encoding
  <2>8. Z = <<>> /\ stream' = stream \o p /\ unsent' = m /\ ~ended
    BY <1>1, <1>3 DEF write_length, Follows, p
  <2>9. buf \o (stream' \o m) = (buf \o (stream \o Z)) \o e
    <3>1. stream \o Z = stream
      BY <1>2, <2>8, ConcatEmptySeq
    <3>2. (stream \o p) \o m = stream \o (p \o m)
      <4>1. stream \in Seq(Byte) /\ p \in Seq(Byte) /\ m \in Seq(Byte)
        BY <1>2, <2>1
      <4> QED
        BY <4>1, Assoc, Zenon
    <3>3. (buf \o stream) \o e = buf \o (stream \o e)
      <4>1. buf \in Seq(Byte) /\ stream \in Seq(Byte) /\ e \in Seq(Byte)
        BY <1>2, <2>2
      <4> QED
        BY <4>1, Assoc, Zenon
    <3> QED
      BY <2>8, <3>1, <3>2, <3>3, Zenon DEF e
  <2>10. UNCHANGED <<ended, reader, need, buf, got>>
    BY <1>3 DEF write_length, readerVars
  <2>11. reader = "length" => buf \o (stream' \o m) = h[Len(got) + 1]
    <3>1. Len(got) + 1 \in 1..Len(sent) + 1
      BY <1>2
    <3> QED
      BY <1>1, <2>6, <2>9, <3>1 DEF Follows
  <2>12. reader = "body" => buf \o (stream' \o m) = sent'[Len(got) + 1] \o h[Len(got) + 2]
    <3> SUFFICES ASSUME reader = "body"
                 PROVE  buf \o (stream' \o m) = sent'[Len(got) + 1] \o h[Len(got) + 2]
      OBVIOUS
    <3>1. Len(got) + 1 \in 1..Len(sent) /\ Len(got) + 2 \in 1..Len(sent) + 1
      BY <1>2 DEF IInv, Lengths
    <3> DEFINE n == sent[Len(got) + 1]
               x == g[Len(got) + 2]
    <3>2. n \in Seq(Byte) /\ x \in Seq(Byte)
      BY <2>4, <3>1, SentBytes DEF IInv
    <3>3. sent'[Len(got) + 1] = n /\ h[Len(got) + 2] = x \o e
      BY <2>3, <2>6, <3>1
    <3>4. buf \o (stream \o Z) = n \o x
      BY <1>1 DEF Follows
    <3> HIDE DEF n, x
    <3>5. (n \o x) \o e = n \o (x \o e)
      <4>1. n \in Seq(Byte) /\ x \in Seq(Byte) /\ e \in Seq(Byte)
        BY <2>2, <3>2
      <4> QED
        BY <4>1, Assoc, Zenon
    <3> QED
      BY <2>9, <3>3, <3>4, <3>5, Zenon
  <2>13. Follows(m, h)'
    BY <2>7, <2>8, <2>10, <2>11, <2>12 DEF Follows
  <2> QED
    BY <2>1, <2>5, <2>13 DEF Layout
<1>4. CASE write_body
  <2>1. Z = unsent /\ stream' = stream \o Z /\ unsent' = <<>>
    BY <1>1, <1>4 DEF write_body, Follows
  <2>2. stream' \o <<>> = stream \o Z
    BY <1>2, <2>1, ConcatEmptySeq
  <2>3. UNCHANGED <<sent, ended, reader, buf, got>>
    BY <1>4 DEF write_body, readerVars
  <2>4. g \in Encodings' /\ Encoding(g)'
    BY <1>1, <2>3, SameEncoding DEF Follows
  <2>5. Follows(<<>>, g)'
    BY <1>1, <2>1, <2>2, <2>3, <2>4 DEF Follows
  <2> QED
    BY <1>2, <2>4, <2>5 DEF Layout
<1>5. CASE finish
  <2>1. UNCHANGED <<sent, stream, reader, buf, got>> /\ ended'
    BY <1>5 DEF finish, writerVars, readerVars
  <2>2. g \in Encodings' /\ Encoding(g)'
    BY <1>1, <2>1, SameEncoding DEF Follows
  <2>3. Follows(Z, g)'
    BY <1>1, <2>1, <2>2 DEF Follows
  <2> QED
    BY <1>1, <2>2, <2>3 DEF Layout
<1>6. CASE lose
  <2>1. UNCHANGED <<sent, reader, buf, got>> /\ ended' /\ stream' = <<>>
    BY <1>6 DEF lose, writerVars, readerVars
  <2>2. g \in Encodings' /\ Encoding(g)'
    BY <1>1, <2>1, SameEncoding DEF Follows
  <2> PICK W \in Seq(Byte) : W = stream \o Z
    BY <1>2
  <2>3. stream' \o W = stream \o Z
    BY <2>1, ConcatEmptySeq
  <2>4. Follows(W, g)'
    BY <1>1, <2>1, <2>2, <2>3 DEF Follows
  <2> QED
    BY <1>2, <2>2, <2>4 DEF Layout
<1>7. CASE read_chunk
  <2>1. PICK k \in 1..Len(stream) :
          /\ buf' = buf \o SubSeq(stream, 1, k)
          /\ stream' = SubSeq(stream, k + 1, Len(stream))
    BY <1>7 DEF read_chunk
  <2> DEFINE x == SubSeq(stream, 1, k)
             y == SubSeq(stream, k + 1, Len(stream))
  <2>2. x \in Seq(Byte) /\ y \in Seq(Byte) /\ x \o y = stream
    BY <1>2, Split
  <2>3. buf' = buf \o x /\ stream' = y
    BY <2>1
  <2> HIDE DEF x, y
  <2>4. buf' \o (stream' \o Z) = buf \o (stream \o Z)
    <3>1. buf \in Seq(Byte) /\ x \in Seq(Byte) /\ y \o Z \in Seq(Byte)
      BY <1>1, <1>2, <2>2, ConcatProperties
    <3>2. (buf \o x) \o (y \o Z) = buf \o (x \o (y \o Z))
      BY <3>1, Assoc, Zenon
    <3>3. (x \o y) \o Z = x \o (y \o Z)
      <4>1. x \in Seq(Byte) /\ y \in Seq(Byte) /\ Z \in Seq(Byte)
        BY <1>1, <2>2
      <4> QED
        BY <4>1, Assoc, Zenon
    <3> QED
      BY <2>2, <2>3, <3>2, <3>3, Zenon
  <2>5. UNCHANGED <<sent, unsent, ended, reader, got>>
    BY <1>7 DEF read_chunk, writerVars
  <2>6. g \in Encodings' /\ Encoding(g)'
    BY <1>1, <2>5, SameEncoding DEF Follows
  <2>7. Follows(Z, g)'
    BY <1>1, <2>4, <2>5, <2>6 DEF Follows
  <2> QED
    BY <1>1, <2>6, <2>7 DEF Layout
<1>8. CASE read_eof \/ UNCHANGED vars
  <2>1. UNCHANGED <<sent, unsent, stream, ended, buf, got>> /\ reader' \in {reader, "failed"}
    BY <1>8 DEF read_eof, writerVars, readerVars, vars
  <2>2. g \in Encodings' /\ Encoding(g)'
    BY <1>1, <2>1, SameEncoding DEF Follows
  <2>3. Follows(Z, g)'
    BY <1>1, <2>1, <2>2 DEF Follows
  <2> QED
    BY <1>1, <2>2, <2>3 DEF Layout
<1>9. CASE read_length
  <2>1. UNCHANGED <<sent, unsent, stream, ended, got>>
    BY <1>9 DEF read_length, writerVars
  <2>2. reader' = "failed" \/ (reader' = "body" /\ buf' = <<>>)
    BY <1>9 DEF read_length
  <2>3. stream \o Z = sent[Len(got) + 1] \o g[Len(got) + 2]
    BY <1>1, <1>9, PrefixRead DEF read_length, IInv
  <2>4. <<>> \o (stream \o Z) = stream \o Z
    BY <1>2, ConcatEmptySeq
  <2>5. g \in Encodings' /\ Encoding(g)'
    BY <1>1, <2>1, SameEncoding DEF Follows
  <2>6. Follows(Z, g)'
    BY <1>1, <2>1, <2>2, <2>3, <2>4, <2>5 DEF Follows
  <2> QED
    BY <1>1, <2>5, <2>6 DEF Layout
<1>10. CASE read_body
  <2>1. UNCHANGED <<sent, unsent, stream, ended>> /\ reader' = "length" /\ buf' = <<>>
    BY <1>10 DEF read_body, writerVars
  <2>2. Len(got') + 1 = Len(got) + 2
    BY <1>2, <1>10, AppendProperties DEF read_body, IInv, TypeOK
  <2>3. stream \o Z = g[Len(got) + 2]
    BY <1>1, <1>10, BodyRead DEF read_body, IInv
  <2>4. <<>> \o (stream \o Z) = stream \o Z
    BY <1>2, ConcatEmptySeq
  <2>5. g \in Encodings' /\ Encoding(g)'
    BY <1>1, <2>1, SameEncoding DEF Follows
  <2>6. Follows(Z, g)'
    BY <1>1, <2>1, <2>2, <2>3, <2>4, <2>5 DEF Follows
  <2> QED
    BY <1>1, <2>5, <2>6 DEF Layout
<1> QED
  BY <1>3, <1>4, <1>5, <1>6, <1>7, <1>8, <1>9, <1>10 DEF Next, Read

\* Framing keeps the invariant: the bytes on their way are the encoding of the
\* messages not yet returned.
THEOREM Invariance == Spec => []IInv
<1>1. IInv /\ [Next]_vars => IInv'
  BY TypeStep, LengthsStep, LayoutStep DEF IInv
<1> QED
  BY InitIInv, <1>1, PTL DEF Spec

\* The state of write_msg and read_msg (send and recv) is of its type: no length
\* and no buffer leaves its bounds.
THEOREM TypeCorrect == Spec => []TypeOK
<1>1. IInv => TypeOK
  BY DEF IInv
<1> QED
  BY Invariance, <1>1, PTL
-----------------------------------------------------------------------------
(***************************************************************************)
(* Framing implements MessageStream.                                         *)
(***************************************************************************)
LEMMA RefinementInit == Init => MS!Init
<1> SUFFICES ASSUME Init PROVE MS!Init
  OBVIOUS
<1>1. (reader = "failed") = FALSE
  BY DEF Init
<1> QED
  BY <1>1 DEF Init, MS!Init

\* One step of Framing is one of MessageStream or leaves its state alone.
LEMMA RefinementStep ==
  ASSUME IInv, [Next]_vars
  PROVE  [MS!Next]_MS!vars
<1>1. PICK Z \in Seq(Byte), g \in Encodings : Follows(Z, g)
  BY DEF IInv, Layout
<1>2. ASSUME NEW m \in Messages, write_length(m)
      PROVE  MS!Next
  <2>1. MS!Send(m)
    BY <1>2 DEF write_length, readerVars, MS!Send
  <2> QED
    BY <2>1 DEF MS!Next
<1>3. CASE write_body \/ read_chunk \/ UNCHANGED vars
  BY <1>3 DEF write_body, read_chunk, vars, writerVars, readerVars, MS!vars
<1>4. CASE finish \/ lose
  <2>1. CASE ended
    <3>1. ended' = ended
      BY <1>4, <2>1 DEF finish, lose, IInv, TypeOK
    <3> QED
      BY <1>4, <3>1 DEF finish, lose, writerVars, readerVars, MS!vars
  <2>2. CASE ~ended
    <3>1. MS!End
      BY <1>4, <2>2 DEF finish, lose, writerVars, readerVars, MS!End
    <3> QED
      BY <3>1 DEF MS!Next
  <2> QED
    BY <2>1, <2>2
<1>5. CASE read_eof
  <2>1. (reader' = "failed") = TRUE /\ reader # "failed" /\ ended
    BY <1>5 DEF read_eof
  <2>2. UNCHANGED <<min, sent, got, ended>>
    BY <1>5 DEF read_eof, writerVars
  <2>3. MS!Fail
    BY <2>1, <2>2 DEF MS!Fail
  <2> QED
    BY <2>3 DEF MS!Next
<1>6. CASE read_length
  <2> DEFINE n == from_be_bytes(buf)
  <2>1. Len(got) < Len(sent) /\ n = Len(sent[Len(got) + 1])
    BY <1>1, <1>6, PrefixRead DEF read_length, IInv
  <2>2. Len(got) + 1 \in 1..Len(sent)
    BY <2>1 DEF IInv, TypeOK
  <2>3. n \in Nat /\ min \in Nat /\ MaxMsg \in Nat
    BY <2>1, <2>2, SentBytes, LenProperties, FramingAssumption DEF IInv, TypeOK
  <2>4. MS!Due /\ (Acceptable(n) <=> MS!Fits(MS!NextMessage))
    <3>1. Acceptable(n) <=> n \in min..MaxMsg
      BY <2>3 DEF Acceptable
    <3> QED
      BY <2>1, <3>1 DEF MS!Due, MS!Fits, MS!NextMessage
  <2>5. UNCHANGED <<min, sent, got, ended>> /\ reader = "length"
    BY <1>6 DEF read_length, writerVars
  <2>6. CASE Acceptable(n)
    <3>1. (reader' = "failed") = FALSE /\ (reader = "failed") = FALSE
      BY <1>6, <2>6 DEF read_length
    <3> QED
      BY <2>5, <3>1 DEF MS!vars
  <2>7. CASE ~Acceptable(n)
    <3>1. (reader' = "failed") = TRUE /\ reader # "failed"
      BY <1>6, <2>7 DEF read_length
    <3>2. MS!Fail
      BY <2>4, <2>5, <2>7, <3>1 DEF MS!Fail
    <3> QED
      BY <3>2 DEF MS!Next
  <2> QED
    BY <2>6, <2>7
<1>7. CASE read_body
  <2>1. buf = sent[Len(got) + 1] /\ Len(got) < Len(sent)
    BY <1>1, <1>7, BodyRead DEF read_body, IInv, Lengths
  <2>2. MS!Due /\ MS!Fits(MS!NextMessage)
    <3>1. Len(sent[Len(got) + 1]) = need /\ need >= min /\ need <= MaxMsg
      BY <1>7 DEF read_body, IInv, Lengths, Acceptable
    <3>2. need \in Nat /\ min \in Nat /\ MaxMsg \in Nat
      BY FramingAssumption DEF IInv, TypeOK
    <3>3. need \in min..MaxMsg
      BY <3>1, <3>2
    <3> QED
      BY <2>1, <3>1, <3>3 DEF MS!Due, MS!Fits, MS!NextMessage
  <2>3. (reader' = "failed") = FALSE /\ (reader = "failed") = FALSE
    BY <1>7 DEF read_body
  <2>4. got' = Append(got, MS!NextMessage) /\ UNCHANGED <<min, sent, ended>>
    BY <1>7, <2>1 DEF read_body, writerVars, MS!NextMessage
  <2>5. MS!Deliver
    BY <2>2, <2>3, <2>4 DEF MS!Deliver
  <2> QED
    BY <2>5 DEF MS!Next
<1> QED
  BY <1>2, <1>3, <1>4, <1>5, <1>6, <1>7 DEF Next, Read

\* The stream delivers whole messages in order, and fails only for a message outside
\* the limits or once it has ended (write_msg and read_msg; send and recv), however
\* its bytes are cut into chunks and wherever it ends.
THEOREM Refinement == Spec => StreamSpec
<1>1. IInv /\ [Next]_vars => [MS!Next]_MS!vars
  BY RefinementStep
<1> QED
  BY RefinementInit, Invariance, <1>1, PTL DEF Spec, StreamSpec, MS!Spec
=============================================================================
