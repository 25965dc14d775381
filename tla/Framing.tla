------------------------------ MODULE Framing -------------------------------
(***************************************************************************)
(* One direction of a stream: write_msg and read_msg of wire.rs, on a QUIC    *)
(* stream, and send and recv of ssh_agent.rs, on a Unix socket.  They differ  *)
(* in the lengths the reader takes: the least is 0 or 1 (an agent's message   *)
(* has a type), the largest MAX_MSG or MAX_AGENT_MSG.                         *)
(*                                                                          *)
(* The reader receives bytes in chunks of any size.  The writer may be        *)
(* dropped between the prefix and the body, the stream finished after what    *)
(* was written, or the connection lost with what was not read.                *)
(***************************************************************************)
EXTENDS Bytes

CONSTANTS
  Messages,          \* encoded messages
  MinMsgs, MaxMsg,   \* the lengths that readers take
  MaxSent            \* bound on the number of messages

ASSUME FramingAssumption ==
  /\ Messages \subseteq Seq(Byte)
  /\ MinMsgs \subseteq Nat /\ MaxMsg \in Nat
  /\ MaxSent \in Nat

VARIABLES
  min,      \* the least length that the reader of this stream takes
  sent,     \* history: the messages whose writing began
  unsent,   \* the body that the writer has yet to write, if any
  stream,   \* bytes written and not yet read
  ended,    \* the stream is finished or lost
  reader,   \* "length" or "body": what is being read; or "failed"
  need,     \* how many bytes that takes
  buf,      \* how many of them are there
  got       \* the messages that read_msg has returned

writerVars == <<sent, unsent>>
readerVars == <<min, reader, need, buf, got>>
vars == <<writerVars, stream, ended, readerVars>>

TypeOK ==
  /\ min \in MinMsgs
  /\ sent \in Seq(Messages)
  /\ unsent \in Seq(Byte) /\ Len(unsent) < U32
  /\ stream \in Seq(Byte)
  /\ ended \in BOOLEAN
  /\ reader \in {"length", "body", "failed"}
  /\ need \in Nat
  /\ buf \in Seq(Byte) /\ Len(buf) <= need
  /\ got \in Seq(Seq(Byte))

Init ==
  /\ min \in MinMsgs
  /\ sent = <<>>
  /\ unsent = <<>>
  /\ stream = <<>>
  /\ ended = FALSE
  /\ reader = "length"
  /\ need = LenBytes
  /\ buf = <<>>
  /\ got = <<>>
-----------------------------------------------------------------------------
\* A length of more than 32 bits is refused before anything is written.
AnyLength(m) == TRUE
LengthFits(m) == Len(m) < U32

\* The first write_all of write_msg and send.
write_length(m) ==
  /\ ~ended /\ unsent = <<>>
  /\ Len(sent) < MaxSent
  /\ LengthFits(m)
  /\ sent' = Append(sent, m)
  /\ stream' = stream \o to_be_bytes(Len(m))
  /\ unsent' = m
  /\ UNCHANGED <<ended, readerVars>>

\* The second one.
write_body ==
  /\ ~ended /\ unsent # <<>>
  /\ stream' = stream \o unsent
  /\ unsent' = <<>>
  /\ UNCHANGED <<sent, ended, readerVars>>

\* The stream is finished or its writer dropped.
finish ==
  /\ ~ended
  /\ ended' = TRUE
  /\ UNCHANGED <<writerVars, stream, readerVars>>

\* The connection is lost, with what it still carries.
lose ==
  /\ ~ended \/ stream # <<>>
  /\ ended' = TRUE
  /\ stream' = <<>>
  /\ UNCHANGED <<writerVars, readerVars>>

\* read_exact takes what has arrived, up to what it needs.
read_chunk ==
  /\ reader # "failed"
  /\ \E k \in 1..Len(stream) :
       /\ Len(buf) + k <= need
       /\ buf' = buf \o SubSeq(stream, 1, k)
       /\ stream' = SubSeq(stream, k + 1, Len(stream))
  /\ UNCHANGED <<writerVars, ended, min, reader, need, got>>

\* The end of the stream ends a read_exact that is not complete.
read_eof_partial ==
  /\ reader # "failed"
  /\ Len(buf) < need
  /\ ended /\ stream = <<>>
  /\ IF reader = "body" THEN got' = Append(got, buf) ELSE UNCHANGED got
  /\ reader' = "failed"
  /\ UNCHANGED <<writerVars, stream, ended, min, need, buf>>
read_eof ==
  /\ reader # "failed"
  /\ Len(buf) < need
  /\ ended /\ stream = <<>>
  /\ reader' = "failed"
  /\ UNCHANGED <<writerVars, stream, ended, min, need, buf, got>>

UpToMax(n) == n >= min /\ n < MaxMsg
AnySize(n) == n >= min
Acceptable(n) == n >= min /\ n <= MaxMsg

\* The prefix is complete: the body's buffer is allocated.
read_length ==
  LET n == from_be_bytes(buf)
  IN  /\ reader = "length"
      /\ Len(buf) = need
      /\ \/ Acceptable(n) /\ reader' = "body" /\ need' = n /\ buf' = <<>>
         \/ ~Acceptable(n) /\ reader' = "failed" /\ UNCHANGED <<need, buf>>
      /\ UNCHANGED <<writerVars, stream, ended, min, got>>

\* The body is complete; the next call starts with the next prefix.
read_body ==
  /\ reader = "body"
  /\ Len(buf) = need
  /\ got' = Append(got, buf)
  /\ reader' = "length" /\ need' = LenBytes /\ buf' = <<>>
  /\ UNCHANGED <<writerVars, stream, ended, min>>

Read == read_chunk \/ read_eof \/ read_length \/ read_body

Next ==
  \/ \E m \in Messages : write_length(m)
  \/ write_body \/ finish \/ lose
  \/ Read

Spec == Init /\ [][Next]_vars

\* A call once begun goes on while the stream lasts.
FairSpec == Spec /\ WF_vars(write_body) /\ WF_vars(Read)
-----------------------------------------------------------------------------
\* "Bounded by MAX_MSG": whatever length a prefix announces, the reader never sets
\* aside room for more than the limit (read_msg and recv compare before the vec!).
AllocationBounded ==
  need <= MaxMsg \/ (reader # "body" /\ need = LenBytes)

MS == INSTANCE MessageStream WITH failed <- reader = "failed"

\* Chunking, empty messages, dropped writers and lost connections are invisible:
\* the stream delivers whole messages in order, and fails only for a message
\* outside the limits or when it has ended (write_msg and read_msg; send and recv).
StreamSpec == MS!Spec

\* A message within the limits, behind others that are, is received unless the
\* stream ends.
EveryMessageArrives ==
  \A i \in 1..MaxSent :
    (Len(sent) >= i /\ \A j \in 1..i : MS!Fits(sent[j])) ~>
      (Len(got) >= i \/ ended)
=============================================================================
