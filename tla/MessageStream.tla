--------------------------- MODULE MessageStream ----------------------------
(***************************************************************************)
(* What a framed stream promises: messages arrive whole and in the order in   *)
(* which they were sent, and the reader gives up only when the stream has     *)
(* ended or the next message has a length that it does not take.              *)
(***************************************************************************)
EXTENDS Naturals, Sequences

CONSTANTS Messages, MinMsgs, MaxMsg

VARIABLES
  min,    \* the least length that this stream's reader takes
  sent, got, ended, failed

vars == <<min, sent, got, ended, failed>>

Fits(m) == Len(m) \in min..MaxMsg

Due == Len(got) < Len(sent)
NextMessage == sent[Len(got) + 1]

Init ==
  /\ min \in MinMsgs
  /\ sent = <<>> /\ got = <<>> /\ ended = FALSE /\ failed = FALSE

Send(m) ==
  /\ ~ended
  /\ sent' = Append(sent, m)
  /\ UNCHANGED <<min, got, ended, failed>>

Deliver ==
  /\ ~failed
  /\ Due /\ Fits(NextMessage)
  /\ got' = Append(got, NextMessage)
  /\ UNCHANGED <<min, sent, ended, failed>>

End ==
  /\ ~ended
  /\ ended' = TRUE
  /\ UNCHANGED <<min, sent, got, failed>>

Fail ==
  /\ ~failed
  /\ ended \/ (Due /\ ~Fits(NextMessage))
  /\ failed' = TRUE
  /\ UNCHANGED <<min, sent, got, ended>>

Next == Deliver \/ End \/ Fail \/ \E m \in Messages : Send(m)

Spec == Init /\ [][Next]_vars
=============================================================================
