------------------------------ MODULE SshAgent ------------------------------
(***************************************************************************)
(* ssh_agent.rs: SshAgentSigner::connect picks a key from the agent's list,   *)
(* sign asks the agent for a signature with it, SshVerifier checks it.  Each  *)
(* call opens a socket of its own, and Framing carries its request and reply  *)
(* whole; the reply is then read with the bounds-checked Reader.              *)
(*                                                                          *)
(* External: the agent.  Its user adds and removes keys at any time.  It      *)
(* answers from the keys it has at that moment, or it is not an ssh-agent and *)
(* answers with any bytes, or it does not answer.                             *)
(***************************************************************************)
EXTENDS Bytes

CONSTANTS
  KeyLists,      \* lists of keys [type, pk] that the agent may hold
  Wants,         \* want_public_key; None asks for the first ed25519 key
  Message,       \* what is to be signed
  Garbage,       \* replies that are not an ssh-agent's
  PkLen, SigLen, \* 32 and 64 in the code
  Usize,         \* usize::MAX + 1: 2^64, or 2^32 where it equals u32's
  None

IDENTITIES_ANSWER == 12
SIGN_RESPONSE == 14
ED25519_KEY_TYPE == <<9>>
FAILURE == <<5>>          \* what the agent answers when it has not the key

ASSUME AgentAssumption ==
  /\ Usize \in Nat /\ Usize >= U32
  /\ PkLen \in Nat /\ SigLen \in Nat
  /\ {IDENTITIES_ANSWER, SIGN_RESPONSE} \subseteq Byte
  /\ Message \in Seq(Byte) /\ Message # <<>>
  /\ Garbage \subseteq Seq(Byte)
  /\ KeyLists \subseteq Seq([type : Seq(Byte), pk : Seq(Byte) \ {<<>>}])
  /\ None \notin Seq(Byte) \cup [blob : Seq(Byte), pk : Seq(Byte)]

VARIABLES
  keys,      \* the agent's keys
  pc,        \* where the application's connect and then sign are
  want,      \* want_public_key of its connect
  buf, pos,  \* the Reader over the reply
  left,      \* iterations of connect's loop still to come
  signer,    \* the SshAgentSigner: the blob and the public key it has stored
  sig,       \* what sign has returned
  listed     \* history: the keys of an ssh-agent's reply, None for any other reply

readerVars == <<buf, pos, left>>
vars == <<keys, pc, want, readerVars, signer, sig, listed>>
-----------------------------------------------------------------------------
(***************************************************************************)
(* Reader.  A read gives its value and the new position, an error, or the     *)
(* panic with which Rust answers a slice that ends before it begins.          *)
(***************************************************************************)
Got(val, p) == [st |-> "ok", val |-> val, pos |-> p]
Failed(st, p) == [st |-> st, val |-> <<>>, pos |-> p]

wrapping_add(p, n) == (p + n) % Usize
checked_add(p, n) == p + n     \* Usize and above stand for None

take_one_beyond(b, p, n) ==
  LET end == checked_add(p, n)
  IN  IF end >= Usize \/ end > Len(b) + 1 THEN Failed("failed", p)
      ELSE Got(SubSeq(Append(b, 0), p + 1, end), end)
take(b, p, n) ==
  LET end == checked_add(p, n)
  IN  CASE end >= Usize \/ end > Len(b) -> Failed("failed", p)
        [] end < p -> Failed("panicked", p)
        [] OTHER -> Got(SubSeq(b, p + 1, end), end)

\* Rust's `?`: the first read that does not succeed ends the sequence.
Then(first, second) == IF first.st = "ok" THEN second ELSE first

u8(b, p) == take(b, p, 1)

u32(b, p) ==
  LET r == take(b, p, LenBytes)
  IN  Then(r, Got(from_be_bytes(r.val), r.pos))

string(b, p) ==
  LET len == u32(b, p)
  IN  Then(len, take(b, len.pos, len.val))

put_string(s) == to_be_bytes(Len(s)) \o s

\* string type || string value, of which the value is wanted.
Typed(b) ==
  LET type == string(b, 0)
  IN  Then(type, IF type.val = ED25519_KEY_TYPE THEN string(b, type.pos)
                 ELSE Failed("failed", type.pos))

parse_any_key(blob) ==
  LET pk == string(blob, string(blob, 0).pos)
  IN  IF pk.st = "ok" THEN pk.val ELSE None
parse_ed25519_public_key(blob) ==
  LET pk == Typed(blob)
  IN  IF pk.st = "ok" /\ Len(pk.val) = PkLen THEN pk.val ELSE None
-----------------------------------------------------------------------------
(***************************************************************************)
(* The agent.                                                                *)
(***************************************************************************)
Blob(key) == put_string(key.type) \o put_string(key.pk)

EncodeIdentity(key) == put_string(Blob(key)) \o put_string(<<>>)

IdentitiesAnswer(list) ==
  <<IDENTITIES_ANSWER>> \o to_be_bytes(Len(list))
    \o FlattenSeq([i \in DOMAIN list |-> EncodeIdentity(list[i])])

\* An ed25519 signature, as long as the code expects.
RawSignature(pk, message) == [i \in 1..SigLen |-> IF i = 1 THEN pk[1] ELSE message[1]]

SignResponse(blob) ==
  LET held == {i \in DOMAIN keys : Blob(keys[i]) = blob}
  IN  IF held = {} THEN FAILURE
      ELSE LET key == keys[CHOOSE i \in held : TRUE]
           IN  <<SIGN_RESPONSE>> \o
               put_string(put_string(key.type) \o put_string(RawSignature(key.pk, Message)))

\* No reply of an ssh-agent is too long for memory, and no count or string in it for
\* its prefix.
ASSUME ReplyAssumption ==
  \A list \in KeyLists :
    /\ Len(list) < U32
    /\ Len(IdentitiesAnswer(list)) < Usize
    /\ \A i \in DOMAIN list :
         /\ LenBytes + Len(list[i].type) + LenBytes + Len(list[i].pk) < U32
         /\ LenBytes + Len(list[i].type) + LenBytes + SigLen < U32

TypeOK ==
  /\ keys \in KeyLists
  /\ pc \in {"idle", "scanning", "connected", "signed", "failed", "panicked"}
  /\ want \in Wants
  /\ buf \in Seq(Byte)
  /\ pos \in 0..Len(buf)
  /\ left \in 0..U32 - 1
  /\ signer = None \/ (signer.blob \in Seq(Byte) /\ signer.pk \in Seq(Byte))
  /\ sig = None \/ sig \in Seq(Byte)
  /\ listed \in KeyLists \cup {None}

Init ==
  /\ keys \in KeyLists
  /\ pc = "idle"
  /\ want \in Wants
  /\ buf = <<>> /\ pos = 0 /\ left = 0
  /\ signer = None
  /\ sig = None
  /\ listed = None

change_keys ==
  /\ keys' \in KeyLists
  /\ UNCHANGED <<pc, want, readerVars, signer, sig, listed>>

\* A reply to a request: an ssh-agent's, from its keys, or any bytes.
recv(reply) ==
  \/ listed' = keys /\ buf' = reply
  \/ listed' = None /\ buf' \in Garbage

\* The socket cannot be reached, or the agent hangs up.
recv_fails ==
  /\ pc \in {"idle", "connected"}
  /\ pc' = "failed"
  /\ UNCHANGED <<keys, want, readerVars, signer, sig, listed>>
-----------------------------------------------------------------------------
\* SshAgentSigner::connect, up to the count of identities.
connect ==
  /\ pc = "idle"
  /\ recv(IdentitiesAnswer(keys))
  /\ LET type == u8(buf', 0)
         count == u32(buf', type.pos)
     IN  \/ /\ type.val = <<IDENTITIES_ANSWER>> /\ count.st = "ok"
            /\ pc' = "scanning" /\ pos' = count.pos /\ left' = count.val
         \/ /\ ~(type.val = <<IDENTITIES_ANSWER>> /\ count.st = "ok")
            /\ pc' = "failed" /\ UNCHANGED <<pos, left>>
  /\ UNCHANGED <<keys, want, signer, sig>>

Wanted(pk) == pk # None /\ (want # None => pk = want)

\* An iteration of its loop: a key blob, a comment, and the end if the key fits.
scan_identity ==
  LET blob == string(buf, pos)
      comment == Then(blob, string(buf, blob.pos))
      pk == parse_ed25519_public_key(blob.val)
  IN  /\ pc = "scanning" /\ left > 0
      /\ pos' = comment.pos
      /\ left' = left - 1
      /\ IF comment.st = "ok" /\ Wanted(pk)
         THEN pc' = "connected" /\ signer' = [blob |-> blob.val, pk |-> pk]
         ELSE /\ pc' = IF comment.st = "ok" THEN pc ELSE comment.st
              /\ UNCHANGED signer
      /\ UNCHANGED <<keys, want, buf, sig, listed>>

no_identity ==
  /\ pc = "scanning" /\ left = 0
  /\ pc' = "failed"
  /\ UNCHANGED <<keys, want, readerVars, signer, sig, listed>>

\* The request for a signature names the key that connect has stored.
AgentsFirstKey == IF keys = <<>> THEN signer.blob ELSE Blob(keys[1])
RequestedKey == signer.blob

sign ==
  /\ pc = "connected"
  /\ recv(SignResponse(RequestedKey))
  /\ LET type == u8(buf', 0)
         blob == string(buf', type.pos)
         raw == Then(blob, Typed(blob.val))
     IN  \/ /\ type.val = <<SIGN_RESPONSE>> /\ raw.st = "ok"
            /\ pc' = "signed" /\ sig' = raw.val
         \/ /\ ~(type.val = <<SIGN_RESPONSE>> /\ raw.st = "ok")
            /\ pc' = IF raw.st = "panicked" THEN "panicked" ELSE "failed"
            /\ UNCHANGED sig
  /\ pos' = 0
  /\ UNCHANGED <<keys, want, left, signer>>

\* SshVerifier::verify, on a roster of public keys.
verify(roster, pk, message, s) ==
  /\ pk \in roster
  /\ Len(pk) = PkLen
  /\ Len(s) = SigLen
  /\ s = RawSignature(pk, message)
-----------------------------------------------------------------------------
Next ==
  \/ change_keys \/ recv_fails
  \/ connect \/ scan_identity \/ no_identity \/ sign

Spec == Init /\ [][Next]_vars

(***************************************************************************)
(* Properties.                                                               *)
(***************************************************************************)

\* What connect looks for: an ed25519 key of the right length, and the wanted one if
\* one is wanted.
Candidate(key) ==
  /\ key.type = ED25519_KEY_TYPE
  /\ Len(key.pk) = PkLen
  /\ want # None => key.pk = want

\* "If want_public_key is given, select that exact ed25519 key; otherwise use the
\* first ed25519 key the agent lists" (SshAgentSigner::connect): the signer publishes,
\* and asks with, the first such key of the reply, keys of other types and lengths
\* before it are skipped, and connect fails only if there is none.
FirstCandidateIsUsed ==
  listed # None =>
    /\ pc = "connected" =>
         \E i \in DOMAIN listed :
           /\ Candidate(listed[i])
           /\ \A j \in 1..i - 1 : ~Candidate(listed[j])
           /\ signer = [blob |-> Blob(listed[i]), pk |-> listed[i].pk]
    /\ pc = "failed" /\ signer = None => \A i \in DOMAIN listed : ~Candidate(listed[i])

\* A reply of any bytes is an error at worst: no read of the Reader starts a slice
\* that ends before it begins, although lengths in the reply reach the largest
\* usize (Reader::take's checked_add).
NeverPanics == pc # "panicked"

\* A signature that an ssh-agent returned is one of the key that the signer
\* publishes, whatever keys came and went since connect, and the verifier of a
\* roster with that key accepts it (SshAgentSigner::sign, SshVerifier::verify).
SignatureVerifies ==
  pc = "signed" /\ listed # None => verify({signer.pk}, signer.pk, Message, sig)
=============================================================================
