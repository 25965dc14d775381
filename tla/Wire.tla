-------------------------------- MODULE Wire --------------------------------
(***************************************************************************)
(* What the one-way and the mutual handshake share: the sessions between     *)
(* endpoints, their clocks and connections, the constants of wire.rs,        *)
(* signatures, and the verifier's decision.                                  *)
(*                                                                          *)
(* Each member of Sessions is one connection on an auth ALPN.  An endpoint   *)
(* outside Ours does not run this code.  External and assumed: QUIC          *)
(* authenticates the peer's endpoint id and its streams are reliable while   *)
(* the connection lasts (how messages are framed on them is in Framing),     *)
(* signatures cannot be forged, and a 32-byte random nonce is never drawn    *)
(* twice.                                                                    *)
(***************************************************************************)
EXTENDS Integers

CONSTANTS
  Sessions, Endpoints, Ours,
  From, To,       \* initiator and acceptor of each session
  KeyOf,          \* the institution's verifying key at each endpoint
  Roster,         \* Roster[e]: the keys that endpoint e trusts
  Unlimited,      \* max_skew_secs = None
  ClockError,     \* how far each endpoint's clock is ahead of real time
  MaxTime,        \* bound on real time
  ForeignTimes,   \* timestamps that a foreign peer may assert
  CloseCodes,     \* codes with which a foreign peer may close
  U32,            \* 2^32, scaled down for TLC
  Lost,           \* the end of a connection that timed out or was reset
  None            \* no message, no value; the close code of an open connection

CLOSE_ACCEPTED == 1
CLOSE_DENIED == 403
DROPPED == 0             \* the code quinn sends when a connection is dropped
PROTOCOL_VERSION == 0
Versions == {0, 1}       \* 1 also stands for a message that does not decode

ASSUME WireAssumption ==
  /\ U32 \in Nat /\ CLOSE_DENIED < U32
  /\ None \notin Nat \cup Sessions
  /\ Lost \notin Nat \cup {None}
  /\ Unlimited \notin Nat
  /\ CloseCodes \subseteq Nat
ASSUME SessionAssumption ==
  /\ Ours \subseteq Endpoints
  /\ From \in [Sessions -> Endpoints]
  /\ To \in [Sessions -> Endpoints]
  /\ \A s \in Sessions : From[s] # To[s]
ASSUME ClockAssumption ==
  /\ MaxTime \in Nat
  /\ ClockError \in [Endpoints -> Int]
  /\ ForeignTimes \subseteq Nat

VARIABLES
  now,       \* real time
  ini,       \* where the initiator of each session is
  acc,       \* where the acceptor of each session is
  toAcc,     \* the message on its way to the acceptor
  toIni,     \* the message on its way to the initiator
  close,     \* None, Lost, or the code with which a side closed
  issued,    \* every signature our endpoints have made so far
  allowed    \* the set of remotes that each endpoint admits

\* Before the first connection.
WireInit ==
  /\ now = 0
  /\ ini = [s \in Sessions |-> "idle"]
  /\ acc = [s \in Sessions |-> "idle"]
  /\ toAcc = [s \in Sessions |-> None]
  /\ toIni = [s \in Sessions |-> None]
  /\ close = [s \in Sessions |-> None]
  /\ issued = {}
  /\ allowed = [e \in Endpoints |-> {}]

\* after_handshake: the hook lets in a connection of e to b, all it does being to
\* look e up in the set.
Admitted(b, e) == e \in allowed[b]

\* A clock set before the epoch reads 0.
unix_secs_unclamped(e, t) == t + ClockError[e]
unix_secs(e, t) == IF t + ClockError[e] < 0 THEN 0 ELSE t + ClockError[e]

AbsDiff(x, y) == IF x < y THEN y - x ELSE x - y

Open(s) == close[s] = None

\* Closing a connection that is already closed or lost has no effect.
CloseWith(s, code) ==
  close' = [close EXCEPT ![s] = IF @ = None THEN code ELSE @]

\* Writing to a connection that has ended reaches nobody.
Delivered(s, slot, m) == [slot EXCEPT ![s] = IF Open(s) THEN m ELSE @]

\* conn.closed(): the code is truncated to 32 bits before it is compared.
Verdict(code) ==
  IF code = Lost THEN "failed"
  ELSE CASE code % U32 = CLOSE_ACCEPTED -> "ok"
         [] code % U32 = CLOSE_DENIED -> "denied"
         [] OTHER -> "failed"

Keys == {KeyOf[e] : e \in Endpoints}

Signature(key, text) == [key |-> key, text |-> text]

\* HydeVerifier: the key is on the roster and the signature is one of that key
\* over that transcript.
verify_any_key(roster, key, text, sig) == sig = Signature(key, text)
verify(roster, key, text, sig) ==
  /\ key \in roster
  /\ sig = Signature(key, text)
=============================================================================
