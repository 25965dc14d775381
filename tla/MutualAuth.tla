----------------------------- MODULE MutualAuth -----------------------------
(***************************************************************************)
(* The mutual handshake of mutual.rs.  Every endpoint dials and accepts, and *)
(* keeps one set of mutually authenticated peers, into which its acceptor    *)
(* side and its task both insert and which gates its connections in both     *)
(* directions.                                                               *)
(*                                                                          *)
(* Foreign endpoints are as in OneWayAuth.  The task's loop is in AuthTask;   *)
(* here it contributes the guard of greet, handle_completion and the set     *)
(* that releases a dial.                                                     *)
(***************************************************************************)
EXTENDS Wire

CONSTANT MaxSkew   \* max_skew_secs of each role: the task's cannot be changed

ROLE_INITIATOR == 1
ROLE_ACCEPTOR == 2
Roles == {ROLE_INITIATOR, ROLE_ACCEPTOR}

ASSUME MutualAssumption ==
  /\ DOMAIN MaxSkew = Roles
  /\ MaxSkew[ROLE_INITIATOR] \in Nat
  /\ MaxSkew[ROLE_ACCEPTOR] \in Nat \cup {Unlimited}

VARIABLES
  spawned,     \* endpoints whose task has been spawned, so that local_id is set
  stopped,     \* those of them whose guard has been dropped, and their loop with it
  peerNonce,   \* the nonce that each side has read from its peer
  time,        \* the timestamp in each side's own transcript
  proof        \* history: the peer's signature that each side has verified

taskVars == <<spawned, stopped>>
sideVars == <<peerNonce, time, proof>>
vars == <<now, taskVars, ini, acc, toAcc, toIni, close, sideVars, issued,
          allowed>>
-----------------------------------------------------------------------------
(***************************************************************************)
(* The two sides of a session, transcripts, messages.                        *)
(***************************************************************************)
Sides == Sessions \X Roles

Owner(s, role) == IF role = ROLE_INITIATOR THEN From[s] ELSE To[s]
Other(role) == IF role = ROLE_INITIATOR THEN ROLE_ACCEPTOR ELSE ROLE_INITIATOR

\* Each side draws a nonce of its own in each session.
SharedNonce(s, role) == <<CHOOSE x \in Sessions : TRUE, role>>
Nonce(s, role) == <<s, role>>

mutual_transcript(role, peer_nonce, id, t) ==
  [role |-> role, nonce |-> peer_nonce, id |-> id, time |-> t]

Signatures ==
  [key : Keys, text : [role : Roles, nonce : Sides, id : Endpoints, time : Nat]]

ASSUME SignatureAssumption == None \notin Signatures

MutualHello == [version : Versions, nonce : Sides]
MutualChallenge ==
  [version : Versions, nonce : Sides, key : Keys, sig : Signatures, time : Nat]
MutualResponse == [key : Keys, sig : Signatures, time : Nat]

TypeOK ==
  /\ now \in 0..MaxTime
  /\ spawned \subseteq Ours
  /\ stopped \subseteq spawned
  /\ ini \in [Sessions -> {"idle", "greeted", "signing", "awaiting", "ok",
                           "denied", "failed", "recorded"}]
  /\ acc \in [Sessions -> {"idle", "reading", "signing", "challenged",
                           "verified", "recorded", "refused", "done"}]
  /\ toAcc \in [Sessions -> MutualHello \cup MutualResponse \cup {None}]
  /\ toIni \in [Sessions -> MutualChallenge \cup {None}]
  /\ close \in [Sessions -> Nat \cup {None, Lost}]
  /\ peerNonce \in [Sides -> Sides \cup {None}]
  /\ time \in [Sides -> Nat \cup {None}]
  /\ proof \in [Sides -> Signatures \cup {None}]
  /\ issued \subseteq Signatures
  /\ allowed \in [Endpoints -> SUBSET Endpoints]

Init ==
  /\ WireInit
  /\ spawned = {}
  /\ stopped = {}
  /\ peerNonce = [x \in Sides |-> None]
  /\ time = [x \in Sides |-> None]
  /\ proof = [x \in Sides |-> None]

\* A side's own assertion, over the nonce it has read.
OwnSignature(s, role) ==
  LET e == Owner(s, role)
  IN  Signature(KeyOf[e], mutual_transcript(role, peerNonce[<<s, role>>], e,
                                            time[<<s, role>>]))

\* handle_request: a dial of x to e goes out without a handshake.  Once the loop is
\* gone the hook refuses every dial.
Released(x, e) == x \in spawned \ stopped /\ e \in allowed[x]

\* The peer's endpoint id in the transcript is the one QUIC has authenticated.
ClaimedId(s, role, m) == m.sig.text.id
RemoteId(s, role, m) == Owner(s, Other(role))

\* A side checks its peer's assertion when it reads it: the timestamp against
\* its own clock, the signature against the nonce that it drew itself.
StrictlyFresh(s, role, m) ==
  MaxSkew[role] # Unlimited =>
    AbsDiff(unix_secs(Owner(s, role), now), m.time) < MaxSkew[role]

Fresh(s, role, m) ==
  MaxSkew[role] # Unlimited =>
    AbsDiff(unix_secs(Owner(s, role), now), m.time) <= MaxSkew[role]

Verified(s, role, m) ==
  /\ Fresh(s, role, m)
  /\ verify(Roster[Owner(s, role)], m.key,
            mutual_transcript(Other(role), Nonce(s, role), RemoteId(s, role, m),
                              m.time),
            m.sig)

\* What a side keeps of the assertion it has read.
Keep(s, role, m) == proof' = [proof EXCEPT ![<<s, role>>] = m.sig]
-----------------------------------------------------------------------------
(***************************************************************************)
(* The initiator: handshake() and the task that runs it.                     *)
(***************************************************************************)

\* spawn publishes local_id for the acceptor side and starts the loop.
spawn(e) ==
  /\ e \in Ours \ spawned
  /\ spawned' = spawned \cup {e}
  /\ UNCHANGED <<now, stopped, ini, acc, toAcc, toIni, close, sideVars, issued,
                 allowed>>

\* The guard is dropped, and with it the loop and the results it has not joined.
\* Each handshake of its JoinSet is aborted in its own time; the acceptor side goes on.
drop_guard(e) ==
  /\ e \in spawned \ stopped
  /\ stopped' = stopped \cup {e}
  /\ UNCHANGED <<now, spawned, ini, acc, toAcc, toIni, close, sideVars, issued,
                 allowed>>

\* The loop starts a handshake with a remote that is not in the set and with
\* which it has none under way.
greet(s) ==
  /\ From[s] \in spawned \ stopped
  /\ ini[s] = "idle"
  /\ ~Released(From[s], To[s])
  /\ \A r \in Sessions :
       From[r] = From[s] /\ To[r] = To[s] =>
         ini[r] \in {"idle", "denied", "failed", "recorded"}
  /\ ini' = [ini EXCEPT ![s] = "greeted"]
  /\ toAcc' = Delivered(s, toAcc, [version |-> PROTOCOL_VERSION,
                                   nonce |-> Nonce(s, ROLE_INITIATOR)])
  /\ UNCHANGED <<now, taskVars, acc, toIni, close, sideVars, issued, allowed>>

\* The acceptor is verified before anything is signed for it.
AnyAcceptor(s, m) == TRUE
AcceptorVerified(s, m) == Verified(s, ROLE_INITIATOR, m)

read_challenge(s) ==
  LET m == toIni[s]
  IN  /\ From[s] \in Ours
      /\ ini[s] = "greeted"
      /\ m # None
      /\ m.version = PROTOCOL_VERSION
      /\ AcceptorVerified(s, m)
      /\ toIni' = [toIni EXCEPT ![s] = None]
      /\ ini' = [ini EXCEPT ![s] = "signing"]
      /\ peerNonce' = [peerNonce EXCEPT ![<<s, ROLE_INITIATOR>>] = m.nonce]
      /\ time' = [time EXCEPT ![<<s, ROLE_INITIATOR>>] = unix_secs(From[s], now)]
      /\ Keep(s, ROLE_INITIATOR, m)
      /\ UNCHANGED <<now, taskVars, acc, toAcc, close, issued, allowed>>

\* handshake() returns an error and closes, or drops, its connection.
Fail(s, code) ==
  /\ ini' = [ini EXCEPT ![s] = "failed"]
  /\ CloseWith(s, code)
  /\ UNCHANGED <<now, taskVars, acc, toAcc, toIni, sideVars, issued, allowed>>

refuse_challenge(s) ==
  /\ From[s] \in Ours
  /\ ini[s] = "greeted"
  /\ toIni[s] # None
  /\ \/ toIni[s].version # PROTOCOL_VERSION
     \/ ~AcceptorVerified(s, toIni[s])
  /\ Fail(s, CLOSE_DENIED)

\* Nothing more to read, a challenge that does not decode, or a signer's error.
handshake_fails(s) ==
  /\ From[s] \in Ours
  /\ \/ ini[s] = "greeted" /\ ~Open(s)
     \/ ini[s] = "greeted" /\ toIni[s] # None /\ toIni[s].version # PROTOCOL_VERSION
     \/ ini[s] = "signing"
  /\ Fail(s, DROPPED)

\* The JoinSet of a loop that is gone drops the handshake's future.
abort(s) ==
  /\ From[s] \in stopped
  /\ ini[s] \in {"greeted", "signing", "awaiting"}
  /\ Fail(s, DROPPED)

respond(s) ==
  LET sig == OwnSignature(s, ROLE_INITIATOR)
  IN  /\ From[s] \in Ours
      /\ ini[s] = "signing"
      /\ issued' = issued \cup {sig}
      /\ toAcc' = Delivered(s, toAcc, [key |-> sig.key, sig |-> sig,
                                       time |-> time[<<s, ROLE_INITIATOR>>]])
      /\ ini' = [ini EXCEPT ![s] = "awaiting"]
      /\ UNCHANGED <<now, taskVars, acc, toIni, close, sideVars, allowed>>

read_verdict(s) ==
  /\ From[s] \in Ours
  /\ ini[s] = "awaiting"
  /\ ~Open(s)
  /\ ini' = [ini EXCEPT ![s] = Verdict(close[s])]
  /\ UNCHANGED <<now, taskVars, acc, toAcc, toIni, close, sideVars, issued,
                 allowed>>

\* The loop joins the handshake and records the remote.
completion_ignores_denial(s) ==
  /\ From[s] \notin stopped
  /\ ini[s] \in {"ok", "denied"}
  /\ ini' = [ini EXCEPT ![s] = "recorded"]
  /\ allowed' = [allowed EXCEPT ![From[s]] = @ \cup {To[s]}]
  /\ UNCHANGED <<now, taskVars, acc, toAcc, toIni, close, sideVars, issued>>
completion_forgets(s) ==
  /\ From[s] \notin stopped
  /\ ini[s] = "ok"
  /\ ini' = [ini EXCEPT ![s] = "recorded"]
  /\ UNCHANGED <<now, taskVars, acc, toAcc, toIni, close, sideVars, issued, allowed>>
handle_completion(s) ==
  /\ From[s] \notin stopped
  /\ ini[s] = "ok"
  /\ ini' = [ini EXCEPT ![s] = "recorded"]
  /\ allowed' = [allowed EXCEPT ![From[s]] = @ \cup {To[s]}]
  /\ UNCHANGED <<now, taskVars, acc, toAcc, toIni, close, sideVars, issued>>
-----------------------------------------------------------------------------
(***************************************************************************)
(* The acceptor: MutualAuthProtocol.                                         *)
(***************************************************************************)

\* accept() begins; without local_id the handshake ends at once.
accept(s) ==
  /\ To[s] \in Ours
  /\ acc[s] = "idle"
  /\ From[s] \in Ours => ini[s] # "idle"
  /\ acc' = [acc EXCEPT ![s] = IF To[s] \in spawned THEN "reading" ELSE "refused"]
  /\ UNCHANGED <<now, taskVars, ini, toAcc, toIni, close, sideVars, issued,
                 allowed>>

\* The greeting is read; the timestamp is taken before the signer is asked.
read_hello(s) ==
  /\ acc[s] = "reading"
  /\ toAcc[s] # None
  /\ toAcc[s].version = PROTOCOL_VERSION
  /\ toAcc' = [toAcc EXCEPT ![s] = None]
  /\ acc' = [acc EXCEPT ![s] = "signing"]
  /\ peerNonce' = [peerNonce EXCEPT ![<<s, ROLE_ACCEPTOR>>] = toAcc[s].nonce]
  /\ time' = [time EXCEPT ![<<s, ROLE_ACCEPTOR>>] = unix_secs(To[s], now)]
  /\ UNCHANGED <<now, taskVars, ini, toIni, close, proof, issued, allowed>>

send_challenge(s) ==
  LET sig == OwnSignature(s, ROLE_ACCEPTOR)
  IN  /\ acc[s] = "signing"
      /\ issued' = issued \cup {sig}
      /\ toIni' = Delivered(s, toIni,
                    [version |-> PROTOCOL_VERSION, nonce |-> Nonce(s, ROLE_ACCEPTOR),
                     key |-> sig.key, sig |-> sig, time |-> time[<<s, ROLE_ACCEPTOR>>]])
      /\ acc' = [acc EXCEPT ![s] = "challenged"]
      /\ UNCHANGED <<now, taskVars, ini, toAcc, close, sideVars, allowed>>

read_response(s) ==
  /\ acc[s] = "challenged"
  /\ toAcc[s] # None
  /\ toAcc' = [toAcc EXCEPT ![s] = None]
  /\ \/ /\ Verified(s, ROLE_ACCEPTOR, toAcc[s])
        /\ acc' = [acc EXCEPT ![s] = "verified"]
        /\ Keep(s, ROLE_ACCEPTOR, toAcc[s])
     \/ /\ ~Verified(s, ROLE_ACCEPTOR, toAcc[s])
        /\ acc' = [acc EXCEPT ![s] = "refused"]
        /\ UNCHANGED proof
  /\ UNCHANGED <<now, taskVars, ini, toIni, close, peerNonce, time, issued,
                 allowed>>

\* A greeting that is refused, nothing more to read, or a signer's error.
accept_fails(s) ==
  /\ \/ acc[s] = "reading" /\ toAcc[s] # None /\ toAcc[s].version # PROTOCOL_VERSION
     \/ acc[s] \in {"reading", "challenged"} /\ ~Open(s)
     \/ acc[s] = "signing"
  /\ acc' = [acc EXCEPT ![s] = "refused"]
  /\ UNCHANGED <<now, taskVars, ini, toAcc, toIni, close, sideVars, issued,
                 allowed>>

record(s) ==
  /\ acc[s] = "verified"
  /\ acc' = [acc EXCEPT ![s] = "recorded"]
  /\ allowed' = [allowed EXCEPT ![To[s]] = @ \cup {From[s]}]
  /\ UNCHANGED <<now, taskVars, ini, toAcc, toIni, close, sideVars, issued>>

Finish(s, code) ==
  /\ acc' = [acc EXCEPT ![s] = "done"]
  /\ CloseWith(s, code)
  /\ UNCHANGED <<now, taskVars, ini, toAcc, toIni, sideVars, issued, allowed>>

close_before_record(s) ==
  /\ acc[s] = "verified"
  /\ CloseWith(s, CLOSE_ACCEPTED)
  /\ UNCHANGED <<now, taskVars, ini, acc, toAcc, toIni, sideVars, issued, allowed>>
close_accepted(s) == acc[s] = "recorded" /\ Finish(s, CLOSE_ACCEPTED)

deny_awaits_close(s) == acc[s] = "refused" /\ ~Open(s) /\ Finish(s, DROPPED)
close_denied(s) == acc[s] = "refused" /\ Finish(s, CLOSE_DENIED)

-----------------------------------------------------------------------------
(***************************************************************************)
(* The environment: time, the network, and endpoints that do not run this    *)
(* code.                                                                     *)
(***************************************************************************)
tick ==
  /\ now < MaxTime
  /\ now' = now + 1
  /\ UNCHANGED <<taskVars, ini, acc, toAcc, toIni, close, sideVars, issued, allowed>>

\* The connection, or the notice of its close, is lost; both sides time out.
lose(s) ==
  /\ close[s] # Lost
  /\ close' = [close EXCEPT ![s] = Lost]
  /\ UNCHANGED <<now, taskVars, ini, acc, toAcc, toIni, sideVars, issued, allowed>>

\* The nonces that have left the side that drew them, and those of foreign sides.
Known ==
  {x \in Sides :
     \/ Owner(x[1], x[2]) \notin Ours
     \/ x[2] = ROLE_INITIATOR /\ ini[x[1]] # "idle"
     \/ x[2] = ROLE_ACCEPTOR /\ acc[x[1]] \notin {"idle", "reading", "signing"}}

\* Any signature made so far, or one of a foreign institution for its endpoint.
ForeignSignatures ==
  issued \cup {Signature(KeyOf[e], mutual_transcript(role, n, e, t)) :
                 e \in Endpoints \ Ours, role \in Roles, n \in Known,
                 t \in ForeignTimes}

foreign_hello(s) ==
  /\ From[s] \notin Ours
  /\ acc[s] = "reading" /\ toAcc[s] = None
  /\ \E v \in Versions, n \in Known :
       toAcc' = Delivered(s, toAcc, [version |-> v, nonce |-> n])
  /\ UNCHANGED <<now, taskVars, ini, acc, toIni, close, sideVars, issued, allowed>>

foreign_challenge(s) ==
  /\ To[s] \notin Ours
  /\ ini[s] = "greeted" /\ toIni[s] = None
  /\ \E v \in Versions, n \in Known, sig \in ForeignSignatures, t \in ForeignTimes :
       toIni' = Delivered(s, toIni, [version |-> v, nonce |-> n, key |-> sig.key,
                                     sig |-> sig, time |-> t])
  /\ UNCHANGED <<now, taskVars, ini, acc, toAcc, close, sideVars, issued, allowed>>

foreign_response(s) ==
  /\ From[s] \notin Ours
  /\ acc[s] = "challenged" /\ toAcc[s] = None
  /\ \E sig \in ForeignSignatures, t \in ForeignTimes :
       toAcc' = Delivered(s, toAcc, [key |-> sig.key, sig |-> sig, time |-> t])
  /\ UNCHANGED <<now, taskVars, ini, acc, toIni, close, sideVars, issued, allowed>>

foreign_close(s) ==
  /\ ~({From[s], To[s]} \subseteq Ours)
  /\ Open(s)
  /\ \E code \in CloseCodes : close' = [close EXCEPT ![s] = code]
  /\ UNCHANGED <<now, taskVars, ini, acc, toAcc, toIni, sideVars, issued, allowed>>

Initiator(s) ==
  \/ greet(s) \/ read_challenge(s) \/ refuse_challenge(s) \/ handshake_fails(s)
  \/ respond(s) \/ read_verdict(s) \/ handle_completion(s)

Acceptor(s) ==
  \/ accept(s) \/ read_hello(s) \/ send_challenge(s) \/ read_response(s)
  \/ accept_fails(s) \/ record(s) \/ close_accepted(s) \/ close_denied(s)

Foreign(s) ==
  \/ foreign_hello(s) \/ foreign_challenge(s) \/ foreign_response(s)
  \/ foreign_close(s)

Next ==
  \/ tick
  \/ \E e \in Endpoints : spawn(e) \/ drop_guard(e)
  \/ \E s \in Sessions :
       Initiator(s) \/ abort(s) \/ Acceptor(s) \/ Foreign(s) \/ lose(s)

Spec == Init /\ [][Next]_vars

\* As in OneWayAuth: what has begun on our endpoints goes on.  Nobody need dial.
Fairness ==
  \A s \in Sessions :
    /\ WF_vars((From[s] \in Ours \/ acc[s] # "idle") /\ Acceptor(s))
    /\ WF_vars(ini[s] # "idle" /\ Initiator(s))

FairSpec == Spec /\ Fairness
-----------------------------------------------------------------------------
(***************************************************************************)
(* Properties.                                                               *)
(***************************************************************************)

\* "Close without responding so it never records us": an endpoint of ours is in
\* the set of a peer of ours only if each institution is on the other's roster,
\* and any endpoint is in a set of ours only if its own institution is on that
\* roster (mutual.rs: each side verifies before it answers or records).
TrustIsMutual ==
  \A x \in Ours : \A e \in allowed[x] :
    /\ KeyOf[e] \in Roster[x]
    /\ e \in Ours => KeyOf[x] \in Roster[e]

\* The acceptor is verified before the initiator proves itself: every assertion an
\* endpoint of ours has made as initiator was made in a session whose acceptor had
\* by then proved, over that session's nonce and for its own endpoint id, that its
\* institution is on the roster (mutual.rs handshake).
AnswersOnlyVerified ==
  \A sig \in issued :
    sig.text.role = ROLE_INITIATOR =>
      \E s \in Sessions :
        LET p == proof[<<s, ROLE_INITIATOR>>]
        IN  /\ From[s] = sig.text.id
            /\ peerNonce[<<s, ROLE_INITIATOR>>] = sig.text.nonce
            /\ p # None
            /\ verify(Roster[From[s]], KeyOf[To[s]],
                      mutual_transcript(ROLE_ACCEPTOR, Nonce(s, ROLE_INITIATOR),
                                        To[s], p.text.time),
                      p)

\* "The random nonces still prevent replay": no assertion is accepted by two
\* sides, whether of two sessions or of one, or in two roles.
NoReplay ==
  \A x, y \in Sides : proof[x] # None /\ proof[x] = proof[y] => x = y

\* Once a task has joined its successful handshake, each of the two endpoints
\* admits connections from the other, and releases dials to it for as long as its
\* guard is kept: the acceptor recorded before it closed (mutual.rs accept,
\* handle_completion).
WorksBothWays ==
  \A s \in Sessions :
    /\ From[s] \in Ours /\ To[s] \in Ours
    /\ ini[s] = "recorded"
    => /\ Admitted(To[s], From[s]) /\ Admitted(From[s], To[s])
       /\ From[s] \notin stopped => Released(From[s], To[s])
       /\ To[s] \notin stopped => Released(To[s], From[s])

\* Between endpoints that trust each other, an initiator that has been challenged
\* is denied only if, at some moment since it took its timestamp, the acceptor's
\* clock was further from it than the tolerance: through clock error or delay,
\* never through the handshake that crosses it (mutual.rs handshake, both sides).
DeniedOnlyForDelay ==
  \A s \in Sessions :
    LET stamped == time[<<s, ROLE_INITIATOR>>]
    IN  /\ From[s] \in Ours /\ To[s] \in Ours
        /\ KeyOf[From[s]] \in Roster[To[s]]
        /\ ini[s] = "denied"
        => /\ MaxSkew[ROLE_ACCEPTOR] # Unlimited
           /\ \E t0 \in 0..now : \E t \in t0..now :
                /\ stamped = unix_secs(From[s], t0)
                /\ AbsDiff(unix_secs(To[s], t), stamped) > MaxSkew[ROLE_ACCEPTOR]

\* An initiator for which nothing is left to do: its result has been joined, or no
\* loop is left to join it.
Settled(s) ==
  \/ ini[s] \in {"recorded", "denied", "failed"}
  \/ ini[s] = "ok" /\ From[s] \in stopped

\* Two endpoints that dial each other at the same time do not wait for each other:
\* each handshake ends on both sides, and while the guard is kept its result is
\* joined (mutual.rs accept, handshake, run).
CrossedHandshakesEnd ==
  \A s \in Sessions :
    From[s] \in Ours /\ To[s] \in Ours =>
      (ini[s] = "greeted" ~> Settled(s) /\ acc[s] = "done")

\* "The reverse direction works too (mutual is symmetric)" (tests/e2e.rs): when no
\* handshake is under way, an endpoint of ours admits the dials that another
\* releases to it, unless its own guard was dropped or the notice that it had been
\* accepted was lost (mutual.rs accept inserts before the initiator has heard).
SymmetricUnlessLost ==
  (\A s \in Sessions : /\ ini[s] = "idle" \/ Settled(s)
                       /\ acc[s] \in {"idle", "done"})
  => \A x, e \in Ours :
       Released(x, e) /\ ~Admitted(e, x) =>
         \/ e \in stopped
         \/ \E s \in Sessions : From[s] = e /\ To[s] = x /\ close[s] = Lost

(***************************************************************************)
(* Refinement of Admission, with trust in both directions.                    *)
(***************************************************************************)
Decision(s) ==
  CASE acc[s] \in {"recorded", "done"} /\ proof[<<s, ROLE_ACCEPTOR>>] # None -> "admitted"
    [] acc[s] \in {"refused", "done"} /\ proof[<<s, ROLE_ACCEPTOR>>] = None -> "refused"
    [] OTHER -> "open"

Heard(s) ==
  CASE ini[s] = "ok" -> "admitted"
    [] ini[s] = "recorded" -> "joined"
    [] ini[s] \in {"denied", "failed"} -> "refused"
    [] OTHER -> "waiting"

Trusts(x, e) == x \in Ours => KeyOf[e] \in Roster[x]

Adm == INSTANCE Admission WITH
         Eligible <- {s \in Sessions : /\ To[s] \in Ours
                                       /\ Trusts(To[s], From[s]) /\ Trusts(From[s], To[s])},
         Returnable <- {s \in Sessions : /\ From[s] \in Ours
                                         /\ Trusts(To[s], From[s]) /\ Trusts(From[s], To[s])},
         decision <- [s \in Sessions |-> Decision(s)],
         heard <- [s \in Sessions |-> Heard(s)]

\* The mutual exchange implements Admission: each side admits the other only if
\* both trust each other, and the initiator only after it has heard that the
\* acceptor has (mutual.rs accept, handle_completion).
AdmissionSpec == Adm!Spec
=============================================================================
