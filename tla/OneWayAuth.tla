----------------------------- MODULE OneWayAuth -----------------------------
(***************************************************************************)
(* The one-way institutional handshake: the initiator's handshake()          *)
(* (outgoing.rs), the acceptor's run_handshake() and accept() (incoming.rs)  *)
(* and the hook that admits application connections afterwards.             *)
(*                                                                          *)
(* A foreign endpoint sends any well-formed message it can build from what   *)
(* has been signed and drawn so far, signing only for its own endpoint id,   *)
(* and closes with any code.                                                 *)
(***************************************************************************)
EXTENDS Wire

CONSTANT MaxSkew   \* MaxSkew[b]: b's max_skew_secs

ASSUME SkewAssumption == MaxSkew \in [Endpoints -> Nat \cup {Unlimited}]

VARIABLES
  nonce,     \* the challenge that each session's initiator has read
  srvTime,   \* server_now of each session's acceptor
  cliTime,   \* the timestamp in each session's initiator's transcript
  proof      \* history: the signature that each session's acceptor verified

iniVars == <<ini, nonce, cliTime>>
accVars == <<acc, srvTime, allowed, proof>>
vars == <<now, iniVars, accVars, toAcc, toIni, close, issued>>
-----------------------------------------------------------------------------
(***************************************************************************)
(* Transcripts and messages.                                                 *)
(***************************************************************************)
transcript(n, id, time) == [nonce |-> n, id |-> id, time |-> time]

Transcripts == [nonce : Sessions, id : Endpoints, time : Nat]
Signatures == [key : Keys, text : Transcripts]

ASSUME SignatureAssumption == None \notin Signatures

ClientHello == [version : Versions]
ServerChallenge == [version : Versions, nonce : Sessions]
ClientAuth == [key : Keys, sig : Signatures, time : Nat]

TypeOK ==
  /\ now \in 0..MaxTime
  /\ ini \in [Sessions -> {"idle", "greeted", "signing", "awaiting",
                           "ok", "denied", "failed"}]
  /\ acc \in [Sessions -> {"idle", "challenged", "verified", "recorded",
                           "refused", "done"}]
  /\ toAcc \in [Sessions -> ClientHello \cup ClientAuth \cup {None}]
  /\ toIni \in [Sessions -> ServerChallenge \cup {None}]
  /\ close \in [Sessions -> Nat \cup {None, Lost}]
  /\ nonce \in [Sessions -> Sessions \cup {None}]
  /\ srvTime \in [Sessions -> Nat \cup {None}]
  /\ cliTime \in [Sessions -> Nat \cup {None}]
  /\ issued \subseteq Signatures
  /\ allowed \in [Endpoints -> SUBSET Endpoints]
  /\ proof \in [Sessions -> Signatures \cup {None}]

Init ==
  /\ WireInit
  /\ nonce = [s \in Sessions |-> None]
  /\ srvTime = [s \in Sessions |-> None]
  /\ cliTime = [s \in Sessions |-> None]
  /\ proof = [s \in Sessions |-> None]
-----------------------------------------------------------------------------
(***************************************************************************)
(* The initiator: handshake() in outgoing.rs.                                *)
(***************************************************************************)

\* connect, open_bi and the greeting.
greet(s) ==
  /\ From[s] \in Ours
  /\ ini[s] = "idle"
  /\ ini' = [ini EXCEPT ![s] = "greeted"]
  /\ toAcc' = Delivered(s, toAcc, [version |-> PROTOCOL_VERSION])
  /\ UNCHANGED <<now, nonce, cliTime, accVars, toIni, close, issued>>

\* The challenge is read; the timestamp is taken before the signer is asked.
read_challenge(s) ==
  /\ From[s] \in Ours
  /\ ini[s] = "greeted"
  /\ toIni[s] # None
  /\ toIni[s].version = PROTOCOL_VERSION
  /\ toIni' = [toIni EXCEPT ![s] = None]
  /\ ini' = [ini EXCEPT ![s] = "signing"]
  /\ nonce' = [nonce EXCEPT ![s] = toIni[s].nonce]
  /\ cliTime' = [cliTime EXCEPT ![s] = unix_secs(From[s], now)]
  /\ UNCHANGED <<now, accVars, toAcc, close, issued>>

\* handshake returns with `?` or is dropped: its connection is dropped.
Fail(s) ==
  /\ ini' = [ini EXCEPT ![s] = "failed"]
  /\ CloseWith(s, DROPPED)
  /\ UNCHANGED <<now, nonce, cliTime, accVars, toAcc, toIni, issued>>

challenge_fails(s) ==
  /\ From[s] \in Ours
  /\ ini[s] = "greeted"
  /\ \/ toIni[s] # None /\ toIni[s].version # PROTOCOL_VERSION
     \/ ~Open(s)
  /\ Fail(s)

\* The signer answers, and the assertion is sent.
sign_blocking(s) ==
  LET sig == Signature(KeyOf[From[s]], transcript(nonce[s], From[s], cliTime[s]))
  IN  /\ From[s] \in Ours
      /\ ini[s] = "signing"
      /\ issued' = issued \cup {sig}
      /\ toAcc' = Delivered(s, toAcc,
                    [key |-> KeyOf[From[s]], sig |-> sig, time |-> cliTime[s]])
      /\ ini' = [ini EXCEPT ![s] = "awaiting"]
      /\ UNCHANGED <<now, nonce, cliTime, accVars, toIni, close>>

sign_fails(s) ==
  /\ From[s] \in Ours
  /\ ini[s] = "signing"
  /\ Fail(s)

\* The task's guard is dropped, and the JoinSet with the handshake's future.
abort_keeps_connection(s) ==
  /\ From[s] \in Ours
  /\ ini[s] \in {"greeted", "signing", "awaiting"}
  /\ ini' = [ini EXCEPT ![s] = "failed"]
  /\ UNCHANGED <<now, nonce, cliTime, accVars, toAcc, toIni, close, issued>>
abort(s) ==
  /\ From[s] \in Ours
  /\ ini[s] \in {"greeted", "signing", "awaiting"}
  /\ Fail(s)

\* conn.closed() returns, and its code is the acceptor's verdict.
read_verdict(s) ==
  /\ From[s] \in Ours
  /\ ini[s] = "awaiting"
  /\ ~Open(s)
  /\ ini' = [ini EXCEPT ![s] = Verdict(close[s])]
  /\ UNCHANGED <<now, nonce, cliTime, accVars, toAcc, toIni, close, issued>>
-----------------------------------------------------------------------------
(***************************************************************************)
(* The acceptor: run_handshake() and accept() in incoming.rs.                *)
(***************************************************************************)

\* The nonce of a session is drawn for it alone; the session names it.
SharedNonce(s) == CHOOSE x \in Sessions : TRUE
SessionNonce(s) == s

\* The greeting is read and the challenge sent.
challenge(s) ==
  /\ To[s] \in Ours
  /\ acc[s] = "idle"
  /\ toAcc[s] # None
  /\ toAcc[s].version = PROTOCOL_VERSION
  /\ toAcc' = [toAcc EXCEPT ![s] = None]
  /\ acc' = [acc EXCEPT ![s] = "challenged"]
  /\ srvTime' = [srvTime EXCEPT ![s] = unix_secs(To[s], now)]
  /\ toIni' = Delivered(s, toIni,
                [version |-> PROTOCOL_VERSION, nonce |-> SessionNonce(s)])
  /\ UNCHANGED <<now, iniVars, allowed, proof, close, issued>>

\* The timestamp is compared with the time at which the challenge was made.
ReferenceNow(s) == unix_secs(To[s], now)
ReferenceTime(s) == srvTime[s]

\* The transcript names the endpoint id that QUIC has authenticated.
ClaimedId(s, m) == m.sig.text.id
BoundId(s, m) == From[s]

Fresh(s, m) ==
  MaxSkew[To[s]] # Unlimited =>
    AbsDiff(ReferenceTime(s), m.time) <= MaxSkew[To[s]]

Verified(s, m) ==
  /\ Fresh(s, m)
  /\ verify(Roster[To[s]], m.key, transcript(SessionNonce(s), BoundId(s, m), m.time), m.sig)

read_auth(s) ==
  /\ To[s] \in Ours
  /\ acc[s] = "challenged"
  /\ toAcc[s] # None
  /\ toAcc' = [toAcc EXCEPT ![s] = None]
  /\ \/ /\ Verified(s, toAcc[s])
        /\ acc' = [acc EXCEPT ![s] = "verified"]
        /\ proof' = [proof EXCEPT ![s] = toAcc[s].sig]
     \/ /\ ~Verified(s, toAcc[s])
        /\ acc' = [acc EXCEPT ![s] = "refused"]
        /\ UNCHANGED proof
  /\ UNCHANGED <<now, iniVars, srvTime, allowed, toIni, close, issued>>

\* A greeting of another version or that does not decode, or no more to read.
accept_fails(s) ==
  /\ To[s] \in Ours
  /\ \/ acc[s] = "idle" /\ toAcc[s] # None /\ toAcc[s].version # PROTOCOL_VERSION
     \/ acc[s] \in {"idle", "challenged"} /\ ~Open(s)
  /\ acc' = [acc EXCEPT ![s] = "refused"]
  /\ UNCHANGED <<now, iniVars, srvTime, allowed, proof, toAcc, toIni, close,
                 issued>>

\* accept() records the remote and only then closes, which tells the initiator.
record_overwrites(s) ==
  /\ acc[s] = "verified"
  /\ acc' = [acc EXCEPT ![s] = "recorded"]
  /\ allowed' = [allowed EXCEPT ![To[s]] = {From[s]}]
  /\ UNCHANGED <<now, iniVars, srvTime, proof, toAcc, toIni, close, issued>>
record(s) ==
  /\ acc[s] = "verified"
  /\ acc' = [acc EXCEPT ![s] = "recorded"]
  /\ allowed' = [allowed EXCEPT ![To[s]] = @ \cup {From[s]}]
  /\ UNCHANGED <<now, iniVars, srvTime, proof, toAcc, toIni, close, issued>>

Finish(s, code) ==
  /\ acc' = [acc EXCEPT ![s] = "done"]
  /\ CloseWith(s, code)
  /\ UNCHANGED <<now, iniVars, srvTime, allowed, proof, toAcc, toIni, issued>>

close_before_record(s) ==
  /\ acc[s] = "verified"
  /\ CloseWith(s, CLOSE_ACCEPTED)
  /\ UNCHANGED <<now, iniVars, accVars, toAcc, toIni, issued>>

close_accepted(s) == acc[s] = "recorded" /\ Finish(s, CLOSE_ACCEPTED)

deny_awaits_close(s) == acc[s] = "refused" /\ ~Open(s) /\ Finish(s, DROPPED)
close_denied(s) == acc[s] = "refused" /\ Finish(s, CLOSE_DENIED)
-----------------------------------------------------------------------------
(***************************************************************************)
(* The environment: time, the network, and endpoints that do not run this    *)
(* code.                                                                     *)
(***************************************************************************)
tick ==
  /\ now < MaxTime
  /\ now' = now + 1
  /\ UNCHANGED <<iniVars, accVars, toAcc, toIni, close, issued>>

\* The connection, or the notice of its close, is lost; both sides time out.
lose(s) ==
  /\ close[s] # Lost
  /\ close' = [close EXCEPT ![s] = Lost]
  /\ UNCHANGED <<now, iniVars, accVars, toAcc, toIni, issued>>

\* The nonces that have been sent, and one that a foreign acceptor draws.
Known == {s \in Sessions : srvTime[s] # None \/ To[s] \notin Ours}

\* Any signature made so far, or one of a foreign institution for its endpoint.
ForeignSignatures ==
  issued \cup {Signature(KeyOf[e], transcript(n, e, t)) :
                 e \in Endpoints \ Ours, n \in Known, t \in ForeignTimes}

foreign_hello(s) ==
  /\ From[s] \notin Ours
  /\ acc[s] = "idle" /\ toAcc[s] = None
  /\ \E v \in Versions : toAcc' = Delivered(s, toAcc, [version |-> v])
  /\ UNCHANGED <<now, iniVars, accVars, toIni, close, issued>>

foreign_auth(s) ==
  /\ From[s] \notin Ours
  /\ acc[s] = "challenged" /\ toAcc[s] = None
  /\ \E sig \in ForeignSignatures, t \in ForeignTimes :
       toAcc' = Delivered(s, toAcc, [key |-> sig.key, sig |-> sig, time |-> t])
  /\ UNCHANGED <<now, iniVars, accVars, toIni, close, issued>>

foreign_challenge(s) ==
  /\ To[s] \notin Ours
  /\ ini[s] = "greeted" /\ toIni[s] = None
  /\ \E v \in Versions, n \in Known :
       toIni' = Delivered(s, toIni, [version |-> v, nonce |-> n])
  /\ UNCHANGED <<now, iniVars, accVars, toAcc, close, issued>>

foreign_close(s) ==
  /\ ~({From[s], To[s]} \subseteq Ours)
  /\ Open(s)
  /\ \E code \in CloseCodes : close' = [close EXCEPT ![s] = code]
  /\ UNCHANGED <<now, iniVars, accVars, toAcc, toIni, issued>>

Initiator(s) ==
  \/ greet(s) \/ read_challenge(s) \/ challenge_fails(s)
  \/ sign_blocking(s) \/ sign_fails(s) \/ read_verdict(s)

Acceptor(s) ==
  \/ challenge(s) \/ read_auth(s) \/ accept_fails(s)
  \/ record(s) \/ close_accepted(s) \/ close_denied(s)

Foreign(s) ==
  \/ foreign_hello(s) \/ foreign_auth(s) \/ foreign_challenge(s) \/ foreign_close(s)

Next ==
  \/ tick
  \/ \E s \in Sessions :
       Initiator(s) \/ abort(s) \/ Acceptor(s) \/ Foreign(s) \/ lose(s)

Spec == Init /\ [][Next]_vars

\* The runtime polls every ready future, the signer returns, and both sides of
\* a connection that has ended find out.  Connections need not be made or lost.
Fairness ==
  \A s \in Sessions :
    /\ WF_vars(Acceptor(s))
    /\ WF_vars(ini[s] # "idle" /\ Initiator(s))

FairSpec == Spec /\ Fairness
-----------------------------------------------------------------------------
(***************************************************************************)
(* Properties.                                                               *)
(***************************************************************************)

\* Institution and transport session are bound: the hook of one of our acceptors
\* admits only endpoints whose own institution is on the roster, whoever relayed,
\* reused or mistimed what (incoming.rs run_handshake builds the transcript from
\* connection.remote_id).
MembersOnly ==
  \A b \in Ours, e \in Endpoints : Admitted(b, e) => KeyOf[e] \in Roster[b]

\* "The random nonce still prevents replay": no assertion is accepted in two
\* sessions, with the freshness check or, for an Unlimited acceptor, without it.
NoReplay ==
  \A s, r \in Sessions : proof[s] # None /\ proof[s] = proof[r] => s = r

\* accept() records before it closes: an initiator that has read the accepting
\* verdict of one of our acceptors is admitted by that acceptor's hook, then and
\* ever after.
VerdictIsRecorded ==
  \A s \in Sessions :
    From[s] \in Ours /\ To[s] \in Ours /\ ini[s] = "ok" => Admitted(To[s], From[s])

\* A member is denied only when its clock and the acceptor's differed by more
\* than the tolerance: neither loss, nor a slow signer, nor another peer's
\* traffic makes our acceptor close with CLOSE_DENIED.
DeniedOnlyForSkew ==
  \A s \in Sessions :
    /\ From[s] \in Ours /\ To[s] \in Ours
    /\ KeyOf[From[s]] \in Roster[To[s]]
    /\ ini[s] = "denied"
    => /\ MaxSkew[To[s]] # Unlimited
       /\ AbsDiff(srvTime[s], cliTime[s]) > MaxSkew[To[s]]

\* Between two endpoints of ours a handshake ends on both sides: every path of
\* handshake() and accept() closes or drops the connection.
HandshakeEnds ==
  \A s \in Sessions :
    From[s] \in Ours /\ To[s] \in Ours =>
      (ini[s] = "greeted" ~> /\ ini[s] \in {"ok", "denied", "failed"}
                             /\ acc[s] = "done")

(***************************************************************************)
(* Refinement of Admission.  The acceptor decides by recording or refusing.   *)
(***************************************************************************)
Decision(s) ==
  CASE acc[s] \in {"recorded", "done"} /\ proof[s] # None -> "admitted"
    [] acc[s] \in {"refused", "done"} /\ proof[s] = None -> "refused"
    [] OTHER -> "open"

Heard(s) ==
  CASE ini[s] = "ok" -> "admitted"
    [] ini[s] \in {"denied", "failed"} -> "refused"
    [] OTHER -> "waiting"

Adm == INSTANCE Admission WITH
         Eligible <- {s \in Sessions : To[s] \in Ours /\ KeyOf[From[s]] \in Roster[To[s]]},
         Returnable <- {},
         decision <- [s \in Sessions |-> Decision(s)],
         heard <- [s \in Sessions |-> Heard(s)]

\* The exchange implements Admission: only members are admitted, each session is
\* decided once, what the initiator hears has been recorded, and a later session
\* never undoes an earlier one (incoming.rs accept).
AdmissionSpec == Adm!Spec
=============================================================================
