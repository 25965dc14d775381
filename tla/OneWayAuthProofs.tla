-------------------------- MODULE OneWayAuthProofs --------------------------
(***************************************************************************)
(* Proofs about OneWayAuth, for every set of sessions and endpoints, every    *)
(* roster, clock and tolerance, and whatever foreign endpoints do.            *)
(***************************************************************************)
EXTENDS OneWayAuth, TLAPS

(***************************************************************************)
(* The inductive invariant.                                                  *)
(***************************************************************************)

\* Nobody signs for another endpoint, neither we nor a foreign one.
SignersSignForThemselves == \A sig \in issued : sig.key = KeyOf[sig.text.id]

\* Which message is on its way to whom: greetings before the challenge, assertions
\* after it, and in sessions of our acceptors only challenges of that session.
MessagesOK(s) ==
  /\ acc[s] # "idle" => To[s] \in Ours
  /\ acc[s] = "challenged" => srvTime[s] \in Nat
  /\ ini[s] = "signing" => nonce[s] \in Sessions /\ cliTime[s] \in Nat
  /\ To[s] \in Ours =>
       /\ acc[s] = "idle" => toAcc[s] \in ClientHello \cup {None}
       /\ acc[s] = "challenged" /\ toAcc[s] # None =>
            /\ toAcc[s] \in ClientAuth
            /\ toAcc[s].sig.key = KeyOf[toAcc[s].sig.text.id]
       /\ toIni[s] # None =>
            toIni[s] = [version |-> PROTOCOL_VERSION, nonce |-> s]
       /\ ini[s] = "signing" => nonce[s] = s
       /\ toIni[s] # None \/ ini[s] \in {"signing", "awaiting"} => acc[s] # "idle"
  /\ From[s] \notin Ours => ini[s] = "idle"
  /\ From[s] \in Ours /\ ini[s] = "idle" =>
       toAcc[s] = None /\ (acc[s] = "idle" \/ ~Open(s))

\* What an initiator of ours sends to an acceptor of ours.
Assertion(s) ==
  [key |-> KeyOf[From[s]],
   sig |-> Signature(KeyOf[From[s]], transcript(s, From[s], cliTime[s])),
   time |-> cliTime[s]]

Asserted(s) == ini[s] \notin {"idle", "greeted", "signing"}

OwnMessagesOK(s) ==
  From[s] \in Ours /\ To[s] \in Ours /\ toAcc[s] # None =>
    /\ acc[s] = "idle" => toAcc[s] = [version |-> PROTOCOL_VERSION]
    /\ acc[s] = "challenged" => toAcc[s] = Assertion(s) /\ Asserted(s)

\* What an acceptor has verified: an assertion of the session's own initiator, over
\* the session's own nonce, by an institution that it trusts.
ProofOK(s) ==
  /\ proof[s] # None =>
       /\ proof[s].text.nonce = s
       /\ To[s] \in Ours /\ KeyOf[From[s]] \in Roster[To[s]]
  /\ acc[s] \in {"verified", "recorded"} => proof[s] # None
  /\ acc[s] \in {"idle", "challenged", "refused"} => proof[s] = None
  /\ acc[s] \in {"recorded", "done"} /\ proof[s] # None => Admitted(To[s], From[s])

\* The two timestamps of a session are further apart than the acceptor tolerates.
Skewed(s) ==
  /\ Asserted(s) /\ acc[s] # "idle"
  /\ MaxSkew[To[s]] # Unlimited
  /\ AbsDiff(srvTime[s], cliTime[s]) > MaxSkew[To[s]]

\* Between endpoints of ours, what the close code says is true.
VerdictOK(s) ==
  From[s] \in Ours /\ To[s] \in Ours =>
    /\ close[s] \in {None, Lost, DROPPED, CLOSE_ACCEPTED, CLOSE_DENIED}
    /\ close[s] = CLOSE_ACCEPTED \/ ini[s] = "ok" =>
         acc[s] = "done" /\ proof[s] # None
    /\ KeyOf[From[s]] \in Roster[To[s]] =>
         /\ acc[s] = "refused" => ~Open(s) \/ Skewed(s)
         /\ close[s] = CLOSE_DENIED \/ ini[s] = "denied" => Skewed(s)

SessionOK(s) == MessagesOK(s) /\ OwnMessagesOK(s) /\ ProofOK(s) /\ VerdictOK(s)

IInv ==
  /\ TypeOK
  /\ SignersSignForThemselves
  /\ MembersOnly
  /\ \A s \in Sessions : SessionOK(s)
-----------------------------------------------------------------------------
LEMMA ClockType ==
  ASSUME NEW e \in Endpoints, NEW t \in Nat
  PROVE  unix_secs(e, t) \in Nat
  BY ClockAssumption DEF unix_secs

\* A code that one of our endpoints closes with means what it says.
LEMMA VerdictOfCode ==
  ASSUME NEW code \in {Lost, DROPPED, CLOSE_ACCEPTED, CLOSE_DENIED}
  PROVE  /\ Verdict(code) \in {"ok", "denied", "failed"}
         /\ Verdict(code) = "ok" => code = CLOSE_ACCEPTED
         /\ Verdict(code) = "denied" => code = CLOSE_DENIED
<1>1. U32 \in Nat /\ 403 < U32 /\ Lost \notin Nat
  BY WireAssumption DEF CLOSE_DENIED
<1>2. 0 % U32 = 0 /\ 1 % U32 = 1 /\ 403 % U32 = 403
  BY <1>1
<1> QED
  BY <1>1, <1>2 DEF Verdict, DROPPED, CLOSE_ACCEPTED, CLOSE_DENIED

LEMMA VerdictType ==
  ASSUME NEW code
  PROVE  Verdict(code) \in {"ok", "denied", "failed"}
  BY DEF Verdict

\* The constants, as the lemmas below use them.
LEMMA Constants ==
  /\ None \notin Nat /\ Lost # None /\ Lost \notin Nat /\ None \notin Signatures
  /\ Ours \subseteq Endpoints
  /\ \A s \in Sessions : From[s] \in Endpoints /\ To[s] \in Endpoints
  /\ DROPPED = 0 /\ CLOSE_ACCEPTED = 1 /\ CLOSE_DENIED = 403
  /\ \A e \in Endpoints : KeyOf[e] \in Keys
  BY WireAssumption, SessionAssumption, SignatureAssumption
     DEF DROPPED, CLOSE_ACCEPTED, CLOSE_DENIED, Keys

\* What a foreign endpoint can sign or pass on.
LEMMA ForeignSignature ==
  ASSUME IInv, NEW sig \in ForeignSignatures
  PROVE  sig \in Signatures /\ sig.key = KeyOf[sig.text.id]
<1>1. CASE sig \in issued
  BY <1>1 DEF IInv, TypeOK, SignersSignForThemselves
<1>2. CASE sig \notin issued
  <2>1. PICK e \in Endpoints \ Ours, n \in Known, t \in ForeignTimes :
          sig = Signature(KeyOf[e], transcript(n, e, t))
    BY <1>2 DEF ForeignSignatures
  <2>2. n \in Sessions /\ t \in Nat
    BY ClockAssumption DEF Known
  <2> QED
    BY <2>1, <2>2 DEF Signature, transcript, Signatures, Transcripts, Keys
<1> QED
  BY <1>1, <1>2

\* A session that a step does not touch.
Same(r) ==
  /\ ini'[r] = ini[r] /\ acc'[r] = acc[r] /\ close'[r] = close[r]
  /\ toAcc'[r] = toAcc[r] /\ toIni'[r] = toIni[r]
  /\ nonce'[r] = nonce[r] /\ cliTime'[r] = cliTime[r]
  /\ srvTime'[r] = srvTime[r] /\ proof'[r] = proof[r]

LEMMA SameSession ==
  ASSUME NEW r \in Sessions, SessionOK(r), Same(r),
         \A b \in Endpoints : allowed[b] \subseteq allowed'[b]
  PROVE  SessionOK(r)'
<1> USE SessionAssumption DEF Same
<1>1. MessagesOK(r)'
  BY DEF SessionOK, MessagesOK, Open
<1>2. OwnMessagesOK(r)'
  BY DEF SessionOK, OwnMessagesOK, Assertion, Asserted
<1>3. ProofOK(r)'
  BY DEF SessionOK, ProofOK, Admitted
<1>4. VerdictOK(r)'
  BY DEF SessionOK, VerdictOK, Skewed, Asserted, Open
<1> QED
  BY <1>1, <1>2, <1>3, <1>4 DEF SessionOK

\* A step of session s that forgets nobody preserves the invariant if it does so
\* for s.
LEMMA SessionStep ==
  ASSUME IInv, TypeOK', NEW s \in Sessions,
         \A r \in Sessions : r # s => Same(r),
         \A b \in Endpoints : allowed[b] \subseteq allowed'[b],
         SignersSignForThemselves', MembersOnly',
         SessionOK(s)'
  PROVE  IInv'
<1>1. \A r \in Sessions : r # s => SessionOK(r)'
  BY SameSession DEF IInv
<1> QED
  BY <1>1 DEF IInv

LEMMA InitIInv ==
  ASSUME Init
  PROVE  IInv
<1> USE WireAssumption, SessionAssumption, ClockAssumption DEF Init, WireInit
<1>1. TypeOK
  BY DEF TypeOK
<1>2. SignersSignForThemselves /\ MembersOnly
  BY DEF SignersSignForThemselves, MembersOnly, Admitted
<1>3. ASSUME NEW s \in Sessions
      PROVE  SessionOK(s)
  BY DEF SessionOK, MessagesOK, OwnMessagesOK, ProofOK, VerdictOK, Open, DROPPED,
         CLOSE_ACCEPTED, CLOSE_DENIED
<1> QED
  BY <1>1, <1>2, <1>3 DEF IInv
-----------------------------------------------------------------------------
(***************************************************************************)
(* The initiator's actions.                                                  *)
(***************************************************************************)
LEMMA GreetIInv ==
  ASSUME IInv, NEW s \in Sessions, greet(s)
  PROVE  IInv'
<1> USE Constants DEF greet, accVars
<1>1. TypeOK /\ SessionOK(s)
  BY DEF IInv
<1>2. TypeOK'
  BY <1>1 DEF TypeOK, Delivered, ClientHello, Versions, PROTOCOL_VERSION
<1>3. \A r \in Sessions : r # s => Same(r)
  BY <1>1 DEF TypeOK, Same, Delivered
<1>4. SignersSignForThemselves' /\ MembersOnly'
  BY DEF IInv, SignersSignForThemselves, MembersOnly, Admitted
<1>5. /\ ini[s] = "idle" /\ ini'[s] = "greeted" /\ From[s] \in Ours
      /\ toAcc[s] = None /\ (acc[s] = "idle" \/ ~Open(s))
      /\ toAcc'[s] = IF Open(s) THEN [version |-> PROTOCOL_VERSION] ELSE None
      /\ UNCHANGED <<acc, toIni, close, nonce, cliTime, srvTime, proof, allowed>>
  BY <1>1 DEF TypeOK, SessionOK, MessagesOK, Delivered
<1>6. MessagesOK(s)'
  BY <1>1, <1>5 DEF SessionOK, MessagesOK, Open, ClientHello, Versions, PROTOCOL_VERSION
<1>7. OwnMessagesOK(s)' /\ ProofOK(s)'
  BY <1>1, <1>5 DEF SessionOK, OwnMessagesOK, Asserted, ProofOK, Admitted
<1>8. VerdictOK(s)'
  BY <1>1, <1>5 DEF SessionOK, VerdictOK, Skewed, Asserted, Open
<1> QED
  BY <1>2, <1>3, <1>4, <1>6, <1>7, <1>8, SessionStep DEF SessionOK

LEMMA ReadChallengeIInv ==
  ASSUME IInv, NEW s \in Sessions, read_challenge(s)
  PROVE  IInv'
<1> USE Constants DEF read_challenge, accVars
<1>1. TypeOK /\ SessionOK(s)
  BY DEF IInv
<1>2. toIni[s] \in ServerChallenge /\ unix_secs(From[s], now) \in Nat
  BY <1>1, ClockType DEF TypeOK
<1>3. TypeOK'
  BY <1>1, <1>2 DEF TypeOK, ServerChallenge
<1>4. \A r \in Sessions : r # s => Same(r)
  BY <1>1 DEF TypeOK, Same
<1>5. SignersSignForThemselves' /\ MembersOnly'
  BY DEF IInv, SignersSignForThemselves, MembersOnly, Admitted
<1>6. /\ ini[s] = "greeted" /\ ini'[s] = "signing" /\ From[s] \in Ours
      /\ toIni[s] # None /\ toIni'[s] = None
      /\ nonce'[s] = toIni[s].nonce /\ nonce'[s] \in Sessions /\ cliTime'[s] \in Nat
      /\ UNCHANGED <<acc, toAcc, close, srvTime, proof, allowed>>
  BY <1>1, <1>2 DEF TypeOK, ServerChallenge
<1>7. MessagesOK(s)'
  BY <1>1, <1>6 DEF SessionOK, MessagesOK, Open
<1>8. OwnMessagesOK(s)' /\ ProofOK(s)'
  BY <1>1, <1>6 DEF SessionOK, OwnMessagesOK, Asserted, ProofOK, Admitted
<1>9. VerdictOK(s)'
  BY <1>1, <1>6 DEF SessionOK, VerdictOK, Skewed, Asserted, Open
<1> QED
  BY <1>3, <1>4, <1>5, <1>7, <1>8, <1>9, SessionStep DEF SessionOK

\* Errors before the assertion is sent, and the drop of the handshake.
LEMMA FailIInv ==
  ASSUME IInv, NEW s \in Sessions, From[s] \in Ours,
         ini[s] \in {"greeted", "signing", "awaiting"}, Fail(s)
  PROVE  IInv'
<1> USE Constants DEF Fail, accVars
<1>1. TypeOK /\ SessionOK(s)
  BY DEF IInv
<1>2. TypeOK'
  BY <1>1 DEF TypeOK, CloseWith
<1>3. \A r \in Sessions : r # s => Same(r)
  BY <1>1 DEF TypeOK, Same, CloseWith
<1>4. SignersSignForThemselves' /\ MembersOnly'
  BY DEF IInv, SignersSignForThemselves, MembersOnly, Admitted
<1>5. /\ ini'[s] = "failed"
      /\ close'[s] = IF close[s] = None THEN DROPPED ELSE close[s]
      /\ UNCHANGED <<acc, toAcc, toIni, nonce, cliTime, srvTime, proof, allowed>>
  BY <1>1 DEF TypeOK, CloseWith
<1>6. MessagesOK(s)'
  BY <1>1, <1>5 DEF SessionOK, MessagesOK, Open
<1>7. OwnMessagesOK(s)' /\ ProofOK(s)'
  BY <1>1, <1>5 DEF SessionOK, OwnMessagesOK, Assertion, Asserted, ProofOK, Admitted
<1>8. VerdictOK(s)'
  BY <1>1, <1>5 DEF SessionOK, VerdictOK, Skewed, Asserted, Open
<1> QED
  BY <1>2, <1>3, <1>4, <1>6, <1>7, <1>8, SessionStep DEF SessionOK

LEMMA SignIInv ==
  ASSUME IInv, NEW s \in Sessions, sign_blocking(s)
  PROVE  IInv'
<1> USE Constants DEF sign_blocking, accVars
<1> DEFINE sig == Signature(KeyOf[From[s]], transcript(nonce[s], From[s], cliTime[s]))
           m == [key |-> KeyOf[From[s]], sig |-> sig, time |-> cliTime[s]]
<1>1. TypeOK /\ SessionOK(s)
  BY DEF IInv
<1>2. sig \in Signatures /\ sig.key = KeyOf[sig.text.id] /\ m \in ClientAuth
  BY <1>1 DEF SessionOK, MessagesOK, Signature, transcript, Signatures, Transcripts,
              ClientAuth
<1>3. /\ ini[s] = "signing" /\ ini' = [ini EXCEPT ![s] = "awaiting"]
      /\ From[s] \in Ours
      /\ toAcc' = [toAcc EXCEPT ![s] = IF Open(s) THEN m ELSE @]
      /\ issued' = issued \cup {sig}
      /\ UNCHANGED <<now, acc, toIni, close, nonce, cliTime, srvTime, proof, allowed>>
  BY DEF Delivered
<1> HIDE DEF sig, m
<1>4. TypeOK'
  BY <1>1, <1>2, <1>3 DEF TypeOK
<1>5. \A r \in Sessions : r # s => Same(r)
  BY <1>1, <1>3 DEF TypeOK, Same
<1>6. SignersSignForThemselves' /\ MembersOnly'
  BY <1>2, <1>3 DEF IInv, SignersSignForThemselves, MembersOnly, Admitted
<1>7. /\ ini'[s] = "awaiting"
      /\ toAcc'[s] = IF Open(s) THEN m ELSE toAcc[s]
  BY <1>1, <1>3 DEF TypeOK
<1>8. m.sig = sig
  BY DEF m
<1>9. MessagesOK(s)'
  BY <1>1, <1>2, <1>3, <1>7, <1>8 DEF SessionOK, MessagesOK, Open
<1>10. OwnMessagesOK(s)'
  <2>1. To[s] \in Ours => m = Assertion(s)' /\ acc[s] # "idle"
    BY <1>1, <1>3 DEF m, sig, Assertion, SessionOK, MessagesOK
  <2>2. To[s] \in Ours /\ acc[s] = "challenged" => toAcc[s] = None
    BY <1>1, <1>3 DEF SessionOK, OwnMessagesOK, Asserted
  <2> QED
    BY <1>3, <1>7, <2>1, <2>2 DEF OwnMessagesOK, Asserted
<1>11. ProofOK(s)' /\ VerdictOK(s)'
  BY <1>1, <1>3, <1>7 DEF SessionOK, ProofOK, Admitted, VerdictOK, Skewed, Asserted, Open
<1> QED
  BY <1>4, <1>5, <1>6, <1>9, <1>10, <1>11, SessionStep DEF SessionOK

LEMMA ReadVerdictIInv ==
  ASSUME IInv, NEW s \in Sessions, read_verdict(s)
  PROVE  IInv'
<1> USE Constants DEF read_verdict, accVars
<1>1. TypeOK /\ SessionOK(s)
  BY DEF IInv
<1>2. Verdict(close[s]) \in {"ok", "denied", "failed"}
  BY VerdictType
<1>3. TypeOK'
  BY <1>1, <1>2 DEF TypeOK
<1>4. \A r \in Sessions : r # s => Same(r)
  BY <1>1 DEF TypeOK, Same
<1>5. SignersSignForThemselves' /\ MembersOnly'
  BY DEF IInv, SignersSignForThemselves, MembersOnly, Admitted
<1>6. /\ ini[s] = "awaiting" /\ ini'[s] = Verdict(close[s]) /\ From[s] \in Ours
      /\ UNCHANGED <<acc, toAcc, toIni, close, nonce, cliTime, srvTime, proof, allowed>>
  BY <1>1 DEF TypeOK
<1>7. MessagesOK(s)' /\ ProofOK(s)'
  BY <1>1, <1>2, <1>6 DEF SessionOK, MessagesOK, ProofOK, Admitted, Open
<1>8. OwnMessagesOK(s)'
  BY <1>1, <1>2, <1>6 DEF SessionOK, OwnMessagesOK, Assertion, Asserted
<1>9. VerdictOK(s)'
  <2>1. From[s] \in Ours /\ To[s] \in Ours =>
          /\ ini'[s] = "ok" => close[s] = CLOSE_ACCEPTED
          /\ ini'[s] = "denied" => close[s] = CLOSE_DENIED
    BY <1>1, <1>6, VerdictOfCode DEF SessionOK, VerdictOK, Open
  <2> QED
    BY <1>1, <1>2, <1>6, <2>1 DEF SessionOK, VerdictOK, Skewed, Asserted, Open
<1> QED
  BY <1>3, <1>4, <1>5, <1>7, <1>8, <1>9, SessionStep DEF SessionOK
-----------------------------------------------------------------------------
(***************************************************************************)
(* The acceptor's actions.                                                   *)
(***************************************************************************)
LEMMA ChallengeIInv ==
  ASSUME IInv, NEW s \in Sessions, challenge(s)
  PROVE  IInv'
<1> USE Constants DEF challenge, iniVars
<1>1. TypeOK /\ SessionOK(s)
  BY DEF IInv
<1>2. /\ unix_secs(To[s], now) \in Nat
      /\ [version |-> PROTOCOL_VERSION, nonce |-> s] \in ServerChallenge
  BY <1>1, ClockType DEF TypeOK, ServerChallenge, Versions, PROTOCOL_VERSION
<1>3. /\ toIni' = [toIni EXCEPT ![s] =
                     IF Open(s) THEN [version |-> PROTOCOL_VERSION, nonce |-> s] ELSE @]
      /\ UNCHANGED <<now, ini, close, nonce, cliTime, proof, allowed, issued>>
  BY DEF Delivered, SessionNonce
<1>4. TypeOK'
  BY <1>1, <1>2, <1>3 DEF TypeOK
<1>5. \A r \in Sessions : r # s => Same(r)
  BY <1>1, <1>3 DEF TypeOK, Same
<1>6. SignersSignForThemselves' /\ MembersOnly'
  BY DEF IInv, SignersSignForThemselves, MembersOnly, Admitted
<1>7. /\ acc[s] = "idle" /\ acc'[s] = "challenged" /\ To[s] \in Ours
      /\ toAcc[s] # None /\ toAcc'[s] = None /\ srvTime'[s] \in Nat
      /\ toIni'[s] = IF Open(s) THEN [version |-> PROTOCOL_VERSION, nonce |-> s]
                     ELSE toIni[s]
  BY <1>1, <1>2, <1>3 DEF TypeOK
<1>8. MessagesOK(s)'
  BY <1>1, <1>3, <1>7 DEF SessionOK, MessagesOK, Open
<1>9. OwnMessagesOK(s)' /\ ProofOK(s)'
  BY <1>1, <1>3, <1>7 DEF SessionOK, OwnMessagesOK, ProofOK, Admitted
<1>10. VerdictOK(s)'
  BY <1>1, <1>3, <1>7 DEF SessionOK, VerdictOK, Skewed, Asserted, Open
<1> QED
  BY <1>4, <1>5, <1>6, <1>8, <1>9, <1>10, SessionStep DEF SessionOK

\* What Verified establishes: the key is that of the initiator that QUIC has
\* authenticated, and it is on the roster.
LEMMA VerifiedMember ==
  ASSUME NEW s \in Sessions, NEW m \in ClientAuth,
         m.sig.key = KeyOf[m.sig.text.id], Verified(s, m)
  PROVE  m.sig.text.nonce = s /\ KeyOf[From[s]] \in Roster[To[s]]
<1>1. /\ m.key \in Roster[To[s]]
      /\ m.sig = Signature(m.key, transcript(s, From[s], m.time))
  BY DEF Verified, verify, SessionNonce, BoundId
<1>2. m.sig.key = m.key /\ m.sig.text.id = From[s] /\ m.sig.text.nonce = s
  BY <1>1 DEF Signature, transcript
<1> QED
  BY <1>1, <1>2

\* An assertion between endpoints of ours that is refused, is refused for skew.
LEMMA RefusedAssertion ==
  ASSUME NEW s \in Sessions, KeyOf[From[s]] \in Roster[To[s]],
         ~Verified(s, Assertion(s)), srvTime[s] \in Nat, cliTime[s] \in Nat
  PROVE  /\ MaxSkew[To[s]] # Unlimited
         /\ AbsDiff(srvTime[s], cliTime[s]) > MaxSkew[To[s]]
<1>1. /\ Assertion(s).time = cliTime[s] /\ Assertion(s).key = KeyOf[From[s]]
      /\ Assertion(s).sig = Signature(KeyOf[From[s]], transcript(s, From[s], cliTime[s]))
  BY DEF Assertion
<1>2. ~Fresh(s, Assertion(s))
  BY <1>1 DEF Verified, verify, SessionNonce, BoundId
<1>3. /\ MaxSkew[To[s]] # Unlimited
      /\ ~(AbsDiff(srvTime[s], cliTime[s]) <= MaxSkew[To[s]])
  BY <1>1, <1>2 DEF Fresh, ReferenceTime
<1>4. MaxSkew[To[s]] \in Nat /\ AbsDiff(srvTime[s], cliTime[s]) \in Int
  BY <1>3, SkewAssumption, Constants DEF AbsDiff
<1> QED
  BY <1>3, <1>4

LEMMA ReadAuthIInv ==
  ASSUME IInv, NEW s \in Sessions, read_auth(s)
  PROVE  IInv'
<1> USE Constants DEF read_auth, iniVars
<1>1. TypeOK /\ SessionOK(s)
  BY DEF IInv
<1>2. /\ acc[s] = "challenged" /\ To[s] \in Ours /\ toAcc[s] \in ClientAuth
      /\ toAcc[s].sig.key = KeyOf[toAcc[s].sig.text.id]
      /\ toAcc[s].sig \in Signatures /\ toAcc[s].time \in Nat
      /\ srvTime[s] \in Nat /\ proof[s] = None
  BY <1>1 DEF SessionOK, MessagesOK, ProofOK, ClientAuth
<1>3. TypeOK'
  BY <1>1, <1>2 DEF TypeOK
<1>4. \A r \in Sessions : r # s => Same(r)
  BY <1>1 DEF TypeOK, Same
<1>5. SignersSignForThemselves' /\ MembersOnly'
  BY DEF IInv, SignersSignForThemselves, MembersOnly, Admitted
<1>6. /\ acc'[s] \in {"verified", "refused"} /\ toAcc'[s] = None
      /\ acc'[s] = "verified" => Verified(s, toAcc[s]) /\ proof'[s] = toAcc[s].sig
      /\ acc'[s] = "refused" => ~Verified(s, toAcc[s]) /\ proof'[s] = None
      /\ UNCHANGED <<now, ini, toIni, close, nonce, cliTime, srvTime, allowed>>
  BY <1>1, <1>2 DEF TypeOK
<1>7. MessagesOK(s)' /\ OwnMessagesOK(s)'
  BY <1>1, <1>2, <1>6 DEF SessionOK, MessagesOK, OwnMessagesOK, Open
<1>8. ProofOK(s)'
  <2>1. acc'[s] = "verified" =>
          proof'[s].text.nonce = s /\ KeyOf[From[s]] \in Roster[To[s]]
    BY <1>2, <1>6, VerifiedMember
  <2> QED
    BY <1>2, <1>6, <2>1 DEF ProofOK
<1>9. VerdictOK(s)'
  <2>1. From[s] \in Ours => toAcc[s] = Assertion(s) /\ Asserted(s)
    BY <1>1, <1>2 DEF SessionOK, OwnMessagesOK
  <2>2. From[s] \in Ours => cliTime[s] \in Nat
    BY <1>2, <2>1 DEF Assertion
  <2>3. From[s] \in Ours /\ KeyOf[From[s]] \in Roster[To[s]] /\ acc'[s] = "refused"
          => Skewed(s)'
    BY <1>2, <1>6, <2>1, <2>2, RefusedAssertion DEF Skewed, Asserted
  <2>4. close[s] = CLOSE_ACCEPTED \/ ini[s] = "ok" => From[s] \notin Ours
    BY <1>1, <1>2 DEF SessionOK, VerdictOK
  <2>5. Skewed(s) => Skewed(s)'
    BY <1>6 DEF Skewed, Asserted
  <2> QED
    BY <1>1, <1>2, <1>6, <2>3, <2>4, <2>5 DEF SessionOK, VerdictOK, Open
<1> QED
  BY <1>3, <1>4, <1>5, <1>7, <1>8, <1>9, SessionStep DEF SessionOK

LEMMA AcceptFailsIInv ==
  ASSUME IInv, NEW s \in Sessions, accept_fails(s)
  PROVE  IInv'
<1> USE Constants DEF accept_fails, iniVars
<1>1. TypeOK /\ SessionOK(s)
  BY DEF IInv
<1>2. TypeOK'
  BY <1>1 DEF TypeOK
<1>3. \A r \in Sessions : r # s => Same(r)
  BY <1>1 DEF TypeOK, Same
<1>4. SignersSignForThemselves' /\ MembersOnly'
  BY DEF IInv, SignersSignForThemselves, MembersOnly, Admitted
<1>5. /\ acc[s] \in {"idle", "challenged"} /\ acc'[s] = "refused" /\ To[s] \in Ours
      /\ UNCHANGED <<ini, toAcc, toIni, close, nonce, cliTime, srvTime, proof, allowed>>
  BY <1>1 DEF TypeOK
<1>6. From[s] \in Ours => ~Open(s)
  <2>1. From[s] \in Ours /\ acc[s] = "idle" /\ toAcc[s] # None =>
          toAcc[s].version = PROTOCOL_VERSION
    BY <1>1, <1>5 DEF SessionOK, OwnMessagesOK
  <2> QED
    BY <2>1
<1>7. MessagesOK(s)' /\ OwnMessagesOK(s)' /\ ProofOK(s)'
  BY <1>1, <1>5, <1>6 DEF SessionOK, MessagesOK, OwnMessagesOK, ProofOK, Admitted, Open
<1>8. VerdictOK(s)'
  BY <1>1, <1>5, <1>6 DEF SessionOK, VerdictOK, Skewed, Asserted, Open
<1> QED
  BY <1>2, <1>3, <1>4, <1>7, <1>8, SessionStep DEF SessionOK

LEMMA RecordIInv ==
  ASSUME IInv, NEW s \in Sessions, record(s)
  PROVE  IInv'
<1> USE Constants DEF record, iniVars
<1>1. TypeOK /\ SessionOK(s)
  BY DEF IInv
<1>2. TypeOK'
  BY <1>1 DEF TypeOK
<1>3. \A r \in Sessions : r # s => Same(r)
  BY <1>1 DEF TypeOK, Same
<1>4. /\ acc[s] = "verified" /\ acc'[s] = "recorded"
      /\ \A b \in Endpoints :
           allowed'[b] = IF b = To[s] THEN allowed[b] \cup {From[s]} ELSE allowed[b]
      /\ UNCHANGED <<ini, toAcc, toIni, close, nonce, cliTime, srvTime, proof>>
  BY <1>1 DEF TypeOK
<1>5. proof[s] # None /\ KeyOf[From[s]] \in Roster[To[s]]
  BY <1>1, <1>4 DEF SessionOK, ProofOK
<1>6. SignersSignForThemselves' /\ MembersOnly'
  BY <1>4, <1>5 DEF IInv, SignersSignForThemselves, MembersOnly, Admitted
<1>7. MessagesOK(s)' /\ OwnMessagesOK(s)'
  BY <1>1, <1>4 DEF SessionOK, MessagesOK, OwnMessagesOK, Open
<1>8. ProofOK(s)'
  BY <1>1, <1>4 DEF SessionOK, ProofOK, Admitted
<1>9. VerdictOK(s)'
  BY <1>1, <1>4 DEF SessionOK, VerdictOK, Skewed, Asserted, Open
<1> QED
  BY <1>2, <1>3, <1>4, <1>6, <1>7, <1>8, <1>9, SessionStep DEF SessionOK

LEMMA FinishIInv ==
  ASSUME IInv, NEW s \in Sessions, close_accepted(s) \/ close_denied(s)
  PROVE  IInv'
<1> USE Constants DEF iniVars
<1> DEFINE code == IF acc[s] = "recorded" THEN CLOSE_ACCEPTED ELSE CLOSE_DENIED
<1>1. TypeOK /\ SessionOK(s)
  BY DEF IInv
<1>2. acc[s] \in {"recorded", "refused"} /\ Finish(s, code)
  BY DEF close_accepted, close_denied
<1>3. /\ acc' = [acc EXCEPT ![s] = "done"]
      /\ close' = [close EXCEPT ![s] = IF @ = None THEN code ELSE @]
      /\ UNCHANGED <<now, ini, toAcc, toIni, nonce, cliTime, srvTime, proof, allowed,
                     issued>>
  BY <1>2 DEF Finish, CloseWith
<1>4. TypeOK'
  BY <1>1, <1>3 DEF TypeOK
<1>5. \A r \in Sessions : r # s => Same(r)
  BY <1>1, <1>3 DEF TypeOK, Same
<1>6. SignersSignForThemselves' /\ MembersOnly'
  BY <1>3 DEF IInv, SignersSignForThemselves, MembersOnly, Admitted
<1>7. acc'[s] = "done" /\ close'[s] = IF Open(s) THEN code ELSE close[s]
  BY <1>1, <1>3 DEF TypeOK, Open
<1>8. MessagesOK(s)' /\ OwnMessagesOK(s)'
  BY <1>1, <1>2, <1>3, <1>7 DEF SessionOK, MessagesOK, OwnMessagesOK, Open
<1>9. ProofOK(s)'
  BY <1>1, <1>2, <1>3, <1>7 DEF SessionOK, ProofOK, Admitted
<1>10. VerdictOK(s)'
  BY <1>1, <1>2, <1>3, <1>7 DEF SessionOK, VerdictOK, ProofOK, Skewed, Asserted, Open
<1> QED
  BY <1>3, <1>4, <1>5, <1>6, <1>8, <1>9, <1>10, SessionStep DEF SessionOK
-----------------------------------------------------------------------------
(***************************************************************************)
(* Time, the network, and foreign endpoints.                                 *)
(***************************************************************************)
LEMMA TickIInv ==
  ASSUME IInv, tick
  PROVE  IInv'
<1> USE DEF tick, iniVars, accVars
<1>1. TypeOK'
  BY ClockAssumption DEF IInv, TypeOK
<1>2. SignersSignForThemselves' /\ MembersOnly'
  BY DEF IInv, SignersSignForThemselves, MembersOnly, Admitted
<1>3. \A r \in Sessions : SessionOK(r)'
  BY SameSession DEF IInv, Same
<1> QED
  BY <1>1, <1>2, <1>3 DEF IInv

\* Nothing that the network does to a connection is taken for a verdict.
LEMMA LoseIInv ==
  ASSUME IInv, NEW s \in Sessions, lose(s)
  PROVE  IInv'
<1> USE Constants DEF lose, iniVars, accVars
<1>1. TypeOK /\ SessionOK(s)
  BY DEF IInv
<1>2. TypeOK'
  BY <1>1 DEF TypeOK
<1>3. \A r \in Sessions : r # s => Same(r)
  BY <1>1 DEF TypeOK, Same
<1>4. SignersSignForThemselves' /\ MembersOnly'
  BY DEF IInv, SignersSignForThemselves, MembersOnly, Admitted
<1>5. /\ close'[s] = Lost
      /\ UNCHANGED <<ini, acc, toAcc, toIni, nonce, cliTime, srvTime, proof, allowed>>
  BY <1>1 DEF TypeOK
<1>6. MessagesOK(s)' /\ ProofOK(s)'
  BY <1>1, <1>5 DEF SessionOK, MessagesOK, ProofOK, Admitted, Open
<1>7. OwnMessagesOK(s)'
  BY <1>1, <1>5 DEF SessionOK, OwnMessagesOK, Assertion, Asserted
<1>8. VerdictOK(s)'
  BY <1>1, <1>5 DEF SessionOK, VerdictOK, Skewed, Asserted, Open
<1> QED
  BY <1>2, <1>3, <1>4, <1>5, <1>6, <1>7, <1>8, SessionStep DEF SessionOK

\* A foreign initiator: what it sends is a greeting, or signed for its signer.
LEMMA ForeignInitiatorIInv ==
  ASSUME IInv, NEW s \in Sessions, foreign_hello(s) \/ foreign_auth(s)
  PROVE  IInv'
<1> USE Constants DEF iniVars, accVars
<1>1. TypeOK /\ SessionOK(s)
  BY DEF IInv
<1>2. PICK m : /\ toAcc' = Delivered(s, toAcc, m)
               /\ \/ m \in ClientHello /\ acc[s] = "idle"
                  \/ /\ m \in ClientAuth /\ acc[s] = "challenged"
                     /\ m.sig.key = KeyOf[m.sig.text.id]
  <2>1. CASE foreign_hello(s)
    <3>1. PICK v \in Versions : toAcc' = Delivered(s, toAcc, [version |-> v])
      BY <2>1 DEF foreign_hello
    <3>2. [version |-> v] \in ClientHello /\ acc[s] = "idle"
      BY <2>1 DEF foreign_hello, ClientHello
    <3> QED
      BY <3>1, <3>2
  <2>2. CASE foreign_auth(s)
    <3>1. PICK sig \in ForeignSignatures, t \in ForeignTimes :
            toAcc' = Delivered(s, toAcc, [key |-> sig.key, sig |-> sig, time |-> t])
      BY <2>2 DEF foreign_auth
    <3> DEFINE a == [key |-> sig.key, sig |-> sig, time |-> t]
    <3>2. sig \in Signatures /\ sig.key = KeyOf[sig.text.id] /\ t \in Nat
      BY ForeignSignature, ClockAssumption
    <3>3. a \in ClientAuth /\ a.sig = sig
      BY <3>2 DEF ClientAuth, Signatures
    <3>4. acc[s] = "challenged" /\ a.sig.key = KeyOf[a.sig.text.id]
      BY <2>2, <3>2, <3>3 DEF foreign_auth
    <3> HIDE DEF a
    <3> QED
      BY <3>1, <3>3, <3>4 DEF a
  <2> QED
    BY <2>1, <2>2
<1>3. /\ From[s] \notin Ours
      /\ UNCHANGED <<now, ini, acc, toIni, close, nonce, cliTime, srvTime, proof,
                     allowed, issued>>
  BY DEF foreign_hello, foreign_auth
<1>4. TypeOK'
  BY <1>1, <1>2, <1>3 DEF TypeOK, Delivered
<1>5. \A r \in Sessions : r # s => Same(r)
  BY <1>1, <1>2, <1>3 DEF TypeOK, Same, Delivered
<1>6. SignersSignForThemselves' /\ MembersOnly'
  BY <1>3 DEF IInv, SignersSignForThemselves, MembersOnly, Admitted
<1>7. toAcc'[s] = IF Open(s) THEN m ELSE toAcc[s]
  BY <1>1, <1>2 DEF TypeOK, Delivered
<1>8. MessagesOK(s)'
  BY <1>1, <1>2, <1>3, <1>7 DEF SessionOK, MessagesOK, Open
<1>9. OwnMessagesOK(s)' /\ ProofOK(s)' /\ VerdictOK(s)'
  BY <1>1, <1>3 DEF SessionOK, OwnMessagesOK, ProofOK, VerdictOK, Admitted
<1> QED
  BY <1>3, <1>4, <1>5, <1>6, <1>8, <1>9, SessionStep DEF SessionOK

\* A foreign acceptor.
LEMMA ForeignChallengeIInv ==
  ASSUME IInv, NEW s \in Sessions, foreign_challenge(s)
  PROVE  IInv'
<1> USE Constants DEF foreign_challenge, iniVars, accVars
<1>1. TypeOK /\ SessionOK(s)
  BY DEF IInv
<1>2. PICK m \in ServerChallenge : toIni' = [toIni EXCEPT ![s] = IF Open(s) THEN m ELSE @]
  BY DEF Delivered, ServerChallenge, Known
<1>3. TypeOK'
  BY <1>1, <1>2 DEF TypeOK
<1>4. \A r \in Sessions : r # s => Same(r)
  BY <1>1, <1>2 DEF TypeOK, Same
<1>5. SignersSignForThemselves' /\ MembersOnly'
  BY DEF IInv, SignersSignForThemselves, MembersOnly, Admitted
<1>6. SessionOK(s)'
  BY <1>1 DEF SessionOK, MessagesOK, OwnMessagesOK, ProofOK, VerdictOK, Admitted, Open
<1> QED
  BY <1>3, <1>4, <1>5, <1>6, SessionStep

LEMMA ForeignCloseIInv ==
  ASSUME IInv, NEW s \in Sessions, foreign_close(s)
  PROVE  IInv'
<1> USE Constants DEF foreign_close, iniVars, accVars
<1>1. TypeOK /\ SessionOK(s)
  BY DEF IInv
<1>2. PICK code \in Nat : close' = [close EXCEPT ![s] = code]
  BY WireAssumption
<1>3. TypeOK'
  BY <1>1, <1>2 DEF TypeOK
<1>4. \A r \in Sessions : r # s => Same(r)
  BY <1>1, <1>2 DEF TypeOK, Same
<1>5. SignersSignForThemselves' /\ MembersOnly'
  BY DEF IInv, SignersSignForThemselves, MembersOnly, Admitted
<1>6. close'[s] # None
  BY <1>1, <1>2 DEF TypeOK
<1>7. SessionOK(s)'
  BY <1>1, <1>6 DEF SessionOK, MessagesOK, OwnMessagesOK, ProofOK, VerdictOK, Admitted, Open
<1> QED
  BY <1>3, <1>4, <1>5, <1>7, SessionStep

LEMMA NextIInv ==
  ASSUME IInv, [Next]_vars
  PROVE  IInv'
<1>1. CASE UNCHANGED vars
  <2>1. \A r \in Sessions : SessionOK(r)'
    BY <1>1, SameSession DEF IInv, Same, vars, iniVars, accVars
  <2> QED
    BY <1>1, <2>1 DEF IInv, TypeOK, SignersSignForThemselves, MembersOnly, Admitted,
                      vars, iniVars, accVars
<1>2. CASE tick
  BY <1>2, TickIInv
<1>3. ASSUME NEW s \in Sessions, Initiator(s) \/ abort(s)
      PROVE  IInv'
  <2>1. CASE challenge_fails(s) \/ sign_fails(s) \/ abort(s)
    BY <2>1, FailIInv DEF challenge_fails, sign_fails, abort
  <2> QED
    BY <1>3, <2>1, GreetIInv, ReadChallengeIInv, SignIInv, ReadVerdictIInv DEF Initiator
<1>4. ASSUME NEW s \in Sessions, Acceptor(s)
      PROVE  IInv'
  BY <1>4, ChallengeIInv, ReadAuthIInv, AcceptFailsIInv, RecordIInv, FinishIInv
     DEF Acceptor
<1>5. ASSUME NEW s \in Sessions, Foreign(s) \/ lose(s)
      PROVE  IInv'
  BY <1>5, ForeignInitiatorIInv, ForeignChallengeIInv, ForeignCloseIInv, LoseIInv
     DEF Foreign
<1> QED
  BY <1>1, <1>2, <1>3, <1>4, <1>5 DEF Next

\* The inductive invariant holds of every reachable state of the one-way exchange.
THEOREM Invariance == Spec => []IInv
<1>1. Init => IInv
  BY InitIInv
<1>2. IInv /\ [Next]_vars => IInv'
  BY NextIInv
<1> QED
  BY <1>1, <1>2, PTL DEF Spec
-----------------------------------------------------------------------------
(***************************************************************************)
(* What the invariant gives.                                                 *)
(***************************************************************************)

\* Every reachable state has its type; in particular no timestamp is negative and
\* what an acceptor verifies is an assertion.
THEOREM TypeCorrect == Spec => []TypeOK
<1>1. IInv => TypeOK
  BY DEF IInv
<1> QED
  BY <1>1, Invariance, PTL

\* An acceptor of ours admits only endpoints whose own institution is on its roster,
\* whatever foreign endpoints relay or reuse (incoming.rs run_handshake).
THEOREM MembersOnlyAlways == Spec => []MembersOnly
<1>1. IInv => MembersOnly
  BY DEF IInv
<1> QED
  BY <1>1, Invariance, PTL

\* No assertion is accepted in two sessions, whatever the tolerance for its age
\* (incoming.rs run_handshake).
THEOREM NoReplayAlways == Spec => []NoReplay
<1>1. IInv => NoReplay
  BY DEF IInv, NoReplay, SessionOK, ProofOK
<1> QED
  BY <1>1, Invariance, PTL

\* An initiator that has read the accepting verdict is admitted (incoming.rs
\* accept records before it closes).
THEOREM VerdictIsRecordedAlways == Spec => []VerdictIsRecorded
<1>1. IInv => VerdictIsRecorded
  BY DEF IInv, VerdictIsRecorded, SessionOK, VerdictOK, ProofOK
<1> QED
  BY <1>1, Invariance, PTL

\* A member that runs this code is denied only for skew (incoming.rs accept and
\* run_handshake).
THEOREM DeniedOnlyForSkewAlways == Spec => []DeniedOnlyForSkew
<1>1. IInv => DeniedOnlyForSkew
  BY DEF IInv, DeniedOnlyForSkew, SessionOK, VerdictOK, Skewed
<1> QED
  BY <1>1, Invariance, PTL
-----------------------------------------------------------------------------
(***************************************************************************)
(* The refinement: the exchange implements Admission.                        *)
(***************************************************************************)
LEMMA AdmissionInit ==
  ASSUME Init
  PROVE  Adm!Init
<1>1. \A s \in Sessions : Decision(s) = "open" /\ Heard(s) = "waiting"
  BY DEF Init, WireInit, Decision, Heard
<1> QED
  BY <1>1 DEF Init, WireInit, Adm!Init

LEMMA SameSeen ==
  ASSUME NEW r \in Sessions, Same(r)
  PROVE  Decision(r)' = Decision(r) /\ Heard(r)' = Heard(r)
  BY DEF Same, Decision, Heard

\* A step that neither decides a session nor is heard of.
LEMMA Hidden ==
  ASSUME NEW s \in Sessions, \A r \in Sessions : r # s => Same(r),
         Decision(s)' = Decision(s), Heard(s)' = Heard(s), UNCHANGED allowed
  PROVE  UNCHANGED Adm!vars
<1>1. \A r \in Sessions : Decision(r)' = Decision(r) /\ Heard(r)' = Heard(r)
  BY SameSeen
<1> QED
  BY <1>1 DEF Adm!vars

\* A step by which the initiator hears a verdict, or fails to.
LEMMA Heeded ==
  ASSUME NEW s \in Sessions, \A r \in Sessions : r # s => Same(r),
         Decision(s)' = Decision(s), UNCHANGED allowed,
         Heard(s) = "waiting", Heard(s)' \in {"admitted", "refused"},
         Heard(s)' = "admitted" /\ To[s] \in Ours => Decision(s) = "admitted"
  PROVE  Adm!Next
<1>1. \A r \in Sessions :
        /\ Decision(r)' = Decision(r)
        /\ Heard(r)' = IF r = s THEN Heard(s)' ELSE Heard(r)
  BY SameSeen
<1>2. CASE Heard(s)' = "admitted"
  BY <1>1, <1>2 DEF Adm!Next, Adm!Hear
<1>3. CASE Heard(s)' = "refused"
  BY <1>1, <1>3 DEF Adm!Next, Adm!Hear
<1> QED
  BY <1>2, <1>3

\* A step by which the acceptor refuses.
LEMMA Refused ==
  ASSUME NEW s \in Sessions, \A r \in Sessions : r # s => Same(r),
         Heard(s)' = Heard(s), UNCHANGED allowed,
         Decision(s) = "open", Decision(s)' = "refused"
  PROVE  Adm!Next
<1>1. \A r \in Sessions :
        /\ Heard(r)' = Heard(r)
        /\ Decision(r)' = IF r = s THEN "refused" ELSE Decision(r)
  BY SameSeen
<1> QED
  BY <1>1 DEF Adm!Next, Adm!Refuse

LEMMA InitiatorAdmission ==
  ASSUME IInv, NEW s \in Sessions, Initiator(s) \/ abort(s)
  PROVE  [Adm!Next]_(Adm!vars)
<1> USE DEF accVars
<1>1. TypeOK /\ SessionOK(s)
  BY DEF IInv
<1>2. UNCHANGED <<acc, proof, srvTime, allowed>>
  BY DEF Initiator, abort, greet, read_challenge, challenge_fails, sign_blocking,
         sign_fails, read_verdict, Fail
<1>3. \A r \in Sessions : r # s => Same(r)
  BY <1>1 DEF Initiator, abort, greet, read_challenge, challenge_fails, sign_blocking,
              sign_fails, read_verdict, Fail, TypeOK, Same, Delivered, CloseWith
<1>4. Decision(s)' = Decision(s)
  BY <1>2 DEF Decision
<1>5. CASE greet(s) \/ read_challenge(s) \/ sign_blocking(s)
  <2>1. ini[s] \in {"idle", "greeted", "signing"} /\ ini'[s] \in {"greeted", "signing", "awaiting"}
    BY <1>1, <1>5 DEF greet, read_challenge, sign_blocking, TypeOK
  <2>2. Heard(s)' = Heard(s)
    BY <2>1 DEF Heard
  <2> QED
    BY <1>2, <1>3, <1>4, <2>2, Hidden
<1>6. CASE challenge_fails(s) \/ sign_fails(s) \/ abort(s)
  <2>1. ini[s] \in {"greeted", "signing", "awaiting"} /\ ini'[s] = "failed"
    BY <1>1, <1>6 DEF challenge_fails, sign_fails, abort, Fail, TypeOK
  <2>2. Heard(s) = "waiting" /\ Heard(s)' = "refused"
    BY <2>1 DEF Heard
  <2> QED
    BY <1>2, <1>3, <1>4, <2>2, Heeded
<1>7. CASE read_verdict(s)
  <2>1. /\ ini[s] = "awaiting" /\ ini'[s] = Verdict(close[s])
        /\ close[s] # None /\ From[s] \in Ours
    BY <1>1, <1>7 DEF read_verdict, TypeOK, Open
  <2>2. ini'[s] \in {"ok", "denied", "failed"}
    BY <2>1, VerdictType
  <2>3. Heard(s) = "waiting" /\ Heard(s)' \in {"admitted", "refused"}
    BY <2>1, <2>2 DEF Heard
  <2>4. Heard(s)' = "admitted" => ini'[s] = "ok"
    BY <2>2 DEF Heard
  <2>5. ini'[s] = "ok" /\ To[s] \in Ours => acc[s] = "done" /\ proof[s] # None
    BY <1>1, <2>1, VerdictOfCode DEF SessionOK, VerdictOK
  <2>6. Heard(s)' = "admitted" /\ To[s] \in Ours => Decision(s) = "admitted"
    BY <2>4, <2>5 DEF Decision
  <2> QED
    BY <1>2, <1>3, <1>4, <2>3, <2>6, Heeded
<1> QED
  BY <1>5, <1>6, <1>7 DEF Initiator

LEMMA AcceptorAdmission ==
  ASSUME IInv, IInv', NEW s \in Sessions, Acceptor(s)
  PROVE  [Adm!Next]_(Adm!vars)
<1> USE DEF iniVars
<1>1. TypeOK /\ ProofOK(s) /\ MessagesOK(s) /\ ProofOK(s)'
  BY DEF IInv, SessionOK
<1>2. UNCHANGED ini /\ Heard(s)' = Heard(s)
  BY DEF Acceptor, challenge, read_auth, accept_fails, record, close_accepted,
         close_denied, Finish, Heard
<1>3. \A r \in Sessions : r # s => Same(r)
  BY <1>1 DEF Acceptor, challenge, read_auth, accept_fails, record, close_accepted,
              close_denied, Finish, TypeOK, Same, Delivered, CloseWith
<1>4. CASE challenge(s) \/ close_accepted(s) \/ close_denied(s)
  <2>1. /\ UNCHANGED <<proof, allowed>>
        /\ \/ acc[s] = "idle" /\ acc'[s] = "challenged"
           \/ acc[s] \in {"recorded", "refused"} /\ acc'[s] = "done"
    BY <1>1, <1>4 DEF challenge, close_accepted, close_denied, Finish, TypeOK
  <2>2. Decision(s)' = Decision(s)
    BY <1>1, <2>1 DEF Decision, ProofOK
  <2> QED
    BY <1>2, <1>3, <2>1, <2>2, Hidden
<1>5. CASE read_auth(s) \/ accept_fails(s)
  <2>1. /\ acc[s] \in {"idle", "challenged"} /\ acc'[s] \in {"verified", "refused"}
        /\ UNCHANGED allowed
    BY <1>1, <1>5 DEF read_auth, accept_fails, TypeOK
  <2>2. Decision(s) = "open"
    BY <2>1 DEF Decision
  <2>3. CASE acc'[s] = "verified"
    <3>1. Decision(s)' = "open"
      BY <2>3 DEF Decision
    <3> QED
      BY <1>2, <1>3, <2>1, <2>2, <3>1, Hidden
  <2>4. CASE acc'[s] = "refused"
    <3>1. Decision(s)' = "refused"
      BY <1>1, <2>4 DEF Decision, ProofOK
    <3> QED
      BY <1>2, <1>3, <2>1, <2>2, <3>1, Refused
  <2> QED
    BY <2>1, <2>3, <2>4
<1>6. CASE record(s)
  <2>1. /\ acc[s] = "verified" /\ acc'[s] = "recorded" /\ UNCHANGED proof
        /\ allowed' = [allowed EXCEPT ![To[s]] = @ \cup {From[s]}]
    BY <1>1, <1>6 DEF record, TypeOK
  <2>2. To[s] \in Ours /\ KeyOf[From[s]] \in Roster[To[s]] /\ proof[s] # None
    BY <1>1, <2>1 DEF ProofOK
  <2>3. Decision(s) = "open" /\ Decision(s)' = "admitted"
    BY <2>1, <2>2 DEF Decision
  <2>4. \A r \in Sessions :
          /\ Heard(r)' = Heard(r)
          /\ Decision(r)' = IF r = s THEN "admitted" ELSE Decision(r)
    BY <1>2, <1>3, <2>3, SameSeen
  <2>5. Adm!Admit(s)
    BY <2>1, <2>2, <2>3, <2>4 DEF Adm!Admit
  <2> QED
    BY <2>5 DEF Adm!Next
<1> QED
  BY <1>4, <1>5, <1>6 DEF Acceptor

LEMMA EnvironmentAdmission ==
  ASSUME IInv, tick \/ \E s \in Sessions : Foreign(s) \/ lose(s)
  PROVE  UNCHANGED Adm!vars
<1>1. UNCHANGED <<ini, acc, proof, allowed>>
  BY DEF tick, Foreign, lose, foreign_hello, foreign_auth, foreign_challenge,
         foreign_close, iniVars, accVars
<1>2. \A r \in Sessions : Decision(r)' = Decision(r) /\ Heard(r)' = Heard(r)
  BY <1>1 DEF Decision, Heard
<1> QED
  BY <1>1, <1>2 DEF Adm!vars

\* Every step of the exchange decides, is heard of, or shows nothing: the one-way
\* handshake implements Admission (incoming.rs accept, outgoing.rs handshake).
THEOREM Refinement == Spec => AdmissionSpec
<1>1. Init => Adm!Init
  BY AdmissionInit
<1>2. ASSUME IInv, IInv', [Next]_vars
      PROVE  [Adm!Next]_(Adm!vars)
  <2>1. CASE UNCHANGED vars
    <3>1. \A r \in Sessions : Decision(r)' = Decision(r) /\ Heard(r)' = Heard(r)
      BY <2>1 DEF vars, iniVars, accVars, Decision, Heard
    <3> QED
      BY <2>1, <3>1 DEF vars, accVars, Adm!vars
  <2> QED
    BY <1>2, <2>1, InitiatorAdmission, AcceptorAdmission, EnvironmentAdmission DEF Next
<1> QED
  BY <1>1, <1>2, Invariance, PTL DEF Spec, AdmissionSpec, Adm!Spec
=============================================================================
