-------------------------- MODULE MutualAuthProofs --------------------------
(***************************************************************************)
(* Proofs about MutualAuth, for every set of sessions and endpoints, every    *)
(* roster, clock and tolerance, and whatever foreign endpoints do.            *)
(***************************************************************************)
EXTENDS MutualAuth, TLAPS

(***************************************************************************)
(* The inductive invariant.                                                  *)
(***************************************************************************)

\* Nobody signs for another endpoint, neither we nor a foreign one.
SignersSignForThemselves == \A sig \in issued : sig.key = KeyOf[sig.text.id]

\* Which side of a session is where, and which message is on its way to whom.
MessagesOK(s) ==
  /\ acc[s] # "idle" => To[s] \in Ours
  /\ ini[s] # "idle" => From[s] \in Ours
  /\ From[s] \in Ours /\ ini[s] = "idle" => toAcc[s] = None /\ acc[s] = "idle"
  /\ ini[s] = "signing" =>
       peerNonce[<<s, ROLE_INITIATOR>>] \in Sides /\ time[<<s, ROLE_INITIATOR>>] \in Nat
  /\ acc[s] = "signing" =>
       /\ peerNonce[<<s, ROLE_ACCEPTOR>>] \in Sides /\ time[<<s, ROLE_ACCEPTOR>>] \in Nat
       /\ toAcc[s] = None
  /\ toIni[s] # None => toIni[s].sig.key = KeyOf[toIni[s].sig.text.id]
  /\ To[s] \in Ours =>
       /\ acc[s] \in {"idle", "reading"} => toAcc[s] \in MutualHello \cup {None}
       /\ acc[s] = "challenged" /\ toAcc[s] # None =>
            /\ toAcc[s] \in MutualResponse
            /\ toAcc[s].sig.key = KeyOf[toAcc[s].sig.text.id]
       /\ toIni[s] # None =>
            /\ toIni[s].version = PROTOCOL_VERSION
            /\ toIni[s].nonce = <<s, ROLE_ACCEPTOR>>
       /\ ini[s] = "signing" =>
            peerNonce[<<s, ROLE_INITIATOR>>] = <<s, ROLE_ACCEPTOR>>
       /\ toIni[s] # None \/ ini[s] \notin {"idle", "greeted", "failed"} =>
            acc[s] \notin {"idle", "reading", "signing"}

\* What an initiator of ours sends to an acceptor of ours that has challenged it.
Response(s) ==
  [key |-> KeyOf[From[s]],
   sig |-> Signature(KeyOf[From[s]],
             mutual_transcript(ROLE_INITIATOR, <<s, ROLE_ACCEPTOR>>, From[s],
                               time[<<s, ROLE_INITIATOR>>])),
   time |-> time[<<s, ROLE_INITIATOR>>]]

Asserted(s) == ini[s] \notin {"idle", "greeted", "signing"}

OwnMessagesOK(s) ==
  From[s] \in Ours /\ To[s] \in Ours /\ toAcc[s] # None =>
    /\ acc[s] \in {"idle", "reading"} => toAcc[s].version = PROTOCOL_VERSION
    /\ acc[s] = "challenged" =>
         /\ toAcc[s] = Response(s) /\ Asserted(s)
         /\ proof[<<s, ROLE_INITIATOR>>] # None

\* A side has verified an assertion of its own peer, in the peer's role, over the
\* nonce that it drew itself, by an institution that it trusts.
ProvedTo(s, role) ==
  LET p == proof[<<s, role>>]
      peer == Owner(s, Other(role))
  IN  verify(Roster[Owner(s, role)], KeyOf[peer],
             mutual_transcript(Other(role), <<s, role>>, peer, p.text.time), p)

ProofOK(s) ==
  /\ \A role \in Roles : proof[<<s, role>>] # None => ProvedTo(s, role)
  /\ ini[s] \in {"idle", "greeted"} => proof[<<s, ROLE_INITIATOR>>] = None
  /\ ini[s] \in {"signing", "awaiting", "ok", "denied", "recorded"} =>
       proof[<<s, ROLE_INITIATOR>>] # None
  /\ acc[s] \in {"verified", "recorded"} => proof[<<s, ROLE_ACCEPTOR>>] # None
  /\ acc[s] \in {"idle", "reading", "signing", "challenged", "refused"} =>
       proof[<<s, ROLE_ACCEPTOR>>] = None
  /\ From[s] \in Ours /\ proof[<<s, ROLE_ACCEPTOR>>] # None =>
       proof[<<s, ROLE_INITIATOR>>] # None
  /\ acc[s] \in {"recorded", "done"} /\ proof[<<s, ROLE_ACCEPTOR>>] # None =>
       Admitted(To[s], From[s])
  /\ ini[s] = "recorded" => Admitted(From[s], To[s])

\* The initiator's timestamp is a reading of its clock.
StampOK(s) ==
  time[<<s, ROLE_INITIATOR>>] # None =>
    \E t0 \in 0..now : time[<<s, ROLE_INITIATOR>>] = unix_secs(From[s], t0)

\* Since that reading the acceptor's clock was further from it than tolerated.
Delayed(s) ==
  /\ MaxSkew[ROLE_ACCEPTOR] # Unlimited
  /\ \E t0 \in 0..now : \E t \in t0..now :
       /\ time[<<s, ROLE_INITIATOR>>] = unix_secs(From[s], t0)
       /\ AbsDiff(unix_secs(To[s], t), time[<<s, ROLE_INITIATOR>>]) > MaxSkew[ROLE_ACCEPTOR]

Late(s) == Asserted(s) /\ acc[s] \in {"refused", "done"} /\ Delayed(s)

\* The acceptor has given up without a challenge: its initiator can only fail.
Unchallenged(s) ==
  acc[s] \in {"refused", "done"} /\ toIni[s] = None /\ ini[s] \in {"greeted", "failed"}

\* Between endpoints of ours, what the close code says is true.
VerdictOK(s) ==
  From[s] \in Ours /\ To[s] \in Ours =>
    /\ close[s] \in {None, Lost, DROPPED, CLOSE_ACCEPTED, CLOSE_DENIED}
    /\ close[s] = CLOSE_ACCEPTED \/ ini[s] \in {"ok", "recorded"} =>
         acc[s] = "done" /\ proof[<<s, ROLE_ACCEPTOR>>] # None
    /\ KeyOf[From[s]] \in Roster[To[s]] =>
         /\ acc[s] = "refused" => ~Open(s) \/ Late(s) \/ Unchallenged(s)
         /\ close[s] = CLOSE_DENIED => ini[s] = "failed" \/ Late(s) \/ Unchallenged(s)
         /\ ini[s] = "denied" => Late(s)

SessionOK(s) ==
  MessagesOK(s) /\ OwnMessagesOK(s) /\ ProofOK(s) /\ StampOK(s) /\ VerdictOK(s)

IInv ==
  /\ TypeOK
  /\ SignersSignForThemselves
  /\ TrustIsMutual
  /\ AnswersOnlyVerified
  /\ \A s \in Sessions : SessionOK(s)
(***************************************************************************)
(* A second inductive invariant, on top of the first: how each entry came     *)
(* into the two sets, and what can have come between them.                    *)
(***************************************************************************)

\* The initiator's assertion has reached its acceptor, or will if the acceptor reads.
Answered(s) ==
  \/ proof[<<s, ROLE_ACCEPTOR>>] # None
  \/ acc[s] = "challenged" /\ toAcc[s] # None

\* Between endpoints of ours, an initiator that has answered fails only because its
\* loop is gone or its connection was lost.
OutcomeOK(s) ==
  /\ ini[s] # "idle" => From[s] \in spawned
  /\ acc[s] \notin {"idle", "refused", "done"} \/ proof[<<s, ROLE_ACCEPTOR>>] # None =>
       To[s] \in spawned
  /\ From[s] \in Ours /\ To[s] \in Ours =>
       /\ Answered(s) => Asserted(s)
       /\ Answered(s) => close[s] # CLOSE_DENIED /\ ini[s] # "denied"
       /\ Answered(s) /\ ini[s] = "failed" => close[s] = Lost \/ From[s] \in stopped
       /\ close[s] = DROPPED => ini[s] = "failed"

\* Whoever is in a set of ours has proved itself to its owner, or was joined by it.
AllowedOK ==
  \A x \in Ours : \A e \in allowed[x] :
    \E s \in Sessions :
      \/ From[s] = e /\ To[s] = x /\ proof[<<s, ROLE_ACCEPTOR>>] # None
      \/ From[s] = x /\ To[s] = e /\ ini[s] = "recorded"

RestInv == AllowedOK /\ \A s \in Sessions : OutcomeOK(s)
-----------------------------------------------------------------------------
(***************************************************************************)
(* The operators of the model.                                               *)
(***************************************************************************)
LEMMA ClockType ==
  ASSUME NEW e \in Endpoints, NEW t \in Nat
  PROVE  unix_secs(e, t) \in Nat
  BY ClockAssumption DEF unix_secs

\* A code that one of our endpoints closes with means what it says.
LEMMA VerdictOfCode ==
  ASSUME NEW code \in {Lost, DROPPED, CLOSE_ACCEPTED, CLOSE_DENIED}
  PROVE  /\ Verdict(code) = "ok" => code = CLOSE_ACCEPTED
         /\ Verdict(code) = "denied" => code = CLOSE_DENIED
<1>1. U32 \in Nat /\ 403 < U32 /\ Lost \notin Nat
  BY WireAssumption DEF CLOSE_DENIED
<1>2. 0 % U32 = 0 /\ 1 % U32 = 1 /\ 403 % U32 = 403
  BY <1>1
<1> QED
  BY <1>1, <1>2 DEF Verdict, DROPPED, CLOSE_ACCEPTED, CLOSE_DENIED

LEMMA VerdictType ==
  ASSUME NEW code
  PROVE  Verdict(code) \in {"ok", "denied", "failed"}
  BY DEF Verdict

\* The constants, as the lemmas below use them.
LEMMA Constants ==
  /\ None \notin Nat /\ Lost # None /\ Lost \notin Nat /\ None \notin Signatures
  /\ Ours \subseteq Endpoints
  /\ \A s \in Sessions : From[s] \in Endpoints /\ To[s] \in Endpoints
  /\ DROPPED = 0 /\ CLOSE_ACCEPTED = 1 /\ CLOSE_DENIED = 403
  /\ \A e \in Endpoints : KeyOf[e] \in Keys
  BY WireAssumption, SessionAssumption, SignatureAssumption
     DEF DROPPED, CLOSE_ACCEPTED, CLOSE_DENIED, Keys

\* The two sides of a session are two, and no two sessions share one.
LEMMA SideFacts ==
  /\ ROLE_INITIATOR # ROLE_ACCEPTOR
  /\ Roles = {ROLE_INITIATOR, ROLE_ACCEPTOR}
  /\ \A s \in Sessions : <<s, ROLE_INITIATOR>> \in Sides /\ <<s, ROLE_ACCEPTOR>> \in Sides
  /\ \A s, r : <<s, ROLE_INITIATOR>> # <<r, ROLE_ACCEPTOR>>
  /\ \A s, r : <<s, ROLE_INITIATOR>> = <<r, ROLE_INITIATOR>> => s = r
  /\ \A s, r : <<s, ROLE_ACCEPTOR>> = <<r, ROLE_ACCEPTOR>> => s = r
  /\ Other(ROLE_INITIATOR) = ROLE_ACCEPTOR /\ Other(ROLE_ACCEPTOR) = ROLE_INITIATOR
  /\ \A s : Owner(s, ROLE_INITIATOR) = From[s] /\ Owner(s, ROLE_ACCEPTOR) = To[s]
  BY DEF ROLE_INITIATOR, ROLE_ACCEPTOR, Roles, Sides, Other, Owner

\* What a foreign endpoint can sign or pass on.
LEMMA ForeignSignature ==
  ASSUME IInv, NEW sig \in ForeignSignatures
  PROVE  sig \in Signatures /\ sig.key = KeyOf[sig.text.id]
<1>1. CASE sig \in issued
  BY <1>1 DEF IInv, TypeOK, SignersSignForThemselves
<1>2. CASE sig \notin issued
  <2>1. PICK e \in Endpoints \ Ours, role \in Roles, n \in Known, t \in ForeignTimes :
          sig = Signature(KeyOf[e], mutual_transcript(role, n, e, t))
    BY <1>2 DEF ForeignSignatures
  <2>2. n \in Sides /\ t \in Nat
    BY ClockAssumption DEF Known
  <2> QED
    BY <2>1, <2>2, Constants DEF Signature, mutual_transcript, Signatures
<1> QED
  BY <1>1, <1>2

\* What Verified establishes: the key is that of the peer which QUIC has
\* authenticated, it is on the roster, and it has signed the nonce drawn here.
LEMMA VerifiedPeer ==
  ASSUME NEW s \in Sessions, NEW role \in Roles, NEW m,
         m.sig.key = KeyOf[m.sig.text.id], Verified(s, role, m)
  PROVE  verify(Roster[Owner(s, role)], KeyOf[Owner(s, Other(role))],
                mutual_transcript(Other(role), <<s, role>>, Owner(s, Other(role)),
                                  m.sig.text.time), m.sig)
<1> DEFINE peer == Owner(s, Other(role))
           text == mutual_transcript(Other(role), <<s, role>>, peer, m.time)
<1>1. m.key \in Roster[Owner(s, role)] /\ m.sig = Signature(m.key, text)
  BY DEF Verified, verify, Nonce, RemoteId
<1>2. m.sig.key = m.key /\ m.sig.text = text
  BY <1>1 DEF Signature
<1>3. text.id = peer /\ text.time = m.time
  BY DEF mutual_transcript
<1> HIDE DEF text, peer
<1>4. m.key = KeyOf[peer] /\ m.sig.text.time = m.time
  BY <1>2, <1>3
<1> QED
  BY <1>1, <1>4 DEF verify, text, peer

\* A side that holds a proof trusts its peer's institution.
LEMMA ProvedMember ==
  ASSUME NEW s \in Sessions, ProofOK(s)
  PROVE  /\ proof[<<s, ROLE_INITIATOR>>] # None =>
              /\ KeyOf[To[s]] \in Roster[From[s]]
              /\ proof[<<s, ROLE_INITIATOR>>].text.nonce = <<s, ROLE_INITIATOR>>
         /\ proof[<<s, ROLE_ACCEPTOR>>] # None =>
              /\ KeyOf[From[s]] \in Roster[To[s]]
              /\ proof[<<s, ROLE_ACCEPTOR>>].text.nonce = <<s, ROLE_ACCEPTOR>>
<1> USE SideFacts
<1>1. ASSUME NEW role \in Roles, proof[<<s, role>>] # None
      PROVE  /\ KeyOf[Owner(s, Other(role))] \in Roster[Owner(s, role)]
             /\ proof[<<s, role>>].text.nonce = <<s, role>>
  <2>1. ProvedTo(s, role)
    BY <1>1 DEF ProofOK
  <2> QED
    BY <2>1 DEF ProvedTo, verify, Signature, mutual_transcript
<1> QED
  BY <1>1

\* A response between endpoints of ours that is refused, is refused for delay.
LEMMA RefusedResponse ==
  ASSUME NEW s \in Sessions, KeyOf[From[s]] \in Roster[To[s]], StampOK(s),
         ~Verified(s, ROLE_ACCEPTOR, Response(s)), now \in Nat,
         time[<<s, ROLE_INITIATOR>>] \in Nat
  PROVE  Delayed(s)
<1> DEFINE stamp == time[<<s, ROLE_INITIATOR>>]
           reading == unix_secs(To[s], now)
<1>1. /\ Response(s).time = stamp /\ Response(s).key = KeyOf[From[s]]
      /\ Response(s).sig =
           Signature(KeyOf[From[s]], mutual_transcript(ROLE_INITIATOR,
                       <<s, ROLE_ACCEPTOR>>, From[s], stamp))
  BY DEF Response
<1>2. ~Fresh(s, ROLE_ACCEPTOR, Response(s))
  BY <1>1, SideFacts DEF Verified, verify, Nonce, RemoteId
<1>3. /\ MaxSkew[ROLE_ACCEPTOR] # Unlimited
      /\ ~(AbsDiff(reading, stamp) <= MaxSkew[ROLE_ACCEPTOR])
  BY <1>1, <1>2, SideFacts DEF Fresh
<1>4. MaxSkew[ROLE_ACCEPTOR] \in Nat /\ reading \in Nat
  BY <1>3, MutualAssumption, Constants, ClockType
<1>5. AbsDiff(reading, stamp) > MaxSkew[ROLE_ACCEPTOR]
  BY <1>3, <1>4 DEF AbsDiff
<1>6. PICK t0 \in 0..now : stamp = unix_secs(From[s], t0)
  BY Constants DEF StampOK
<1>7. now \in t0..now
  OBVIOUS
<1> HIDE DEF stamp, reading
<1> QED
  BY <1>3, <1>5, <1>6, <1>7 DEF Delayed, stamp, reading

\* A session that a step does not touch.
Same(r) ==
  /\ ini'[r] = ini[r] /\ acc'[r] = acc[r] /\ close'[r] = close[r]
  /\ toAcc'[r] = toAcc[r] /\ toIni'[r] = toIni[r]
  /\ \A role \in Roles :
       /\ peerNonce'[<<r, role>>] = peerNonce[<<r, role>>]
       /\ time'[<<r, role>>] = time[<<r, role>>]
       /\ proof'[<<r, role>>] = proof[<<r, role>>]

\* What was once too late remains so.
LEMMA StaysLate ==
  ASSUME NEW r \in Sessions, now \in Nat, now' \in Nat, now <= now',
         time'[<<r, ROLE_INITIATOR>>] = time[<<r, ROLE_INITIATOR>>]
  PROVE  (StampOK(r) => StampOK(r)') /\ (Delayed(r) => Delayed(r)')
<1>1. \A t0 \in 0..now : t0 \in 0..now' /\ \A t \in t0..now : t \in t0..now'
  OBVIOUS
<1>2. StampOK(r) => StampOK(r)'
  BY <1>1 DEF StampOK, unix_secs
<1>3. Delayed(r) => Delayed(r)'
  BY <1>1 DEF Delayed, unix_secs, AbsDiff
<1> QED
  BY <1>2, <1>3

LEMMA SameSession ==
  ASSUME NEW r \in Sessions, SessionOK(r), Same(r),
         now \in Nat, now' \in Nat, now <= now',
         \A b \in Endpoints : allowed[b] \subseteq allowed'[b]
  PROVE  SessionOK(r)'
<1> USE SessionAssumption, SideFacts DEF Same
<1>1. MessagesOK(r)'
  BY DEF SessionOK, MessagesOK
<1>2. OwnMessagesOK(r)'
  BY DEF SessionOK, OwnMessagesOK, Response, Asserted
<1>3. ProofOK(r)'
  BY DEF SessionOK, ProofOK, ProvedTo, Admitted
<1>4. StampOK(r)' /\ (Delayed(r) => Delayed(r)')
  BY StaysLate DEF SessionOK
<1>5. VerdictOK(r)'
  BY <1>4 DEF SessionOK, VerdictOK, Late, Unchallenged, Asserted, Open
<1> QED
  BY <1>1, <1>2, <1>3, <1>4, <1>5 DEF SessionOK

\* A step of session s that forgets nobody preserves the invariant if it does so
\* for s.
LEMMA SessionStep ==
  ASSUME IInv, TypeOK', NEW s \in Sessions,
         \A r \in Sessions : r # s => Same(r), UNCHANGED now,
         \A b \in Endpoints : allowed[b] \subseteq allowed'[b],
         SignersSignForThemselves', TrustIsMutual', AnswersOnlyVerified',
         SessionOK(s)'
  PROVE  IInv'
<1>1. now \in Nat /\ now' \in Nat /\ now <= now'
  BY ClockAssumption DEF IInv, TypeOK
<1>2. \A r \in Sessions : r # s => SessionOK(r)'
  BY <1>1, SameSession DEF IInv
<1> QED
  BY <1>2 DEF IInv

\* A step that signs nothing and changes no proof that has been kept leaves every
\* assertion answered as it was.
LEMMA AnswersKept ==
  ASSUME AnswersOnlyVerified, UNCHANGED issued,
         \A r \in Sessions : proof[<<r, ROLE_INITIATOR>>] # None =>
           /\ proof'[<<r, ROLE_INITIATOR>>] = proof[<<r, ROLE_INITIATOR>>]
           /\ peerNonce'[<<r, ROLE_INITIATOR>>] = peerNonce[<<r, ROLE_INITIATOR>>]
  PROVE  AnswersOnlyVerified'
  BY DEF AnswersOnlyVerified

LEMMA InitIInv ==
  ASSUME Init
  PROVE  IInv
<1> USE Constants, SideFacts, ClockAssumption DEF Init, WireInit
<1>1. TypeOK
  BY DEF TypeOK
<1>2. SignersSignForThemselves /\ TrustIsMutual /\ AnswersOnlyVerified
  BY DEF SignersSignForThemselves, TrustIsMutual, AnswersOnlyVerified
<1>3. ASSUME NEW s \in Sessions
      PROVE  SessionOK(s)
  BY DEF SessionOK, MessagesOK, OwnMessagesOK, ProofOK, StampOK, VerdictOK, Open
<1> QED
  BY <1>1, <1>2, <1>3 DEF IInv
-----------------------------------------------------------------------------
(***************************************************************************)
(* The initiator's actions.                                                  *)
(***************************************************************************)
LEMMA GreetIInv ==
  ASSUME IInv, NEW s \in Sessions, greet(s)
  PROVE  IInv'
<1> USE Constants, SideFacts DEF greet, sideVars, taskVars
<1>1. TypeOK /\ SessionOK(s) /\ AnswersOnlyVerified
  BY DEF IInv
<1> DEFINE m == [version |-> PROTOCOL_VERSION, nonce |-> <<s, ROLE_INITIATOR>>]
<1>2. m \in MutualHello /\ m.version = PROTOCOL_VERSION
  BY DEF MutualHello, Versions, PROTOCOL_VERSION
<1>3. /\ toAcc' = [toAcc EXCEPT ![s] = IF Open(s) THEN m ELSE @]
      /\ ini' = [ini EXCEPT ![s] = "greeted"] /\ ini[s] = "idle"
      /\ UNCHANGED <<now, spawned, stopped, acc, toIni, close, peerNonce, time, proof, issued,
                     allowed>>
  BY DEF Delivered, Nonce
<1> HIDE DEF m, greet
<1>4. TypeOK'
  BY <1>1, <1>2, <1>3 DEF TypeOK
<1>5. \A r \in Sessions : r # s => Same(r)
  BY <1>1, <1>3 DEF TypeOK, Same
<1>6. SignersSignForThemselves' /\ TrustIsMutual' /\ AnswersOnlyVerified'
  BY <1>1, <1>3, AnswersKept DEF IInv, SignersSignForThemselves, TrustIsMutual
<1>7. /\ ini'[s] = "greeted" /\ From[s] \in Ours
      /\ toAcc[s] = None /\ acc[s] = "idle"
      /\ toAcc'[s] = IF Open(s) THEN m ELSE None
  <2>1. From[s] \in Ours
    BY <1>1 DEF TypeOK, greet
  <2> QED
    BY <1>1, <1>3, <2>1 DEF TypeOK, SessionOK, MessagesOK
<1>8. MessagesOK(s)'
  BY <1>1, <1>2, <1>3, <1>7 DEF SessionOK, MessagesOK
<1>9. OwnMessagesOK(s)' /\ ProofOK(s)' /\ StampOK(s)'
  BY <1>1, <1>2, <1>3, <1>7
     DEF SessionOK, OwnMessagesOK, ProofOK, ProvedTo, StampOK, Admitted
<1>10. VerdictOK(s)'
  BY <1>1, <1>3, <1>7 DEF SessionOK, VerdictOK, Late, Unchallenged, Open
<1> QED
  BY <1>3, <1>4, <1>5, <1>6, <1>8, <1>9, <1>10, SessionStep DEF SessionOK

LEMMA ReadChallengeIInv ==
  ASSUME IInv, NEW s \in Sessions, read_challenge(s)
  PROVE  IInv'
<1> USE Constants, SideFacts DEF read_challenge, Keep, taskVars
<1> DEFINE m == toIni[s]
           x == <<s, ROLE_INITIATOR>>
<1>1. TypeOK /\ SessionOK(s) /\ AnswersOnlyVerified
  BY DEF IInv
<1>2. now \in Nat /\ unix_secs(From[s], now) \in Nat
  BY <1>1, ClockType, ClockAssumption DEF TypeOK
<1>3. /\ m # None /\ m.sig \in Signatures /\ m.nonce \in Sides
      /\ m.sig.key = KeyOf[m.sig.text.id] /\ Verified(s, ROLE_INITIATOR, m)
  BY <1>1 DEF TypeOK, SessionOK, MessagesOK, MutualChallenge, AcceptorVerified
<1>4. TypeOK'
  BY <1>1, <1>2, <1>3 DEF TypeOK
<1>5. \A r \in Sessions : r # s => Same(r)
  BY <1>1 DEF TypeOK, Same
<1>6. /\ ini[s] = "greeted" /\ ini'[s] = "signing" /\ From[s] \in Ours
      /\ toIni'[s] = None
      /\ peerNonce'[x] = m.nonce /\ time'[x] = unix_secs(From[s], now)
      /\ proof'[x] = m.sig /\ proof'[x] # None
      /\ peerNonce'[<<s, ROLE_ACCEPTOR>>] = peerNonce[<<s, ROLE_ACCEPTOR>>]
      /\ time'[<<s, ROLE_ACCEPTOR>>] = time[<<s, ROLE_ACCEPTOR>>]
      /\ proof'[<<s, ROLE_ACCEPTOR>>] = proof[<<s, ROLE_ACCEPTOR>>]
      /\ UNCHANGED <<now, acc, toAcc, close, issued, allowed>>
  BY <1>1, <1>3 DEF TypeOK
<1>7. proof[x] = None /\ acc[s] # "verified"
  BY <1>1, <1>6 DEF SessionOK, ProofOK
<1> HIDE DEF read_challenge, m, x
<1>8. SignersSignForThemselves' /\ TrustIsMutual'
  BY <1>6 DEF IInv, SignersSignForThemselves, TrustIsMutual
<1>9. AnswersOnlyVerified'
  BY <1>1, <1>5, <1>6, <1>7, AnswersKept DEF Same, x
<1>10. MessagesOK(s)'
  BY <1>1, <1>2, <1>3, <1>6 DEF SessionOK, MessagesOK, m, x
<1>11. OwnMessagesOK(s)'
  BY <1>1, <1>6 DEF SessionOK, OwnMessagesOK, Asserted
<1>12. ProofOK(s)'
  <2>1. ProvedTo(s, ROLE_INITIATOR)'
    BY <1>3, <1>6, VerifiedPeer DEF ProvedTo, x
  <2>2. proof[<<s, ROLE_ACCEPTOR>>] # None => ProvedTo(s, ROLE_ACCEPTOR)'
    BY <1>1, <1>6 DEF SessionOK, ProofOK, ProvedTo
  <2> QED
    BY <1>1, <1>6, <2>1, <2>2 DEF SessionOK, ProofOK, Admitted, x
<1>13. StampOK(s)'
  <2>1. now' \in 0..now'
    BY <1>2, <1>6
  <2> QED
    BY <1>6, <2>1 DEF StampOK, x
<1>14. VerdictOK(s)'
  BY <1>1, <1>3, <1>6 DEF SessionOK, VerdictOK, Late, Unchallenged, Asserted, Open, m
<1> QED
  BY <1>4, <1>5, <1>6, <1>8, <1>9, <1>10, <1>11, <1>12, <1>13, <1>14, SessionStep
     DEF SessionOK

\* Errors before the response is sent, a refusal, and the drop of the handshake.
LEMMA FailIInv ==
  ASSUME IInv, NEW s \in Sessions, From[s] \in Ours,
         ini[s] \in {"greeted", "signing", "awaiting"},
         NEW code \in {DROPPED, CLOSE_DENIED}, Fail(s, code)
  PROVE  IInv'
<1> USE Constants, SideFacts DEF Fail, sideVars, taskVars
<1>1. TypeOK /\ SessionOK(s) /\ AnswersOnlyVerified
  BY DEF IInv
<1>2. TypeOK'
  BY <1>1 DEF TypeOK, CloseWith
<1>3. \A r \in Sessions : r # s => Same(r)
  BY <1>1 DEF TypeOK, Same, CloseWith
<1>4. /\ ini'[s] = "failed"
      /\ close'[s] = IF close[s] = None THEN code ELSE close[s]
      /\ UNCHANGED <<now, acc, toAcc, toIni, peerNonce, time, proof, issued, allowed>>
  BY <1>1 DEF TypeOK, CloseWith
<1>5. SignersSignForThemselves' /\ TrustIsMutual' /\ AnswersOnlyVerified'
  BY <1>1, <1>4, AnswersKept DEF IInv, SignersSignForThemselves, TrustIsMutual
<1>6. MessagesOK(s)'
  BY <1>1, <1>4 DEF SessionOK, MessagesOK
<1>7. OwnMessagesOK(s)' /\ StampOK(s)'
  BY <1>1, <1>4 DEF SessionOK, OwnMessagesOK, Response, Asserted, StampOK
<1>8. ProofOK(s)'
  BY <1>1, <1>4 DEF SessionOK, ProofOK, ProvedTo, Admitted
<1>9. VerdictOK(s)'
  BY <1>1, <1>4 DEF SessionOK, VerdictOK, Open
<1> QED
  BY <1>2, <1>3, <1>4, <1>5, <1>6, <1>7, <1>8, <1>9, SessionStep DEF SessionOK

LEMMA RespondIInv ==
  ASSUME IInv, NEW s \in Sessions, respond(s)
  PROVE  IInv'
<1> USE Constants, SideFacts DEF sideVars, taskVars
<1> DEFINE x == <<s, ROLE_INITIATOR>>
           sig == Signature(KeyOf[From[s]],
                    mutual_transcript(ROLE_INITIATOR, peerNonce[x], From[s], time[x]))
           m == [key |-> KeyOf[From[s]], sig |-> sig, time |-> time[x]]
<1>1. TypeOK /\ SessionOK(s)
  BY DEF IInv
<1>2. ini[s] = "signing" /\ peerNonce[x] \in Sides /\ time[x] \in Nat
  BY <1>1 DEF SessionOK, MessagesOK, respond
<1>3. /\ sig \in Signatures /\ sig.key = KeyOf[From[s]]
      /\ sig.text.id = From[s] /\ sig.text.nonce = peerNonce[x]
      /\ m \in MutualResponse /\ m.sig = sig
  BY <1>2 DEF Signature, mutual_transcript, Signatures, MutualResponse
<1>4. /\ ini' = [ini EXCEPT ![s] = "awaiting"] /\ From[s] \in Ours
      /\ toAcc' = [toAcc EXCEPT ![s] = IF Open(s) THEN m ELSE @]
      /\ issued' = issued \cup {sig}
      /\ UNCHANGED <<now, spawned, stopped, acc, toIni, close, peerNonce, time, proof, allowed>>
  BY DEF respond, Delivered, OwnSignature, Signature
<1> HIDE DEF sig, m
<1>5. TypeOK'
  BY <1>1, <1>3, <1>4 DEF TypeOK
<1>6. \A r \in Sessions : r # s => Same(r)
  BY <1>1, <1>4 DEF TypeOK, Same
<1>7. SignersSignForThemselves' /\ TrustIsMutual'
  BY <1>3, <1>4 DEF IInv, SignersSignForThemselves, TrustIsMutual
<1>8. AnswersOnlyVerified'
  <2>1. proof[x] # None /\ ProvedTo(s, ROLE_INITIATOR)
    BY <1>1, <1>2 DEF SessionOK, ProofOK
  <2>2. verify(Roster[From[s]], KeyOf[To[s]],
               mutual_transcript(ROLE_ACCEPTOR, Nonce(s, ROLE_INITIATOR), To[s],
                                 proof[x].text.time), proof[x])
    BY <2>1 DEF ProvedTo, Nonce
  <2> QED
    BY <1>3, <1>4, <2>1, <2>2 DEF IInv, AnswersOnlyVerified
<1>9. ini'[s] = "awaiting" /\ toAcc'[s] = IF Open(s) THEN m ELSE toAcc[s]
  BY <1>1, <1>4 DEF TypeOK
<1>10. MessagesOK(s)'
  BY <1>1, <1>2, <1>3, <1>4, <1>9 DEF SessionOK, MessagesOK
<1>11. OwnMessagesOK(s)'
  <2>1. To[s] \in Ours => /\ m = Response(s)'
                          /\ acc[s] \notin {"idle", "reading", "signing"}
    BY <1>1, <1>2, <1>4 DEF m, sig, Response, SessionOK, MessagesOK
  <2>2. To[s] \in Ours /\ acc[s] = "challenged" => toAcc[s] = None
    BY <1>1, <1>2, <1>4 DEF SessionOK, OwnMessagesOK, Asserted
  <2>3. proof[x] # None
    BY <1>1, <1>2 DEF SessionOK, ProofOK
  <2> QED
    BY <1>4, <1>9, <2>1, <2>2, <2>3 DEF OwnMessagesOK, Asserted
<1>12. ProofOK(s)' /\ StampOK(s)'
  BY <1>1, <1>2, <1>4, <1>9
     DEF SessionOK, ProofOK, ProvedTo, StampOK, Admitted
<1>13. VerdictOK(s)'
  BY <1>1, <1>2, <1>4, <1>9 DEF SessionOK, VerdictOK, Late, Unchallenged, Asserted, Open
<1> QED
  BY <1>4, <1>5, <1>6, <1>7, <1>8, <1>10, <1>11, <1>12, <1>13, SessionStep
     DEF SessionOK

LEMMA ReadVerdictIInv ==
  ASSUME IInv, NEW s \in Sessions, read_verdict(s)
  PROVE  IInv'
<1> USE Constants, SideFacts DEF read_verdict, sideVars, taskVars
<1>1. TypeOK /\ SessionOK(s) /\ AnswersOnlyVerified
  BY DEF IInv
<1>2. Verdict(close[s]) \in {"ok", "denied", "failed"}
  BY VerdictType
<1>3. TypeOK'
  BY <1>1, <1>2 DEF TypeOK
<1>4. \A r \in Sessions : r # s => Same(r)
  BY <1>1 DEF TypeOK, Same
<1>5. /\ ini[s] = "awaiting" /\ ini'[s] = Verdict(close[s]) /\ From[s] \in Ours
      /\ UNCHANGED <<now, acc, toAcc, toIni, close, peerNonce, time, proof, issued,
                     allowed>>
  BY <1>1 DEF TypeOK
<1>6. SignersSignForThemselves' /\ TrustIsMutual' /\ AnswersOnlyVerified'
  BY <1>1, <1>5, AnswersKept DEF IInv, SignersSignForThemselves, TrustIsMutual
<1>7. MessagesOK(s)'
  BY <1>1, <1>2, <1>5 DEF SessionOK, MessagesOK
<1>8. OwnMessagesOK(s)' /\ StampOK(s)'
  BY <1>1, <1>2, <1>5 DEF SessionOK, OwnMessagesOK, Response, Asserted, StampOK
<1>9. ProofOK(s)'
  BY <1>1, <1>2, <1>5 DEF SessionOK, ProofOK, ProvedTo, Admitted
<1>10. VerdictOK(s)'
  <2>1. To[s] \in Ours =>
          /\ ini'[s] = "ok" => close[s] = CLOSE_ACCEPTED
          /\ ini'[s] = "denied" => close[s] = CLOSE_DENIED
    BY <1>1, <1>5, VerdictOfCode DEF SessionOK, VerdictOK, Open
  <2>2. Late(s) => Late(s)'
    BY <1>2, <1>5 DEF Late, Asserted, Delayed
  <2> QED
    BY <1>1, <1>2, <1>5, <2>1, <2>2 DEF SessionOK, VerdictOK, Unchallenged, Open
<1> QED
  BY <1>3, <1>4, <1>5, <1>6, <1>7, <1>8, <1>9, <1>10, SessionStep DEF SessionOK

\* The task admits its acceptor only after each has verified the other.
LEMMA HandleCompletionIInv ==
  ASSUME IInv, NEW s \in Sessions, handle_completion(s)
  PROVE  IInv'
<1> USE Constants, SideFacts DEF handle_completion, sideVars, taskVars
<1>1. TypeOK /\ SessionOK(s) /\ AnswersOnlyVerified
  BY DEF IInv
<1>2. TypeOK'
  BY <1>1 DEF TypeOK
<1>3. \A r \in Sessions : r # s => Same(r)
  BY <1>1 DEF TypeOK, Same
<1>4. /\ ini[s] = "ok" /\ ini'[s] = "recorded"
      /\ \A b \in Endpoints :
           allowed'[b] = IF b = From[s] THEN allowed[b] \cup {To[s]} ELSE allowed[b]
      /\ UNCHANGED <<now, acc, toAcc, toIni, close, peerNonce, time, proof, issued>>
  BY <1>1 DEF TypeOK
<1>5. /\ From[s] \in Ours /\ KeyOf[To[s]] \in Roster[From[s]]
      /\ To[s] \in Ours => KeyOf[From[s]] \in Roster[To[s]]
  BY <1>1, <1>4, ProvedMember DEF SessionOK, MessagesOK, ProofOK, VerdictOK
<1>6. SignersSignForThemselves' /\ TrustIsMutual' /\ AnswersOnlyVerified'
  BY <1>1, <1>4, <1>5, AnswersKept DEF IInv, SignersSignForThemselves, TrustIsMutual
<1>7. MessagesOK(s)'
  BY <1>1, <1>4 DEF SessionOK, MessagesOK
<1>8. OwnMessagesOK(s)' /\ StampOK(s)'
  BY <1>1, <1>4 DEF SessionOK, OwnMessagesOK, Response, Asserted, StampOK
<1>9. ProofOK(s)'
  <2>1. \A role \in Roles : proof'[<<s, role>>] # None => ProvedTo(s, role)'
    BY <1>1, <1>4 DEF SessionOK, ProofOK, ProvedTo
  <2> HIDE DEF handle_completion
  <2>2. /\ Admitted(From[s], To[s])'
        /\ Admitted(To[s], From[s]) => Admitted(To[s], From[s])'
    <3>1. From[s] \in Endpoints /\ To[s] \in Endpoints
      OBVIOUS
    <3>2. To[s] \in allowed'[From[s]] /\ allowed[To[s]] \subseteq allowed'[To[s]]
      BY <1>4, <3>1
    <3> QED
      BY <3>2 DEF Admitted
  <2> QED
    BY <1>1, <1>4, <2>1, <2>2 DEF SessionOK, ProofOK
<1>10. VerdictOK(s)'
  BY <1>1, <1>4 DEF SessionOK, VerdictOK, Late, Delayed, Unchallenged, Asserted, Open
<1> QED
  BY <1>2, <1>3, <1>4, <1>6, <1>7, <1>8, <1>9, <1>10, SessionStep DEF SessionOK
-----------------------------------------------------------------------------
(***************************************************************************)
(* The acceptor's actions.                                                   *)
(***************************************************************************)
LEMMA AcceptIInv ==
  ASSUME IInv, NEW s \in Sessions, accept(s)
  PROVE  IInv'
<1> USE Constants, SideFacts DEF accept, sideVars, taskVars
<1>1. TypeOK /\ SessionOK(s) /\ AnswersOnlyVerified
  BY DEF IInv
<1>2. TypeOK'
  BY <1>1 DEF TypeOK
<1>3. \A r \in Sessions : r # s => Same(r)
  BY <1>1 DEF TypeOK, Same
<1>4. /\ acc[s] = "idle" /\ acc'[s] \in {"reading", "refused"} /\ To[s] \in Ours
      /\ From[s] \in Ours => ini[s] # "idle"
      /\ UNCHANGED <<now, ini, toAcc, toIni, close, peerNonce, time, proof, issued,
                     allowed>>
  BY <1>1 DEF TypeOK
<1>5. SignersSignForThemselves' /\ TrustIsMutual' /\ AnswersOnlyVerified'
  BY <1>1, <1>4, AnswersKept DEF IInv, SignersSignForThemselves, TrustIsMutual
<1>6. MessagesOK(s)'
  BY <1>1, <1>4 DEF SessionOK, MessagesOK
<1>7. OwnMessagesOK(s)' /\ StampOK(s)'
  BY <1>1, <1>4 DEF SessionOK, OwnMessagesOK, StampOK
<1>8. ProofOK(s)'
  BY <1>1, <1>4 DEF SessionOK, ProofOK, ProvedTo, Admitted
<1>9. VerdictOK(s)'
  <2>1. toIni[s] = None /\ ini[s] \in {"idle", "greeted", "failed"}
    BY <1>1, <1>4 DEF SessionOK, MessagesOK
  <2> QED
    BY <1>1, <1>4, <2>1 DEF SessionOK, VerdictOK, Late, Unchallenged, Open
<1> QED
  BY <1>2, <1>3, <1>4, <1>5, <1>6, <1>7, <1>8, <1>9, SessionStep DEF SessionOK

LEMMA ReadHelloIInv ==
  ASSUME IInv, NEW s \in Sessions, read_hello(s)
  PROVE  IInv'
<1> USE Constants, SideFacts DEF read_hello, taskVars
<1> DEFINE x == <<s, ROLE_INITIATOR>>
           y == <<s, ROLE_ACCEPTOR>>
<1>1. TypeOK /\ SessionOK(s) /\ AnswersOnlyVerified
  BY DEF IInv
<1>2. acc[s] = "reading" /\ To[s] \in Ours /\ toAcc[s].nonce \in Sides
  BY <1>1 DEF SessionOK, MessagesOK, MutualHello
<1>3. unix_secs(To[s], now) \in Nat
  BY <1>1, ClockType, ClockAssumption DEF TypeOK
<1>4. TypeOK'
  BY <1>1, <1>2, <1>3 DEF TypeOK
<1>5. \A r \in Sessions : r # s => Same(r)
  BY <1>1 DEF TypeOK, Same
<1>6. /\ acc'[s] = "signing" /\ toAcc'[s] = None
      /\ peerNonce'[y] \in Sides /\ time'[y] \in Nat
      /\ \A r \in Sessions :
           /\ peerNonce'[<<r, ROLE_INITIATOR>>] = peerNonce[<<r, ROLE_INITIATOR>>]
           /\ time'[<<r, ROLE_INITIATOR>>] = time[<<r, ROLE_INITIATOR>>]
      /\ UNCHANGED <<now, ini, toIni, close, proof, issued, allowed>>
  BY <1>1, <1>2, <1>3 DEF TypeOK
<1> HIDE DEF read_hello
<1>7. SignersSignForThemselves' /\ TrustIsMutual' /\ AnswersOnlyVerified'
  BY <1>1, <1>6, AnswersKept DEF IInv, SignersSignForThemselves, TrustIsMutual
<1>8. MessagesOK(s)'
  BY <1>1, <1>2, <1>6 DEF SessionOK, MessagesOK
<1>9. OwnMessagesOK(s)' /\ StampOK(s)'
  BY <1>1, <1>6 DEF SessionOK, OwnMessagesOK, StampOK
<1>10. ProofOK(s)'
  BY <1>1, <1>2, <1>6 DEF SessionOK, ProofOK, ProvedTo, Admitted
<1>11. VerdictOK(s)'
  BY <1>1, <1>2, <1>6 DEF SessionOK, VerdictOK, Late, Unchallenged, Open
<1> QED
  BY <1>4, <1>5, <1>6, <1>7, <1>8, <1>9, <1>10, <1>11, SessionStep DEF SessionOK

LEMMA SendChallengeIInv ==
  ASSUME IInv, NEW s \in Sessions, send_challenge(s)
  PROVE  IInv'
<1> USE Constants, SideFacts DEF sideVars, taskVars
<1> DEFINE y == <<s, ROLE_ACCEPTOR>>
           sig == Signature(KeyOf[To[s]],
                    mutual_transcript(ROLE_ACCEPTOR, peerNonce[y], To[s], time[y]))
           m == [version |-> PROTOCOL_VERSION, nonce |-> y, key |-> KeyOf[To[s]],
                 sig |-> sig, time |-> time[y]]
<1>1. TypeOK /\ SessionOK(s)
  BY DEF IInv
<1>2. /\ acc[s] = "signing" /\ peerNonce[y] \in Sides /\ time[y] \in Nat
      /\ toAcc[s] = None /\ To[s] \in Ours
  BY <1>1 DEF SessionOK, MessagesOK, send_challenge
<1>3. /\ sig \in Signatures /\ sig.key = KeyOf[To[s]]
      /\ sig.text.id = To[s] /\ sig.text.role = ROLE_ACCEPTOR
      /\ m \in MutualChallenge /\ m.sig = sig
      /\ m.version = PROTOCOL_VERSION /\ m.nonce = y
  BY <1>2 DEF Signature, mutual_transcript, Signatures, MutualChallenge, Versions,
              PROTOCOL_VERSION
<1>4. /\ acc' = [acc EXCEPT ![s] = "challenged"]
      /\ toIni' = [toIni EXCEPT ![s] = IF Open(s) THEN m ELSE @]
      /\ issued' = issued \cup {sig}
      /\ UNCHANGED <<now, spawned, stopped, ini, toAcc, close, peerNonce, time, proof, allowed>>
  BY DEF send_challenge, Delivered, OwnSignature, Signature, Nonce
<1> HIDE DEF sig, m
<1>5. TypeOK'
  BY <1>1, <1>3, <1>4 DEF TypeOK
<1>6. \A r \in Sessions : r # s => Same(r)
  BY <1>1, <1>4 DEF TypeOK, Same
<1>7. SignersSignForThemselves' /\ TrustIsMutual'
  BY <1>3, <1>4 DEF IInv, SignersSignForThemselves, TrustIsMutual
<1>8. AnswersOnlyVerified'
  BY <1>3, <1>4 DEF IInv, AnswersOnlyVerified
<1>9. acc'[s] = "challenged" /\ toIni'[s] = IF Open(s) THEN m ELSE toIni[s]
  BY <1>1, <1>4 DEF TypeOK
<1>10. MessagesOK(s)'
  BY <1>1, <1>2, <1>3, <1>4, <1>9 DEF SessionOK, MessagesOK
<1>11. OwnMessagesOK(s)' /\ StampOK(s)'
  BY <1>1, <1>2, <1>4, <1>9 DEF SessionOK, OwnMessagesOK, StampOK
<1>12. ProofOK(s)'
  BY <1>1, <1>2, <1>4, <1>9 DEF SessionOK, ProofOK, ProvedTo, Admitted
<1>13. VerdictOK(s)'
  BY <1>1, <1>2, <1>4, <1>9 DEF SessionOK, VerdictOK, Late, Unchallenged, Open
<1> QED
  BY <1>4, <1>5, <1>6, <1>7, <1>8, <1>10, <1>11, <1>12, <1>13, SessionStep
     DEF SessionOK

LEMMA ReadResponseIInv ==
  ASSUME IInv, NEW s \in Sessions, read_response(s)
  PROVE  IInv'
<1> USE Constants, SideFacts
<1> DEFINE m == toAcc[s]
           x == <<s, ROLE_INITIATOR>>
           y == <<s, ROLE_ACCEPTOR>>
<1>1. TypeOK /\ SessionOK(s) /\ AnswersOnlyVerified
  BY DEF IInv
<1>2. /\ acc[s] = "challenged" /\ m # None /\ To[s] \in Ours
      /\ m.sig \in Signatures /\ m.sig.key = KeyOf[m.sig.text.id] /\ m.time \in Nat
      /\ proof[y] = None
  BY <1>1 DEF SessionOK, MessagesOK, ProofOK, MutualResponse, read_response
<1>3. TypeOK'
  BY <1>1, <1>2 DEF TypeOK, read_response, Keep, taskVars
<1>4. \A r \in Sessions : r # s => Same(r)
  BY <1>1 DEF TypeOK, Same, read_response, Keep
<1>5. /\ acc'[s] \in {"verified", "refused"} /\ toAcc'[s] = None
      /\ acc'[s] = "verified" => Verified(s, ROLE_ACCEPTOR, m) /\ proof'[y] = m.sig
      /\ acc'[s] = "refused" => ~Verified(s, ROLE_ACCEPTOR, m) /\ proof'[y] = None
      /\ \A r \in Sessions : proof'[<<r, ROLE_INITIATOR>>] = proof[<<r, ROLE_INITIATOR>>]
      /\ UNCHANGED <<now, ini, toIni, close, peerNonce, time, issued, allowed>>
  BY <1>1, <1>2 DEF TypeOK, read_response, Keep
<1>6. SignersSignForThemselves' /\ TrustIsMutual' /\ AnswersOnlyVerified'
  BY <1>1, <1>5, AnswersKept DEF IInv, SignersSignForThemselves, TrustIsMutual
<1>7. MessagesOK(s)'
  BY <1>1, <1>2, <1>5 DEF SessionOK, MessagesOK
<1>8. OwnMessagesOK(s)' /\ StampOK(s)'
  BY <1>1, <1>5 DEF SessionOK, OwnMessagesOK, StampOK
<1>9. From[s] \in Ours => /\ m = Response(s) /\ Asserted(s) /\ proof[x] # None
                          /\ time[x] \in Nat
  <2>1. From[s] \in Ours => m = Response(s) /\ Asserted(s) /\ proof[x] # None
    BY <1>1, <1>2 DEF SessionOK, OwnMessagesOK
  <2> QED
    BY <1>2, <2>1 DEF Response
<1>10. ProofOK(s)'
  <2>1. acc'[s] = "verified" => ProvedTo(s, ROLE_ACCEPTOR)'
    BY <1>2, <1>5, VerifiedPeer DEF ProvedTo
  <2>2. proof[x] # None => ProvedTo(s, ROLE_INITIATOR)'
    BY <1>1, <1>5 DEF SessionOK, ProofOK, ProvedTo
  <2> QED
    BY <1>1, <1>2, <1>5, <1>9, <2>1, <2>2 DEF SessionOK, ProofOK, Admitted
<1>11. VerdictOK(s)'
  <2>1. From[s] \in Ours /\ KeyOf[From[s]] \in Roster[To[s]] /\ acc'[s] = "refused"
          => Late(s)'
    <3>1. now \in Nat
      BY <1>1, ClockAssumption DEF TypeOK
    <3>2. From[s] \in Ours /\ KeyOf[From[s]] \in Roster[To[s]] /\ acc'[s] = "refused"
            => Delayed(s)
      BY <1>1, <1>5, <1>9, <3>1, RefusedResponse DEF SessionOK
    <3>3. Delayed(s) => Delayed(s)'
      BY <1>5 DEF Delayed
    <3> QED
      BY <1>5, <1>9, <3>2, <3>3 DEF Late, Asserted
  <2> QED
    BY <1>1, <1>2, <1>5, <2>1 DEF SessionOK, VerdictOK, Late, Unchallenged, Open
<1> QED
  BY <1>3, <1>4, <1>5, <1>6, <1>7, <1>8, <1>10, <1>11, SessionStep DEF SessionOK

LEMMA AcceptFailsIInv ==
  ASSUME IInv, NEW s \in Sessions, accept_fails(s)
  PROVE  IInv'
<1> USE Constants, SideFacts DEF accept_fails, sideVars, taskVars
<1>1. TypeOK /\ SessionOK(s) /\ AnswersOnlyVerified
  BY DEF IInv
<1>2. TypeOK'
  BY <1>1 DEF TypeOK
<1>3. \A r \in Sessions : r # s => Same(r)
  BY <1>1 DEF TypeOK, Same
<1>4. /\ acc[s] \in {"reading", "signing", "challenged"} /\ acc'[s] = "refused"
      /\ UNCHANGED <<now, ini, toAcc, toIni, close, peerNonce, time, proof, issued,
                     allowed>>
  BY <1>1 DEF TypeOK
<1>5. To[s] \in Ours
  BY <1>1, <1>4 DEF SessionOK, MessagesOK
<1>6. From[s] \in Ours => ~Open(s) \/ acc[s] = "signing"
  <2>1. From[s] \in Ours /\ acc[s] = "reading" /\ toAcc[s] # None =>
          toAcc[s].version = PROTOCOL_VERSION
    BY <1>1, <1>5 DEF SessionOK, OwnMessagesOK
  <2> QED
    BY <2>1
<1>7. SignersSignForThemselves' /\ TrustIsMutual' /\ AnswersOnlyVerified'
  BY <1>1, <1>4, AnswersKept DEF IInv, SignersSignForThemselves, TrustIsMutual
<1>8. MessagesOK(s)'
  BY <1>1, <1>4 DEF SessionOK, MessagesOK
<1>9. OwnMessagesOK(s)' /\ StampOK(s)'
  BY <1>1, <1>4 DEF SessionOK, OwnMessagesOK, StampOK
<1>10. ProofOK(s)'
  BY <1>1, <1>4 DEF SessionOK, ProofOK, ProvedTo, Admitted
<1>11. VerdictOK(s)'
  <2>1. From[s] \in Ours /\ acc[s] = "signing" =>
          toIni[s] = None /\ ini[s] \in {"greeted", "failed"}
    BY <1>1, <1>5 DEF SessionOK, MessagesOK
  <2> QED
    BY <1>1, <1>4, <1>5, <1>6, <2>1 DEF SessionOK, VerdictOK, Late, Unchallenged, Open
<1> QED
  BY <1>2, <1>3, <1>4, <1>7, <1>8, <1>9, <1>10, <1>11, SessionStep DEF SessionOK

\* The acceptor admits its initiator only after each has verified the other.
LEMMA RecordIInv ==
  ASSUME IInv, NEW s \in Sessions, record(s)
  PROVE  IInv'
<1> USE Constants, SideFacts DEF record, sideVars, taskVars
<1>1. TypeOK /\ SessionOK(s) /\ AnswersOnlyVerified
  BY DEF IInv
<1>2. TypeOK'
  BY <1>1 DEF TypeOK
<1>3. \A r \in Sessions : r # s => Same(r)
  BY <1>1 DEF TypeOK, Same
<1>4. /\ acc[s] = "verified" /\ acc'[s] = "recorded"
      /\ \A b \in Endpoints :
           allowed'[b] = IF b = To[s] THEN allowed[b] \cup {From[s]} ELSE allowed[b]
      /\ UNCHANGED <<now, ini, toAcc, toIni, close, peerNonce, time, proof, issued>>
  BY <1>1 DEF TypeOK
<1>5. /\ To[s] \in Ours /\ KeyOf[From[s]] \in Roster[To[s]]
      /\ From[s] \in Ours => KeyOf[To[s]] \in Roster[From[s]]
  BY <1>1, <1>4, ProvedMember DEF SessionOK, MessagesOK, ProofOK
<1>6. SignersSignForThemselves' /\ TrustIsMutual' /\ AnswersOnlyVerified'
  BY <1>1, <1>4, <1>5, AnswersKept DEF IInv, SignersSignForThemselves, TrustIsMutual
<1>7. MessagesOK(s)'
  BY <1>1, <1>4 DEF SessionOK, MessagesOK
<1>8. OwnMessagesOK(s)' /\ StampOK(s)'
  BY <1>1, <1>4 DEF SessionOK, OwnMessagesOK, StampOK
<1>9. ProofOK(s)'
  <2>1. \A role \in Roles : proof'[<<s, role>>] # None => ProvedTo(s, role)'
    BY <1>1, <1>4 DEF SessionOK, ProofOK, ProvedTo
  <2>2. /\ Admitted(To[s], From[s])'
        /\ Admitted(From[s], To[s]) => Admitted(From[s], To[s])'
    BY <1>4 DEF Admitted
  <2> HIDE DEF record
  <2> QED
    BY <1>1, <1>4, <2>1, <2>2 DEF SessionOK, ProofOK
<1>10. VerdictOK(s)'
  BY <1>1, <1>4 DEF SessionOK, VerdictOK, Late, Unchallenged, Open
<1> QED
  BY <1>2, <1>3, <1>4, <1>6, <1>7, <1>8, <1>9, <1>10, SessionStep DEF SessionOK

LEMMA FinishIInv ==
  ASSUME IInv, NEW s \in Sessions, close_accepted(s) \/ close_denied(s)
  PROVE  IInv'
<1> USE Constants, SideFacts
<1> DEFINE code == IF acc[s] = "recorded" THEN CLOSE_ACCEPTED ELSE CLOSE_DENIED
<1>1. TypeOK /\ SessionOK(s) /\ AnswersOnlyVerified
  BY DEF IInv
<1>2. acc[s] \in {"recorded", "refused"} /\ Finish(s, code)
  BY DEF close_accepted, close_denied
<1>3. /\ acc' = [acc EXCEPT ![s] = "done"]
      /\ close' = [close EXCEPT ![s] = IF @ = None THEN code ELSE @]
      /\ UNCHANGED <<now, spawned, stopped, ini, toAcc, toIni, peerNonce, time, proof, issued,
                     allowed>>
  BY <1>2 DEF Finish, CloseWith, sideVars, taskVars
<1>4. TypeOK'
  BY <1>1, <1>3 DEF TypeOK
<1>5. \A r \in Sessions : r # s => Same(r)
  BY <1>1, <1>3 DEF TypeOK, Same
<1>6. SignersSignForThemselves' /\ TrustIsMutual' /\ AnswersOnlyVerified'
  BY <1>1, <1>3, AnswersKept DEF IInv, SignersSignForThemselves, TrustIsMutual
<1>7. acc'[s] = "done" /\ close'[s] = IF Open(s) THEN code ELSE close[s]
  BY <1>1, <1>3 DEF TypeOK, Open
<1>8. MessagesOK(s)'
  BY <1>1, <1>2, <1>3, <1>7 DEF SessionOK, MessagesOK
<1>9. OwnMessagesOK(s)' /\ StampOK(s)'
  BY <1>1, <1>3, <1>7 DEF SessionOK, OwnMessagesOK, StampOK
<1>10. ProofOK(s)'
  BY <1>1, <1>2, <1>3, <1>7 DEF SessionOK, ProofOK, ProvedTo, Admitted
<1>11. VerdictOK(s)'
  BY <1>1, <1>2, <1>3, <1>7
     DEF SessionOK, VerdictOK, ProofOK, Late, Delayed, Unchallenged, Asserted, Open
<1> QED
  BY <1>3, <1>4, <1>5, <1>6, <1>8, <1>9, <1>10, <1>11, SessionStep DEF SessionOK
-----------------------------------------------------------------------------
(***************************************************************************)
(* Tasks that start, time, the network, and foreign endpoints.               *)
(***************************************************************************)
LEMMA QuietIInv ==
  ASSUME IInv, TypeOK', now <= now',
         UNCHANGED <<ini, acc, toAcc, toIni, close, sideVars, issued, allowed>>
  PROVE  IInv'
<1> USE DEF sideVars, taskVars
<1>1. now \in Nat /\ now' \in Nat
  BY ClockAssumption DEF IInv, TypeOK
<1>2. SignersSignForThemselves' /\ TrustIsMutual' /\ AnswersOnlyVerified'
  BY AnswersKept DEF IInv, SignersSignForThemselves, TrustIsMutual
<1>3. \A r \in Sessions : Same(r) /\ SessionOK(r)
  BY DEF IInv, Same
<1>4. \A r \in Sessions : SessionOK(r)'
  BY <1>1, <1>3, SameSession
<1> QED
  BY <1>2, <1>4 DEF IInv

LEMMA SpawnIInv ==
  ASSUME IInv, NEW e \in Endpoints, spawn(e) \/ drop_guard(e)
  PROVE  IInv'
<1>1. TypeOK'
  BY DEF IInv, TypeOK, spawn, drop_guard, sideVars
<1>2. now <= now'
  BY ClockAssumption DEF IInv, TypeOK, spawn, drop_guard
<1> QED
  BY <1>1, <1>2, QuietIInv DEF spawn, drop_guard

LEMMA TickIInv ==
  ASSUME IInv, tick
  PROVE  IInv'
<1>1. TypeOK' /\ now <= now'
  BY ClockAssumption DEF IInv, TypeOK, tick, sideVars, taskVars
<1> QED
  BY <1>1, QuietIInv DEF tick

\* Nothing that the network does to a connection is taken for a verdict.
LEMMA LoseIInv ==
  ASSUME IInv, NEW s \in Sessions, lose(s)
  PROVE  IInv'
<1> USE Constants, SideFacts DEF lose, sideVars, taskVars
<1>1. TypeOK /\ SessionOK(s) /\ AnswersOnlyVerified
  BY DEF IInv
<1>2. TypeOK'
  BY <1>1 DEF TypeOK
<1>3. \A r \in Sessions : r # s => Same(r)
  BY <1>1 DEF TypeOK, Same
<1>4. /\ close'[s] = Lost
      /\ UNCHANGED <<now, ini, acc, toAcc, toIni, peerNonce, time, proof, issued,
                     allowed>>
  BY <1>1 DEF TypeOK
<1>5. SignersSignForThemselves' /\ TrustIsMutual' /\ AnswersOnlyVerified'
  BY <1>1, <1>4, AnswersKept DEF IInv, SignersSignForThemselves, TrustIsMutual
<1>6. MessagesOK(s)' /\ StampOK(s)'
  BY <1>1, <1>4 DEF SessionOK, MessagesOK, StampOK
<1>7. OwnMessagesOK(s)'
  BY <1>1, <1>4 DEF SessionOK, OwnMessagesOK, Response, Asserted
<1>8. ProofOK(s)'
  BY <1>1, <1>4 DEF SessionOK, ProofOK, ProvedTo, Admitted
<1>9. VerdictOK(s)'
  BY <1>1, <1>4 DEF SessionOK, VerdictOK, Late, Delayed, Unchallenged, Asserted, Open
<1> QED
  BY <1>2, <1>3, <1>4, <1>5, <1>6, <1>7, <1>8, <1>9, SessionStep DEF SessionOK

\* A foreign initiator: what it sends is a greeting, or signed for its signer.
LEMMA ForeignInitiatorIInv ==
  ASSUME IInv, NEW s \in Sessions, foreign_hello(s) \/ foreign_response(s)
  PROVE  IInv'
<1> USE Constants, SideFacts
<1>1. TypeOK /\ SessionOK(s) /\ AnswersOnlyVerified
  BY DEF IInv
<1>2. PICK m : /\ toAcc' = Delivered(s, toAcc, m)
               /\ \/ m \in MutualHello /\ acc[s] = "reading"
                  \/ /\ m \in MutualResponse /\ acc[s] = "challenged"
                     /\ m.sig.key = KeyOf[m.sig.text.id]
  <2>1. CASE foreign_hello(s)
    <3>1. PICK v \in Versions, n \in Known :
            toAcc' = Delivered(s, toAcc, [version |-> v, nonce |-> n])
      BY <2>1 DEF foreign_hello
    <3>2. [version |-> v, nonce |-> n] \in MutualHello /\ acc[s] = "reading"
      BY <2>1 DEF foreign_hello, MutualHello, Known
    <3> QED
      BY <3>1, <3>2
  <2>2. CASE foreign_response(s)
    <3>1. PICK sig \in ForeignSignatures, t \in ForeignTimes :
            toAcc' = Delivered(s, toAcc, [key |-> sig.key, sig |-> sig, time |-> t])
      BY <2>2 DEF foreign_response
    <3> DEFINE a == [key |-> sig.key, sig |-> sig, time |-> t]
    <3>2. sig \in Signatures /\ sig.key = KeyOf[sig.text.id] /\ t \in Nat
      BY ForeignSignature, ClockAssumption
    <3>3. a \in MutualResponse /\ a.sig = sig
      BY <3>2 DEF MutualResponse, Signatures
    <3>4. acc[s] = "challenged" /\ a.sig.key = KeyOf[a.sig.text.id]
      BY <2>2, <3>2, <3>3 DEF foreign_response
    <3> HIDE DEF a
    <3> QED
      BY <3>1, <3>3, <3>4 DEF a
  <2> QED
    BY <2>1, <2>2
<1>3. /\ From[s] \notin Ours
      /\ UNCHANGED <<now, spawned, stopped, ini, acc, toIni, close, peerNonce, time, proof,
                     issued, allowed>>
  BY DEF foreign_hello, foreign_response, sideVars, taskVars
<1>4. TypeOK'
  BY <1>1, <1>2, <1>3 DEF TypeOK, Delivered
<1>5. \A r \in Sessions : r # s => Same(r)
  BY <1>1, <1>2, <1>3 DEF TypeOK, Same, Delivered
<1>6. SignersSignForThemselves' /\ TrustIsMutual' /\ AnswersOnlyVerified'
  BY <1>1, <1>3, AnswersKept DEF IInv, SignersSignForThemselves, TrustIsMutual
<1>7. toAcc'[s] = IF Open(s) THEN m ELSE toAcc[s]
  BY <1>1, <1>2 DEF TypeOK, Delivered
<1>8. MessagesOK(s)'
  BY <1>1, <1>2, <1>3, <1>7 DEF SessionOK, MessagesOK
<1>9. OwnMessagesOK(s)' /\ StampOK(s)' /\ VerdictOK(s)'
  BY <1>1, <1>3 DEF SessionOK, OwnMessagesOK, StampOK, VerdictOK
<1>10. ProofOK(s)'
  BY <1>1, <1>3 DEF SessionOK, ProofOK, ProvedTo, Admitted
<1> QED
  BY <1>3, <1>4, <1>5, <1>6, <1>8, <1>9, <1>10, SessionStep DEF SessionOK

\* A foreign acceptor: what it asserts is signed for its signer.
LEMMA ForeignChallengeIInv ==
  ASSUME IInv, NEW s \in Sessions, foreign_challenge(s)
  PROVE  IInv'
<1> USE Constants, SideFacts DEF sideVars, taskVars
<1>1. TypeOK /\ SessionOK(s) /\ AnswersOnlyVerified
  BY DEF IInv
<1>2. PICK m \in MutualChallenge :
        /\ toIni' = [toIni EXCEPT ![s] = IF Open(s) THEN m ELSE @]
        /\ m.sig.key = KeyOf[m.sig.text.id]
  <2>1. PICK v \in Versions, n \in Known, sig \in ForeignSignatures, t \in ForeignTimes :
          toIni' = Delivered(s, toIni, [version |-> v, nonce |-> n, key |-> sig.key,
                                        sig |-> sig, time |-> t])
    BY DEF foreign_challenge
  <2> DEFINE a == [version |-> v, nonce |-> n, key |-> sig.key, sig |-> sig, time |-> t]
  <2>2. sig \in Signatures /\ sig.key = KeyOf[sig.text.id] /\ t \in Nat /\ n \in Sides
    BY ForeignSignature, ClockAssumption DEF Known
  <2>3. a \in MutualChallenge /\ a.sig = sig
    BY <2>2 DEF MutualChallenge, Signatures
  <2> HIDE DEF a
  <2> QED
    BY <2>1, <2>2, <2>3 DEF a, Delivered
<1>3. /\ To[s] \notin Ours
      /\ UNCHANGED <<now, spawned, stopped, ini, acc, toAcc, close, peerNonce, time, proof,
                     issued, allowed>>
  BY DEF foreign_challenge
<1>4. TypeOK'
  BY <1>1, <1>2, <1>3 DEF TypeOK
<1>5. \A r \in Sessions : r # s => Same(r)
  BY <1>1, <1>2, <1>3 DEF TypeOK, Same
<1>6. SignersSignForThemselves' /\ TrustIsMutual' /\ AnswersOnlyVerified'
  BY <1>1, <1>3, AnswersKept DEF IInv, SignersSignForThemselves, TrustIsMutual
<1>7. toIni'[s] = IF Open(s) THEN m ELSE toIni[s]
  BY <1>1, <1>2 DEF TypeOK
<1>8. MessagesOK(s)'
  BY <1>1, <1>2, <1>3, <1>7 DEF SessionOK, MessagesOK
<1>9. OwnMessagesOK(s)' /\ StampOK(s)' /\ VerdictOK(s)'
  BY <1>1, <1>3 DEF SessionOK, OwnMessagesOK, StampOK, VerdictOK
<1>10. ProofOK(s)'
  BY <1>1, <1>3 DEF SessionOK, ProofOK, ProvedTo, Admitted
<1> QED
  BY <1>3, <1>4, <1>5, <1>6, <1>8, <1>9, <1>10, SessionStep DEF SessionOK

LEMMA ForeignCloseIInv ==
  ASSUME IInv, NEW s \in Sessions, foreign_close(s)
  PROVE  IInv'
<1> USE Constants, SideFacts DEF foreign_close, sideVars, taskVars
<1>1. TypeOK /\ SessionOK(s) /\ AnswersOnlyVerified
  BY DEF IInv
<1>2. PICK code \in Nat : close' = [close EXCEPT ![s] = code]
  BY WireAssumption
<1>3. TypeOK'
  BY <1>1, <1>2 DEF TypeOK
<1>4. \A r \in Sessions : r # s => Same(r)
  BY <1>1, <1>2 DEF TypeOK, Same
<1>5. /\ ~(From[s] \in Ours /\ To[s] \in Ours)
      /\ UNCHANGED <<now, ini, acc, toAcc, toIni, peerNonce, time, proof, issued, allowed>>
  OBVIOUS
<1>6. SignersSignForThemselves' /\ TrustIsMutual' /\ AnswersOnlyVerified'
  BY <1>1, <1>5, AnswersKept DEF IInv, SignersSignForThemselves, TrustIsMutual
<1>7. MessagesOK(s)' /\ OwnMessagesOK(s)' /\ StampOK(s)' /\ VerdictOK(s)'
  BY <1>1, <1>5 DEF SessionOK, MessagesOK, OwnMessagesOK, StampOK, VerdictOK
<1>8. ProofOK(s)'
  BY <1>1, <1>5 DEF SessionOK, ProofOK, ProvedTo, Admitted
<1> QED
  BY <1>3, <1>4, <1>5, <1>6, <1>7, <1>8, SessionStep DEF SessionOK

LEMMA NextIInv ==
  ASSUME IInv, [Next]_vars
  PROVE  IInv'
<1>1. CASE UNCHANGED vars
  <2>1. TypeOK'
    BY <1>1 DEF IInv, TypeOK, vars, sideVars, taskVars
  <2>2. now <= now'
    BY <1>1, ClockAssumption DEF IInv, TypeOK, vars
  <2> QED
    BY <1>1, <2>1, <2>2, QuietIInv DEF vars
<1>2. CASE tick \/ \E e \in Endpoints : spawn(e) \/ drop_guard(e)
  BY <1>2, TickIInv, SpawnIInv
<1>3. ASSUME NEW s \in Sessions, Initiator(s) \/ abort(s)
      PROVE  IInv'
  <2>1. CASE refuse_challenge(s) \/ handshake_fails(s) \/ abort(s)
    BY <2>1, FailIInv DEF refuse_challenge, handshake_fails, abort, IInv, TypeOK
  <2> QED
    BY <1>3, <2>1, GreetIInv, ReadChallengeIInv, RespondIInv, ReadVerdictIInv,
       HandleCompletionIInv DEF Initiator
<1>4. ASSUME NEW s \in Sessions, Acceptor(s)
      PROVE  IInv'
  BY <1>4, AcceptIInv, ReadHelloIInv, SendChallengeIInv, ReadResponseIInv,
     AcceptFailsIInv, RecordIInv, FinishIInv DEF Acceptor
<1>5. ASSUME NEW s \in Sessions, Foreign(s) \/ lose(s)
      PROVE  IInv'
  BY <1>5, ForeignInitiatorIInv, ForeignChallengeIInv, ForeignCloseIInv, LoseIInv
     DEF Foreign
<1> QED
  BY <1>1, <1>2, <1>3, <1>4, <1>5 DEF Next

\* The inductive invariant holds of every reachable state of the mutual exchange.
THEOREM Invariance == Spec => []IInv
<1>1. Init => IInv
  BY InitIInv
<1>2. IInv /\ [Next]_vars => IInv'
  BY NextIInv
<1> QED
  BY <1>1, <1>2, PTL DEF Spec
-----------------------------------------------------------------------------
(***************************************************************************)
(* The second invariant.                                                     *)
(***************************************************************************)

\* A code that one of our endpoints closes with is understood.
LEMMA VerdictOfClose ==
  /\ Verdict(CLOSE_ACCEPTED) = "ok"
  /\ Verdict(CLOSE_DENIED) = "denied"
<1>1. U32 \in Nat /\ 403 < U32 /\ Lost \notin Nat
  BY WireAssumption DEF CLOSE_DENIED
<1>2. 1 % U32 = 1 /\ 403 % U32 = 403 /\ 1 # Lost /\ 403 # Lost
  BY <1>1
<1> QED
  BY <1>2 DEF Verdict, CLOSE_ACCEPTED, CLOSE_DENIED

\* No step takes back what the sets rest on.
LEMMA AllowedKept ==
  ASSUME AllowedOK, UNCHANGED allowed,
         \A r \in Sessions :
           /\ proof[<<r, ROLE_ACCEPTOR>>] # None => proof'[<<r, ROLE_ACCEPTOR>>] # None
           /\ ini[r] = "recorded" => ini'[r] = "recorded"
  PROVE  AllowedOK'
  BY DEF AllowedOK

\* A step of session s preserves the second invariant if it does so for s.
LEMMA OutcomeStep ==
  ASSUME RestInv, NEW s \in Sessions, \A r \in Sessions : r # s => Same(r),
         spawned \subseteq spawned', stopped \subseteq stopped',
         AllowedOK', OutcomeOK(s)'
  PROVE  RestInv'
<1>1. ASSUME NEW r \in Sessions, r # s
      PROVE  OutcomeOK(r)'
  <2>1. OutcomeOK(r) /\ Same(r)
    BY <1>1 DEF RestInv
  <2>2. proof'[<<r, ROLE_ACCEPTOR>>] = proof[<<r, ROLE_ACCEPTOR>>]
    BY <2>1, SideFacts DEF Same
  <2>3. Answered(r)' = Answered(r)
    BY <2>1, <2>2 DEF Same, Answered
  <2> QED
    BY <2>1, <2>2, <2>3 DEF OutcomeOK, Asserted, Same
<1> QED
  BY <1>1 DEF RestInv

LEMMA InitRest ==
  ASSUME Init
  PROVE  RestInv
<1>1. AllowedOK
  BY Constants DEF Init, WireInit, AllowedOK
<1>2. ASSUME NEW s \in Sessions
      PROVE  OutcomeOK(s)
  <2>1. /\ ini[s] = "idle" /\ acc[s] = "idle" /\ close[s] = None
        /\ proof[<<s, ROLE_ACCEPTOR>>] = None
    BY SideFacts DEF Init, WireInit
  <2> QED
    BY <2>1, Constants DEF OutcomeOK, Answered
<1> QED
  BY <1>1, <1>2 DEF RestInv

\* The initiator's steps, but for the join.
LEMMA HandshakeRest ==
  ASSUME IInv, RestInv, NEW s \in Sessions,
         \/ greet(s) \/ read_challenge(s) \/ refuse_challenge(s) \/ handshake_fails(s)
         \/ respond(s) \/ read_verdict(s) \/ abort(s)
  PROVE  RestInv'
<1> USE Constants, SideFacts
<1>1. TypeOK /\ SessionOK(s) /\ OutcomeOK(s) /\ AllowedOK
  BY DEF IInv, RestInv
<1>2. UNCHANGED <<acc, allowed, spawned, stopped>>
  BY DEF abort, greet, read_challenge, refuse_challenge, handshake_fails, respond,
         read_verdict, Fail, taskVars
<1>3. \A r \in Sessions : r # s => Same(r)
  BY <1>1 DEF abort, greet, read_challenge, refuse_challenge, handshake_fails, respond,
              read_verdict, Fail, Keep, TypeOK, Same, Delivered, CloseWith, sideVars
<1>4. proof'[<<s, ROLE_ACCEPTOR>>] = proof[<<s, ROLE_ACCEPTOR>>]
  BY <1>1 DEF abort, greet, read_challenge, refuse_challenge, handshake_fails, respond,
              read_verdict, Fail, Keep, TypeOK, sideVars
<1>5. ini[s] # "recorded"
  BY DEF abort, greet, read_challenge, refuse_challenge, handshake_fails, respond,
         read_verdict
<1>6. AllowedOK'
  BY <1>1, <1>2, <1>3, <1>4, <1>5, AllowedKept DEF Same
<1>7. CASE greet(s) \/ read_challenge(s)
  <2>1. /\ ini[s] \in {"idle", "greeted"} /\ ini'[s] \in {"greeted", "signing"}
        /\ From[s] \in spawned /\ UNCHANGED close
        /\ toAcc'[s] = toAcc[s] \/ acc[s] = "idle"
    BY <1>1, <1>7 DEF greet, read_challenge, TypeOK, OutcomeOK, SessionOK, MessagesOK
  <2>2. From[s] \in Ours /\ To[s] \in Ours => ~Answered(s)
    BY <1>1, <2>1 DEF OutcomeOK, Asserted
  <2>3. From[s] \in Ours /\ To[s] \in Ours => ~Answered(s)'
    BY <1>2, <1>4, <2>1, <2>2 DEF Answered
  <2> QED
    BY <1>1, <1>2, <1>3, <1>4, <1>6, <2>1, <2>3, OutcomeStep DEF OutcomeOK
<1>8. CASE refuse_challenge(s) \/ handshake_fails(s) \/ abort(s)
  <2>1. /\ ini[s] \in {"greeted", "signing", "awaiting"} /\ ini'[s] = "failed"
        /\ ini[s] = "awaiting" => From[s] \in stopped
        /\ \/ close'[s] = close[s]
           \/ close[s] = None /\ close'[s] = DROPPED
           \/ close[s] = None /\ close'[s] = CLOSE_DENIED /\ ini[s] = "greeted"
        /\ UNCHANGED toAcc
    BY <1>1, <1>8 DEF refuse_challenge, handshake_fails, abort, Fail, CloseWith, TypeOK
  <2>2. Answered(s)' = Answered(s)
    BY <1>2, <1>4, <2>1 DEF Answered
  <2>3. From[s] \in Ours /\ To[s] \in Ours /\ Answered(s) => ini[s] = "awaiting"
    BY <1>1, <2>1 DEF OutcomeOK, Asserted
  <2>4. OutcomeOK(s)'
    BY <1>1, <1>2, <1>4, <2>1, <2>2, <2>3 DEF OutcomeOK, Asserted
  <2> QED
    BY <1>2, <1>3, <1>6, <2>4, OutcomeStep
<1>9. CASE respond(s)
  <2>1. /\ ini[s] = "signing" /\ ini'[s] = "awaiting" /\ UNCHANGED close
        /\ toAcc'[s] # toAcc[s] => close[s] = None
    BY <1>1, <1>9 DEF respond, Delivered, Open, TypeOK
  <2>2. From[s] \in Ours /\ To[s] \in Ours => ~Answered(s)
    BY <1>1, <2>1 DEF OutcomeOK, Asserted
  <2>3. From[s] \in Ours /\ To[s] \in Ours /\ Answered(s)' => close[s] = None
    BY <1>2, <1>4, <2>1, <2>2 DEF Answered
  <2>4. OutcomeOK(s)'
    BY <1>1, <1>2, <1>4, <2>1, <2>3 DEF OutcomeOK, Asserted
  <2> QED
    BY <1>2, <1>3, <1>6, <2>4, OutcomeStep
<1>10. CASE read_verdict(s)
  <2>1. /\ ini[s] = "awaiting" /\ ini'[s] = Verdict(close[s]) /\ close[s] # None
        /\ UNCHANGED <<close, toAcc>>
    BY <1>1, <1>10 DEF read_verdict, Open, TypeOK
  <2>2. ini'[s] \in {"ok", "denied", "failed"}
    BY <2>1, VerdictType
  <2>3. From[s] \in Ours /\ To[s] \in Ours =>
          /\ ini'[s] = "denied" => close[s] = CLOSE_DENIED
          /\ ini'[s] = "failed" => close[s] \in {Lost, DROPPED}
          /\ close[s] # DROPPED
    BY <1>1, <2>1, VerdictOfCode, VerdictOfClose DEF SessionOK, VerdictOK, OutcomeOK
  <2>4. Answered(s)' = Answered(s)
    BY <1>2, <1>4, <2>1 DEF Answered
  <2>5. OutcomeOK(s)'
    BY <1>1, <1>2, <1>4, <2>1, <2>2, <2>3, <2>4 DEF OutcomeOK, Asserted
  <2> QED
    BY <1>2, <1>3, <1>6, <2>5, OutcomeStep
<1> QED
  BY <1>7, <1>8, <1>9, <1>10

\* The two steps that add to a set.
LEMMA InsertRest ==
  ASSUME IInv, RestInv, NEW s \in Sessions, handle_completion(s) \/ record(s)
  PROVE  RestInv'
<1> USE Constants, SideFacts
<1>1. TypeOK /\ SessionOK(s) /\ OutcomeOK(s) /\ AllowedOK
  BY DEF IInv, RestInv
<1>2. /\ UNCHANGED <<spawned, stopped, proof, toAcc, close>>
      /\ \A r \in Sessions : r # s => Same(r)
      /\ \/ /\ ini[s] = "ok" /\ ini'[s] = "recorded" /\ UNCHANGED acc
            /\ allowed' = [allowed EXCEPT ![From[s]] = @ \cup {To[s]}]
         \/ /\ acc[s] = "verified" /\ acc'[s] = "recorded" /\ UNCHANGED ini
            /\ allowed' = [allowed EXCEPT ![To[s]] = @ \cup {From[s]}]
            /\ proof[<<s, ROLE_ACCEPTOR>>] # None
  BY <1>1 DEF handle_completion, record, TypeOK, Same, taskVars, sideVars, SessionOK,
              ProofOK
<1>3. AllowedOK'
  <2>1. SUFFICES ASSUME NEW x \in Ours, NEW e \in allowed'[x]
                 PROVE  \E r \in Sessions :
                          \/ From[r] = e /\ To[r] = x /\ proof[<<r, ROLE_ACCEPTOR>>] # None
                          \/ From[r] = x /\ To[r] = e /\ ini'[r] = "recorded"
    BY <1>2 DEF AllowedOK
  <2>2. CASE e \in allowed[x]
    <3>1. PICK r \in Sessions :
            \/ From[r] = e /\ To[r] = x /\ proof[<<r, ROLE_ACCEPTOR>>] # None
            \/ From[r] = x /\ To[r] = e /\ ini[r] = "recorded"
      BY <1>1, <2>2 DEF AllowedOK
    <3>2. ini[r] = "recorded" => ini'[r] = "recorded"
      BY <1>2 DEF Same
    <3> QED
      BY <3>1, <3>2
  <2>3. CASE e \notin allowed[x]
    <3>1. \/ x = From[s] /\ e = To[s] /\ ini'[s] = "recorded"
          \/ x = To[s] /\ e = From[s] /\ proof[<<s, ROLE_ACCEPTOR>>] # None
      BY <1>1, <1>2, <2>3 DEF TypeOK
    <3> QED
      BY <3>1
  <2> QED
    BY <2>2, <2>3
<1>4. Answered(s)' = Answered(s)
  BY <1>1, <1>2 DEF Answered
<1>5. OutcomeOK(s)'
  BY <1>1, <1>2, <1>4 DEF OutcomeOK, Asserted
<1> QED
  BY <1>2, <1>3, <1>5, OutcomeStep

\* The acceptor's other steps.
LEMMA AcceptorRest ==
  ASSUME IInv, RestInv, NEW s \in Sessions,
         \/ accept(s) \/ read_hello(s) \/ send_challenge(s) \/ read_response(s)
         \/ accept_fails(s) \/ close_accepted(s) \/ close_denied(s)
  PROVE  RestInv'
<1> USE Constants, SideFacts
<1>1. TypeOK /\ SessionOK(s) /\ OutcomeOK(s) /\ AllowedOK
  BY DEF IInv, RestInv
<1>2. UNCHANGED <<ini, allowed, spawned, stopped>>
  BY DEF accept, read_hello, send_challenge, read_response, accept_fails,
         close_accepted, close_denied, Finish, taskVars
<1>3. \A r \in Sessions : r # s => Same(r)
  BY <1>1 DEF accept, read_hello, send_challenge, read_response, accept_fails,
              close_accepted, close_denied, Finish, Keep, TypeOK, Same, Delivered,
              CloseWith, sideVars
<1>4. /\ proof[<<s, ROLE_ACCEPTOR>>] # None => proof'[<<s, ROLE_ACCEPTOR>>] # None
      /\ proof'[<<s, ROLE_ACCEPTOR>>] # proof[<<s, ROLE_ACCEPTOR>>] =>
           acc[s] = "challenged" /\ toAcc[s] # None
  <2>1. read_response(s) => acc[s] = "challenged" /\ toAcc[s] # None /\
                            proof[<<s, ROLE_ACCEPTOR>>] = None
    BY <1>1 DEF read_response, SessionOK, ProofOK
  <2>2. ~read_response(s) => UNCHANGED proof
    BY DEF accept, read_hello, send_challenge, accept_fails, close_accepted,
           close_denied, Finish, sideVars
  <2> QED
    BY <2>1, <2>2
<1>5. AllowedOK'
  BY <1>1, <1>2, <1>3, <1>4, AllowedKept DEF Same
<1>6. Answered(s)' => Answered(s)
  <2>1. acc'[s] = "challenged" => toAcc'[s] = None
    BY <1>1 DEF accept, read_hello, send_challenge, read_response, accept_fails,
                close_accepted, close_denied, Finish, TypeOK, SessionOK, MessagesOK
  <2> QED
    BY <1>4, <2>1 DEF Answered
<1>7. /\ acc'[s] \notin {"idle", "refused", "done"} => To[s] \in spawned
      /\ proof'[<<s, ROLE_ACCEPTOR>>] # None => To[s] \in spawned
  <2>1. acc'[s] \notin {"idle", "refused", "done"} => To[s] \in spawned
    BY <1>1 DEF accept, read_hello, send_challenge, read_response, accept_fails,
                close_accepted, close_denied, Finish, TypeOK, OutcomeOK
  <2> QED
    BY <1>1, <1>4, <2>1 DEF OutcomeOK
<1>8. /\ close'[s] = CLOSE_DENIED /\ close[s] # CLOSE_DENIED =>
           acc[s] = "refused" /\ acc'[s] = "done"
      /\ close'[s] = DROPPED => close[s] = DROPPED
      /\ close[s] = Lost => close'[s] = Lost
  <2>1. close_accepted(s) \/ close_denied(s) \/ UNCHANGED close
    BY DEF accept, read_hello, send_challenge, read_response, accept_fails
  <2> QED
    BY <1>1, <2>1 DEF close_accepted, close_denied, Finish, CloseWith, TypeOK
<1>9. acc[s] = "refused" => ~Answered(s)
  BY <1>1 DEF SessionOK, ProofOK, Answered
<1>10. OutcomeOK(s)'
  BY <1>1, <1>2, <1>6, <1>7, <1>8, <1>9 DEF OutcomeOK, Asserted
<1> QED
  BY <1>2, <1>3, <1>5, <1>10, OutcomeStep

\* The environment's steps.
LEMMA EnvironmentRest ==
  ASSUME IInv, RestInv,
         \/ tick \/ \E e \in Endpoints : spawn(e) \/ drop_guard(e)
         \/ \E s \in Sessions : Foreign(s) \/ lose(s)
         \/ UNCHANGED vars
  PROVE  RestInv'
<1> USE Constants, SideFacts
<1>1. TypeOK /\ AllowedOK /\ \A r \in Sessions : OutcomeOK(r)
  BY DEF IInv, RestInv
<1>2. /\ UNCHANGED <<ini, acc, proof, allowed>>
      /\ spawned \subseteq spawned' /\ stopped \subseteq stopped'
  BY DEF tick, spawn, drop_guard, Foreign, lose, foreign_hello, foreign_challenge,
         foreign_response, foreign_close, vars, sideVars, taskVars
<1>3. AllowedOK'
  BY <1>1, <1>2, AllowedKept
<1>4. ASSUME NEW r \in Sessions
      PROVE  OutcomeOK(r)'
  <2>1. From[r] \in Ours /\ To[r] \in Ours =>
          /\ toAcc'[r] = toAcc[r]
          /\ close'[r] = close[r] \/ close'[r] = Lost
    BY <1>1 DEF tick, spawn, drop_guard, Foreign, lose, foreign_hello,
       foreign_challenge, foreign_response, foreign_close, Delivered, TypeOK, vars
  <2> QED
    BY <1>1, <1>2, <2>1 DEF OutcomeOK, Answered, Asserted
<1> QED
  BY <1>3, <1>4 DEF RestInv

\* The second invariant holds of every reachable state of the mutual exchange.
THEOREM RestInvariance == Spec => []RestInv
<1>1. Init => RestInv
  BY InitRest
<1>2. ASSUME IInv, RestInv, [Next]_vars
      PROVE  RestInv'
  <2>1. ASSUME NEW s \in Sessions, Initiator(s) \/ abort(s) \/ Acceptor(s)
        PROVE  RestInv'
    BY <1>2, <2>1, HandshakeRest, InsertRest, AcceptorRest DEF Initiator, Acceptor
  <2> QED
    BY <1>2, <2>1, EnvironmentRest DEF Next
<1> QED
  BY <1>1, <1>2, Invariance, PTL DEF Spec
-----------------------------------------------------------------------------
(***************************************************************************)
(* What the invariants give.                                                 *)
(***************************************************************************)

\* Every reachable state has its type; in particular a side signs only once it has
\* read a nonce and taken a timestamp.
THEOREM TypeCorrect == Spec => []TypeOK
<1>1. IInv => TypeOK
  BY DEF IInv
<1> QED
  BY <1>1, Invariance, PTL

\* An endpoint is in a set of ours only if the two institutions trust each other,
\* whatever foreign endpoints relay or reuse (mutual.rs: each side verifies before
\* it answers or records).
THEOREM TrustIsMutualAlways == Spec => []TrustIsMutual
<1>1. IInv => TrustIsMutual
  BY DEF IInv
<1> QED
  BY <1>1, Invariance, PTL

\* An initiator proves itself only to an acceptor that it has verified (mutual.rs
\* handshake).
THEOREM AnswersOnlyVerifiedAlways == Spec => []AnswersOnlyVerified
<1>1. IInv => AnswersOnlyVerified
  BY DEF IInv
<1> QED
  BY <1>1, Invariance, PTL

\* No assertion is accepted by two sides, in whatever roles and sessions (the
\* nonces and the role in mutual.rs mutual_transcript).
THEOREM NoReplayAlways == Spec => []NoReplay
<1>1. ASSUME IInv
      PROVE  NoReplay
  <2>1. \A x \in Sides : proof[x] # None => proof[x].text.nonce = x
    <3>1. ASSUME NEW x \in Sides, proof[x] # None
          PROVE  proof[x].text.nonce = x
      <4>1. PICK s \in Sessions, role \in Roles : x = <<s, role>>
        BY DEF Sides
      <4>2. ProofOK(s)
        BY <1>1 DEF IInv, SessionOK
      <4> QED
        BY <3>1, <4>1, <4>2, ProvedMember, SideFacts
    <3> QED
      BY <3>1
  <2> QED
    BY <2>1 DEF NoReplay
<1> QED
  BY <1>1, Invariance, PTL

\* Once a task has joined its successful handshake, both endpoints admit each other
\* and, while their guards are kept, release dials to each other (mutual.rs accept,
\* handle_completion).
THEOREM WorksBothWaysAlways == Spec => []WorksBothWays
<1>1. ASSUME IInv, RestInv, NEW s \in Sessions, From[s] \in Ours, To[s] \in Ours,
             ini[s] = "recorded"
      PROVE  /\ Admitted(To[s], From[s]) /\ Admitted(From[s], To[s])
             /\ From[s] \in spawned /\ To[s] \in spawned
  <2>1. ProofOK(s) /\ VerdictOK(s) /\ OutcomeOK(s)
    BY <1>1 DEF IInv, RestInv, SessionOK
  <2>2. acc[s] = "done" /\ proof[<<s, ROLE_ACCEPTOR>>] # None
    BY <1>1, <2>1 DEF VerdictOK
  <2> QED
    BY <1>1, <2>1, <2>2 DEF ProofOK, OutcomeOK
<1>2. IInv /\ RestInv => WorksBothWays
  BY <1>1 DEF WorksBothWays, Released, Admitted
<1> QED
  BY <1>2, Invariance, RestInvariance, PTL

\* When no handshake is under way, endpoints of ours that release dials to each other
\* also admit them, unless a guard was dropped or the notice of an acceptance was
\* lost (mutual.rs accept, handshake, handle_completion).
THEOREM SymmetricUnlessLostAlways == Spec => []SymmetricUnlessLost
<1>1. ASSUME IInv, RestInv,
             \A s \in Sessions : ini[s] = "idle" \/ Settled(s),
             NEW x \in Ours, NEW e \in Ours, e \in allowed[x], x \notin allowed[e]
      PROVE  \/ e \in stopped
             \/ \E s \in Sessions : From[s] = e /\ To[s] = x /\ close[s] = Lost
  <2>1. PICK s \in Sessions :
          \/ From[s] = e /\ To[s] = x /\ proof[<<s, ROLE_ACCEPTOR>>] # None
          \/ From[s] = x /\ To[s] = e /\ ini[s] = "recorded"
    BY <1>1 DEF RestInv, AllowedOK
  <2>2. ProofOK(s) /\ VerdictOK(s) /\ OutcomeOK(s)
    BY <1>1 DEF IInv, RestInv, SessionOK
  <2>3. ~(From[s] = x /\ To[s] = e /\ ini[s] = "recorded")
    BY <1>1, <2>2 DEF VerdictOK, ProofOK, Admitted
  <2>4. Answered(s) /\ From[s] = e /\ To[s] = x
    BY <2>1, <2>3 DEF Answered
  <2>5. ini[s] # "recorded"
    BY <1>1, <2>2, <2>4 DEF ProofOK, Admitted
  <2>6. ini[s] = "failed" \/ (ini[s] = "ok" /\ From[s] \in stopped)
    BY <1>1, <2>2, <2>4, <2>5 DEF OutcomeOK, Asserted, Settled
  <2> QED
    BY <1>1, <2>2, <2>4, <2>6 DEF OutcomeOK
<1>2. IInv /\ RestInv => SymmetricUnlessLost
  BY <1>1 DEF SymmetricUnlessLost, Released, Admitted
<1> QED
  BY <1>2, Invariance, RestInvariance, PTL

\* Between endpoints that trust each other an answer is denied only for clock error
\* or delay (mutual.rs run_handshake).
THEOREM DeniedOnlyForDelayAlways == Spec => []DeniedOnlyForDelay
<1>1. IInv => DeniedOnlyForDelay
  BY DEF IInv, DeniedOnlyForDelay, SessionOK, VerdictOK, Late, Delayed
<1> QED
  BY <1>1, Invariance, PTL
-----------------------------------------------------------------------------
(***************************************************************************)
(* The refinement: the exchange implements Admission, with trust required in  *)
(* both directions.                                                          *)
(***************************************************************************)
LEMMA AdmissionInit ==
  ASSUME Init
  PROVE  Adm!Init
<1>1. \A s \in Sessions : Decision(s) = "open" /\ Heard(s) = "waiting"
  BY DEF Init, WireInit, Decision, Heard
<1> QED
  BY <1>1 DEF Init, WireInit, Adm!Init

LEMMA SameSeen ==
  ASSUME NEW r \in Sessions, Same(r)
  PROVE  Decision(r)' = Decision(r) /\ Heard(r)' = Heard(r)
  BY SideFacts DEF Same, Decision, Heard

\* A step that neither decides a session nor is heard of.
LEMMA Hidden ==
  ASSUME NEW s \in Sessions, \A r \in Sessions : r # s => Same(r),
         Decision(s)' = Decision(s), Heard(s)' = Heard(s), UNCHANGED allowed
  PROVE  UNCHANGED Adm!vars
<1>1. \A r \in Sessions : Decision(r)' = Decision(r) /\ Heard(r)' = Heard(r)
  BY SameSeen
<1> QED
  BY <1>1 DEF Adm!vars

\* A step by which the initiator hears a verdict, or fails to.
LEMMA Heeded ==
  ASSUME NEW s \in Sessions, \A r \in Sessions : r # s => Same(r),
         Decision(s)' = Decision(s), UNCHANGED allowed,
         Heard(s) = "waiting", Heard(s)' \in {"admitted", "refused"},
         Heard(s)' = "admitted" /\ To[s] \in Ours => Decision(s) = "admitted"
  PROVE  Adm!Next
<1>1. \A r \in Sessions :
        /\ Decision(r)' = Decision(r)
        /\ Heard(r)' = IF r = s THEN Heard(s)' ELSE Heard(r)
  BY SameSeen
<1>2. CASE Heard(s)' = "admitted"
  BY <1>1, <1>2 DEF Adm!Next, Adm!Hear
<1>3. CASE Heard(s)' = "refused"
  BY <1>1, <1>3 DEF Adm!Next, Adm!Hear
<1> QED
  BY <1>2, <1>3

\* A step by which the acceptor refuses.
LEMMA Refused ==
  ASSUME NEW s \in Sessions, \A r \in Sessions : r # s => Same(r),
         Heard(s)' = Heard(s), UNCHANGED allowed,
         Decision(s) = "open", Decision(s)' = "refused"
  PROVE  Adm!Next
<1>1. \A r \in Sessions :
        /\ Heard(r)' = Heard(r)
        /\ Decision(r)' = IF r = s THEN "refused" ELSE Decision(r)
  BY SameSeen
<1> QED
  BY <1>1 DEF Adm!Next, Adm!Refuse

\* The steps of the handshake's future.
LEMMA HandshakeAdmission ==
  ASSUME IInv, NEW s \in Sessions,
         \/ greet(s) \/ read_challenge(s) \/ refuse_challenge(s) \/ handshake_fails(s)
         \/ respond(s) \/ read_verdict(s) \/ abort(s)
  PROVE  [Adm!Next]_(Adm!vars)
<1> USE SideFacts DEF sideVars, taskVars
<1>1. TypeOK /\ SessionOK(s)
  BY DEF IInv
<1>2. UNCHANGED <<acc, allowed>> /\ proof'[<<s, ROLE_ACCEPTOR>>] = proof[<<s, ROLE_ACCEPTOR>>]
  BY <1>1 DEF abort, greet, read_challenge, refuse_challenge, handshake_fails, respond,
              read_verdict, Fail, Keep, TypeOK
<1>3. \A r \in Sessions : r # s => Same(r)
  BY <1>1 DEF abort, greet, read_challenge, refuse_challenge, handshake_fails, respond,
              read_verdict, Fail, Keep, TypeOK, Same, Delivered, CloseWith
<1>4. Decision(s)' = Decision(s)
  BY <1>2 DEF Decision
<1>5. CASE greet(s) \/ read_challenge(s) \/ respond(s)
  <2>1. /\ ini[s] \in {"idle", "greeted", "signing"}
        /\ ini'[s] \in {"greeted", "signing", "awaiting"}
    BY <1>1, <1>5 DEF greet, read_challenge, respond, TypeOK
  <2>2. Heard(s)' = Heard(s)
    BY <2>1 DEF Heard
  <2> QED
    BY <1>2, <1>3, <1>4, <2>2, Hidden
<1>6. CASE refuse_challenge(s) \/ handshake_fails(s) \/ abort(s)
  <2>1. ini[s] \in {"greeted", "signing", "awaiting"} /\ ini'[s] = "failed"
    BY <1>1, <1>6 DEF refuse_challenge, handshake_fails, abort, Fail, TypeOK
  <2>2. Heard(s) = "waiting" /\ Heard(s)' = "refused"
    BY <2>1 DEF Heard
  <2> QED
    BY <1>2, <1>3, <1>4, <2>2, Heeded
<1>7. CASE read_verdict(s)
  <2>1. /\ ini[s] = "awaiting" /\ ini'[s] = Verdict(close[s])
        /\ close[s] # None /\ From[s] \in Ours
    BY <1>1, <1>7 DEF read_verdict, TypeOK, Open
  <2>2. ini'[s] \in {"ok", "denied", "failed"}
    BY <2>1, VerdictType
  <2>3. Heard(s) = "waiting" /\ Heard(s)' \in {"admitted", "refused"}
    BY <2>1, <2>2 DEF Heard
  <2>4. Heard(s)' = "admitted" => ini'[s] = "ok"
    BY <2>2 DEF Heard
  <2>5. ini'[s] = "ok" /\ To[s] \in Ours =>
          acc[s] = "done" /\ proof[<<s, ROLE_ACCEPTOR>>] # None
    BY <1>1, <2>1, VerdictOfCode DEF SessionOK, VerdictOK
  <2>6. Heard(s)' = "admitted" /\ To[s] \in Ours => Decision(s) = "admitted"
    BY <2>4, <2>5 DEF Decision
  <2> QED
    BY <1>2, <1>3, <1>4, <2>3, <2>6, Heeded
<1> QED
  BY <1>5, <1>6, <1>7

\* The task joins the handshake.
LEMMA CompletionAdmission ==
  ASSUME IInv, NEW s \in Sessions, handle_completion(s)
  PROVE  Adm!Next
<1> USE SideFacts DEF sideVars, taskVars
<1>1. TypeOK /\ SessionOK(s)
  BY DEF IInv
<1>2. /\ ini[s] = "ok" /\ ini'[s] = "recorded" /\ UNCHANGED <<acc, proof>>
      /\ allowed' = [allowed EXCEPT ![From[s]] = @ \cup {To[s]}]
      /\ \A r \in Sessions : r # s => Same(r)
  BY <1>1 DEF handle_completion, TypeOK, Same
<1>3. /\ From[s] \in Ours /\ KeyOf[To[s]] \in Roster[From[s]]
      /\ To[s] \in Ours => KeyOf[From[s]] \in Roster[To[s]]
  BY <1>1, <1>2, ProvedMember DEF SessionOK, MessagesOK, ProofOK, VerdictOK
<1>4. /\ Heard(s) = "admitted" /\ Heard(s)' = "joined" /\ Decision(s)' = Decision(s)
  BY <1>2 DEF Heard, Decision
<1>5. \A r \in Sessions :
        /\ Decision(r)' = Decision(r)
        /\ Heard(r)' = IF r = s THEN "joined" ELSE Heard(r)
  BY <1>2, <1>4, SameSeen
<1>6. Adm!Join(s)
  BY <1>2, <1>3, <1>4, <1>5 DEF Adm!Join, Trusts
<1> QED
  BY <1>6 DEF Adm!Next

LEMMA AcceptorAdmission ==
  ASSUME IInv, IInv', NEW s \in Sessions, Acceptor(s)
  PROVE  [Adm!Next]_(Adm!vars)
<1> USE SideFacts DEF sideVars, taskVars
<1> DEFINE y == <<s, ROLE_ACCEPTOR>>
<1>1. TypeOK /\ ProofOK(s) /\ MessagesOK(s) /\ ProofOK(s)'
  BY DEF IInv, SessionOK
<1>2. UNCHANGED ini /\ Heard(s)' = Heard(s)
  BY DEF Acceptor, accept, read_hello, send_challenge, read_response, accept_fails,
         record, close_accepted, close_denied, Finish, Heard
<1>3. \A r \in Sessions : r # s => Same(r)
  BY <1>1 DEF Acceptor, accept, read_hello, send_challenge, read_response,
              accept_fails, record, close_accepted, close_denied, Finish, Keep,
              TypeOK, Same, Delivered, CloseWith
<1>4. CASE read_hello(s) \/ send_challenge(s) \/ close_accepted(s) \/ close_denied(s)
  <2>1. /\ UNCHANGED <<proof, allowed>>
        /\ \/ acc[s] \in {"reading", "signing"} /\ acc'[s] \in {"signing", "challenged"}
           \/ acc[s] \in {"recorded", "refused"} /\ acc'[s] = "done"
    BY <1>1, <1>4 DEF read_hello, send_challenge, close_accepted, close_denied, Finish,
                      TypeOK
  <2>2. Decision(s)' = Decision(s)
    BY <1>1, <2>1 DEF Decision, ProofOK
  <2> QED
    BY <1>2, <1>3, <2>1, <2>2, Hidden
<1>5. CASE accept(s) \/ read_response(s) \/ accept_fails(s)
  <2>1. /\ acc[s] \in {"idle", "reading", "signing", "challenged"}
        /\ acc'[s] \in {"reading", "verified", "refused"}
        /\ UNCHANGED allowed
    BY <1>1, <1>5 DEF accept, read_response, accept_fails, TypeOK
  <2>2. Decision(s) = "open"
    BY <2>1 DEF Decision
  <2>3. CASE acc'[s] \in {"reading", "verified"}
    <3>1. Decision(s)' = "open"
      BY <2>3 DEF Decision
    <3> QED
      BY <1>2, <1>3, <2>1, <2>2, <3>1, Hidden
  <2>4. CASE acc'[s] = "refused"
    <3>1. Decision(s)' = "refused"
      BY <1>1, <2>4 DEF Decision, ProofOK
    <3> QED
      BY <1>2, <1>3, <2>1, <2>2, <3>1, Refused
  <2> QED
    BY <2>1, <2>3, <2>4
<1>6. CASE record(s)
  <2>1. /\ acc[s] = "verified" /\ acc'[s] = "recorded" /\ UNCHANGED proof
        /\ allowed' = [allowed EXCEPT ![To[s]] = @ \cup {From[s]}]
    BY <1>1, <1>6 DEF record, TypeOK
  <2>2. /\ To[s] \in Ours /\ KeyOf[From[s]] \in Roster[To[s]] /\ proof[y] # None
        /\ From[s] \in Ours => KeyOf[To[s]] \in Roster[From[s]]
    BY <1>1, <2>1, ProvedMember DEF MessagesOK, ProofOK
  <2>3. Decision(s) = "open" /\ Decision(s)' = "admitted"
    BY <2>1, <2>2 DEF Decision
  <2>4. \A r \in Sessions :
          /\ Heard(r)' = Heard(r)
          /\ Decision(r)' = IF r = s THEN "admitted" ELSE Decision(r)
    BY <1>2, <1>3, <2>3, SameSeen
  <2>5. Adm!Admit(s)
    BY <2>1, <2>2, <2>3, <2>4 DEF Adm!Admit, Trusts
  <2> QED
    BY <2>5 DEF Adm!Next
<1> QED
  BY <1>4, <1>5, <1>6 DEF Acceptor

LEMMA EnvironmentAdmission ==
  ASSUME \/ tick \/ \E e \in Endpoints : spawn(e) \/ drop_guard(e)
         \/ \E s \in Sessions : Foreign(s) \/ lose(s)
         \/ UNCHANGED vars
  PROVE  UNCHANGED Adm!vars
<1>1. UNCHANGED <<ini, acc, proof, allowed>>
  BY DEF tick, spawn, drop_guard, Foreign, lose, foreign_hello, foreign_challenge,
         foreign_response, foreign_close, vars, sideVars
<1>2. \A r \in Sessions : Decision(r)' = Decision(r) /\ Heard(r)' = Heard(r)
  BY <1>1 DEF Decision, Heard
<1> QED
  BY <1>1, <1>2 DEF Adm!vars

\* The mutual exchange implements Admission: an acceptor admits only where trust is
\* mutual, and its initiator admits it in return only after it has heard so
\* (mutual.rs accept, handle_completion).
THEOREM Refinement == Spec => AdmissionSpec
<1>1. Init => Adm!Init
  BY AdmissionInit
<1>2. ASSUME IInv, IInv', [Next]_vars
      PROVE  [Adm!Next]_(Adm!vars)
  <2>1. ASSUME NEW s \in Sessions, Initiator(s) \/ abort(s)
        PROVE  [Adm!Next]_(Adm!vars)
    BY <1>2, <2>1, HandshakeAdmission, CompletionAdmission DEF Initiator
  <2> QED
    BY <1>2, <2>1, AcceptorAdmission, EnvironmentAdmission DEF Next
<1> QED
  BY <1>1, <1>2, Invariance, PTL DEF Spec, AdmissionSpec, Adm!Spec
=============================================================================
