-------------------------- MODULE DeploymentProofs --------------------------
(***************************************************************************)
(* Proofs about Deployment and Echo, for any number of acceptors, dials and    *)
(* sessions: the composition implements both of its parts, so what is proved  *)
(* of each holds in it, and one invariant relates the two.                    *)
(***************************************************************************)
EXTENDS Echo, OneWayAuthProofs

\* The proofs of AuthTask, about the task of this deployment.
TP == INSTANCE AuthTaskProofs WITH
        Tasks <- Sessions, Remotes <- {To[s] : s \in Sessions},
        allowed <- cache, InboundPeers <- {}, Responsive <- {}

(***************************************************************************)
(* The inductive invariant: those of the two parts, and what relates them.    *)
(***************************************************************************)

\* Each slot of the JoinSet is the session that it stands for.
SlotsAreSessions == hsRemote = To

\* A success that the task has seen is one that the acceptor has recorded.
ProvedIsAdmitted == \A r \in proved : Admitted(r, Client)

\* Whoever is in an acceptor's set has proved itself in a session with it.
AdmittedIsProved ==
  \A b \in Endpoints : \A e \in allowed[b] :
    \E s \in Sessions : From[s] = e /\ To[s] = b /\ proof[s] # None

AppOK == app \in [Conns -> {"none", "open", "rejected", "failed"}]

\* An application connection was let in by the acceptor's hook.
AppIsAdmitted == \A k \in Conns : app[k] = "open" => Admitted(Dest(k), Source(k))

DIInv ==
  /\ IInv
  /\ TP!IInv
  /\ SlotsAreSessions
  /\ ProvedIsAdmitted
  /\ AdmittedIsProved
  /\ AppOK
  /\ AppIsAdmitted
-----------------------------------------------------------------------------
(***************************************************************************)
(* The parts.                                                                *)
(***************************************************************************)

\* What AuthTask assumes of its constants holds here.
LEMMA TaskAssumptions ==
  /\ Target \in [Dials -> {To[s] : s \in Sessions}]
  /\ Dials \cap Sessions = {}
  /\ {} \subseteq {To[s] : s \in Sessions}
  /\ Capacity \in Nat \ {0}
  BY DeploymentAssumption

\* A step of the task, named in either instance of AuthTask.
LEMMA SameTask ==
  /\ Task!Init => TP!Init
  /\ TP!TypeOK => Task!TypeOK
  /\ \A c : Task!before_connect(c) => TP!before_connect(c)
  /\ \A c : Task!authenticate_send(c) => TP!authenticate_send(c)
  /\ \A c : Task!authenticate_stopped(c) => TP!authenticate_stopped(c)
  /\ \A c : Task!authenticate_recv(c) => TP!authenticate_recv(c)
  /\ Task!spawn => TP!spawn
  /\ Task!handle_request => TP!handle_request
  /\ \A t : Task!handle_completion(t) => TP!handle_completion(t)
  /\ \A t, res : Task!handshake_ends(t, res) => TP!handshake_ends(t, res)
  /\ Task!abort => TP!abort
<1> USE DEF Task!Callers, TP!Callers, Task!taskVars, TP!taskVars
<1>1. Task!Init => TP!Init
  BY DEF Task!Init, TP!Init
<1>2. TP!TypeOK => Task!TypeOK
  BY DEF Task!TypeOK, TP!TypeOK
<1>3. /\ \A c : Task!before_connect(c) => TP!before_connect(c)
      /\ \A c : Task!authenticate_send(c) => TP!authenticate_send(c)
      /\ \A c : Task!authenticate_stopped(c) => TP!authenticate_stopped(c)
  BY DEF Task!before_connect, TP!before_connect, Task!Intercepted, TP!Intercepted,
         Task!authenticate_send, TP!authenticate_send, Task!HasRoom, TP!HasRoom,
         Task!authenticate_stopped, TP!authenticate_stopped
<1>4. \A c : Task!authenticate_recv(c) => TP!authenticate_recv(c)
  BY DEF Task!authenticate_recv, TP!authenticate_recv, Task!Verdict, TP!Verdict
<1>5. Task!spawn => TP!spawn
  BY DEF Task!spawn, TP!spawn
<1>6. Task!handle_request => TP!handle_request
  BY DEF Task!handle_request, TP!handle_request, Task!RemoteOf, TP!RemoteOf,
         Task!request_cached, TP!request_cached, Task!request_joins, TP!request_joins,
         Task!request_spawns, TP!request_spawns, Task!HandshakePending,
         TP!HandshakePending, Task!Reply, TP!Reply
<1>7. \A t : Task!handle_completion(t) => TP!handle_completion(t)
  BY DEF Task!handle_completion, TP!handle_completion, Task!Recorded, TP!Recorded,
         Task!Released, TP!Released, Task!Reply, TP!Reply
<1>8. \A t, res : Task!handshake_ends(t, res) => TP!handshake_ends(t, res)
  BY DEF Task!handshake_ends, TP!handshake_ends
<1>9. Task!abort => TP!abort
  BY DEF Task!abort, TP!abort, Task!Halt, TP!Halt, Task!Reply, TP!Reply,
         Task!DroppedSenders, TP!DroppedSenders, Task!Queued, TP!Queued
<1> QED
  BY <1>1, <1>2, <1>3, <1>4, <1>5, <1>6, <1>7, <1>8, <1>9

\* Every step of the deployment is one of the exchange or leaves it alone.
LEMMA WireSteps ==
  ASSUME DNext
  PROVE  [Next]_vars
<1>1. CASE WireStep(tick)
  BY <1>1 DEF WireStep, Next
<1>2. ASSUME NEW s \in Sessions, Handshake(s) \/ drop_handshake(s)
      PROVE  [Next]_vars
  <2>1. WireStep(greet(s)) => Initiator(s)
    BY DEF WireStep, Initiator
  <2> QED
    BY <1>2, <2>1 DEF Handshake, drop_handshake, TaskStep, WireStep, Next, Initiator
<1>3. ASSUME NEW s \in Sessions, WireStep(Acceptor(s)) \/ WireStep(ini[s] # "idle" /\ lose(s))
      PROVE  [Next]_vars
  BY <1>3 DEF WireStep, Next
<1>4. ASSUME NEW s \in Sessions, handshake_ends(s)
      PROVE  UNCHANGED vars
  BY <1>4 DEF handshake_ends, TaskStep
<1>5. ASSUME NEW d \in Dials, Dial(d) \/ Hook(d)
      PROVE  UNCHANGED vars
  BY <1>5 DEF Dial, Hook, TaskStep
<1>6. ASSUME NEW k \in Conns, Connect(k) \/ connect_fails(k)
      PROVE  UNCHANGED vars
  BY <1>6 DEF Connect, connect_fails, Dialled
<1>7. CASE handle_request \/ Loop \/ drop_guard
  BY <1>7 DEF handle_request, Loop, drop_guard, TaskStep
<1> QED
  BY <1>1, <1>2, <1>3, <1>4, <1>5, <1>6, <1>7 DEF DNext

\* Every step of the deployment is one of the task or leaves it alone.
LEMMA TaskSteps ==
  ASSUME DNext
  PROVE  [TP!Next]_(TP!vars)
<1> USE SameTask DEF TP!vars, TP!taskVars, taskVars
<1>1. CASE WireStep(tick)
  BY <1>1 DEF WireStep
<1>2. ASSUME NEW s \in Sessions, Handshake(s) \/ drop_handshake(s)
      PROVE  [TP!Next]_(TP!vars)
  BY <1>2 DEF Handshake, drop_handshake, TaskStep, WireStep, TP!Next, TP!Callers
<1>3. ASSUME NEW s \in Sessions, WireStep(Acceptor(s)) \/ WireStep(ini[s] # "idle" /\ lose(s))
      PROVE  UNCHANGED TP!vars
  BY <1>3 DEF WireStep
<1>4. ASSUME NEW s \in Sessions, handshake_ends(s)
      PROVE  TP!Next
  <2>1. Result(s) \in {"ok", "err", "panic"} /\ TP!handshake_ends(s, Result(s))
    BY <1>4 DEF handshake_ends, TaskStep, Result
  <2> QED
    BY <2>1 DEF TP!Next
<1>5. ASSUME NEW d \in Dials, Dial(d) \/ Hook(d)
      PROVE  TP!Next
  BY <1>5 DEF Dial, Hook, TaskStep, TP!Next, TP!Callers
<1>6. ASSUME NEW k \in Conns, Connect(k) \/ connect_fails(k)
      PROVE  UNCHANGED TP!vars
  BY <1>6 DEF Connect, connect_fails, Dialled
<1>7. CASE handle_request \/ Loop \/ drop_guard
  BY <1>7 DEF handle_request, Loop, drop_guard, TaskStep, TP!Next
<1> QED
  BY <1>1, <1>2, <1>3, <1>4, <1>5, <1>6, <1>7 DEF DNext

\* The exchange forgets nobody whom an acceptor has recorded.
LEMMA AllowedGrows ==
  ASSUME TypeOK, [Next]_vars, NEW b \in Endpoints
  PROVE  allowed[b] \subseteq allowed'[b]
<1> USE Constants DEF iniVars, accVars
<1>1. ASSUME NEW s \in Sessions, record(s)
      PROVE  allowed[b] \subseteq allowed'[b]
  BY <1>1 DEF record, TypeOK
<1>2. ASSUME NEW s \in Sessions, \/ Initiator(s) \/ abort(s) \/ Foreign(s) \/ lose(s)
                                 \/ Acceptor(s) /\ ~record(s)
      PROVE  UNCHANGED allowed
  BY <1>2 DEF Initiator, greet, read_challenge, challenge_fails, sign_blocking,
              sign_fails, read_verdict, abort, Fail, Acceptor, challenge, read_auth,
              accept_fails, close_accepted, close_denied, Finish, Foreign,
              foreign_hello, foreign_auth, foreign_challenge, foreign_close, lose
<1>3. tick \/ UNCHANGED vars => UNCHANGED allowed
  BY DEF tick, vars
<1> QED
  BY <1>1, <1>2, <1>3 DEF Next

LEMMA InitDIInv ==
  ASSUME DInit
  PROVE  DIInv
<1>1. IInv /\ SlotsAreSessions /\ AppOK /\ AppIsAdmitted /\ AdmittedIsProved
  BY InitIInv DEF DInit, SlotsAreSessions, AppOK, AppIsAdmitted, AdmittedIsProved,
                  Init, WireInit
<1>2. TP!Init
  BY SameTask DEF DInit
<1>3. TP!IInv
  BY <1>2, TaskAssumptions, TP!InitIInv
<1>4. ProvedIsAdmitted
  BY <1>2 DEF TP!Init, ProvedIsAdmitted
<1> QED
  BY <1>1, <1>3, <1>4 DEF DIInv

\* A session keeps its acceptor: a handshake is spawned only in a slot that stands
\* for a session with the remote asked for.
LEMMA SlotsKept ==
  ASSUME DIInv, DNext
  PROVE  SlotsAreSessions'
<1>1. hsRemote = To /\ hsRemote \in [Sessions -> {To[s] : s \in Sessions}]
  BY DEF DIInv, SlotsAreSessions, TP!IInv, TP!TypeOK
<1>2. CASE handle_request
  <2>1. TP!handle_request
    BY <1>2, SameTask DEF handle_request, TaskStep
  <2>2. CASE UNCHANGED hsRemote
    BY <1>1, <2>2 DEF SlotsAreSessions
  <2>3. CASE \E t \in Sessions : \E r \in {To[s] : s \in Sessions} :
               /\ hsState[t] = "free" /\ hsState' = [hsState EXCEPT ![t] = "live"]
               /\ hsRemote' = [hsRemote EXCEPT ![t] = r]
    <3>1. PICK t \in Sessions, r \in {To[s] : s \in Sessions} :
            /\ hsState[t] = "free" /\ hsState' = [hsState EXCEPT ![t] = "live"]
            /\ hsRemote' = [hsRemote EXCEPT ![t] = r]
      BY <2>3
    <3>2. hsState'[t] = "live" /\ hsRemote'[t] = r
      BY <1>1, <3>1 DEF DIInv, TP!IInv, TP!TypeOK
    <3>3. r = To[t]
      BY <1>2, <3>1, <3>2 DEF handle_request
    <3> QED
      BY <1>1, <3>1, <3>3 DEF SlotsAreSessions
  <2>4. \A c : c \in Dials => TP!RemoteOf(c) \in {To[s] : s \in Sessions}
    BY TaskAssumptions DEF TP!RemoteOf
  <2>5. Head(queue) \in Dials
    <3>1. queue \in Seq(TP!Callers) /\ queue # <<>>
      BY <2>1 DEF TP!handle_request, DIInv, TP!IInv, TP!TypeOK
    <3>2. Head(queue) = queue[1] /\ 1 \in 1..Len(queue)
      BY <3>1
    <3> QED
      BY <3>2 DEF DIInv, TP!IInv, TP!OnlyDialsWait
  <2> QED
    BY <2>1, <2>2, <2>3, <2>4, <2>5
       DEF TP!handle_request, TP!request_cached, TP!request_joins, TP!request_spawns,
           TP!taskVars
<1>3. CASE ~handle_request
  <2>1. UNCHANGED hsRemote
    BY <1>3 DEF DNext, WireStep, TaskStep, taskVars, Loop, drop_guard, Dial, Hook,
       Connect, connect_fails, Dialled, Handshake, handshake_ends,
       drop_handshake, Task!spawn, Task!handle_completion, Task!abort, Task!Halt,
       Task!before_connect, Task!authenticate_send, Task!authenticate_stopped,
       Task!authenticate_recv, Task!handshake_ends, Task!taskVars
  <2> QED
    BY <1>1, <2>1 DEF SlotsAreSessions
<1> QED
  BY <1>2, <1>3

\* Where the two parts meet: the task takes a handshake for successful only when
\* its exchange has read the accepting verdict, and the acceptor recorded before it
\* gave that verdict.
LEMMA ProvedKept ==
  ASSUME DIInv, DNext
  PROVE  ProvedIsAdmitted'
<1>1. TypeOK /\ VerdictIsRecorded
  BY DEF DIInv, IInv, VerdictIsRecorded, SessionOK, VerdictOK, ProofOK
<1>2. \A b \in Endpoints : allowed[b] \subseteq allowed'[b]
  BY <1>1, WireSteps, AllowedGrows
<1>3. proved \subseteq Endpoints /\ {To[s] : s \in Sessions} \subseteq Endpoints
  BY SessionAssumption DEF DIInv, TP!IInv, TP!TypeOK
<1>4. ASSUME NEW s \in Sessions, handshake_ends(s)
      PROVE  ProvedIsAdmitted'
  <2>1. /\ UNCHANGED allowed
        /\ proved' = IF Result(s) = "ok" THEN proved \cup {To[s]} ELSE proved
    BY <1>4 DEF handshake_ends, TaskStep, Task!handshake_ends, DIInv,
                SlotsAreSessions, vars, accVars
  <2>2. Result(s) = "ok" => ini[s] = "ok"
    BY DEF Result
  <2>3. From[s] = Client /\ From[s] \in Ours /\ To[s] \in Ours
    BY DeploymentAssumption, SessionAssumption
  <2>4. Result(s) = "ok" => Admitted(To[s], Client)
    BY <1>1, <2>2, <2>3 DEF VerdictIsRecorded
  <2> QED
    BY <2>1, <2>4 DEF DIInv, ProvedIsAdmitted, Admitted
<1>5. CASE \A s \in Sessions : ~handshake_ends(s)
  <2>1. UNCHANGED proved
    BY <1>5 DEF DNext, WireStep, TaskStep, taskVars, handle_request, Loop, drop_guard,
       Dial, Hook, Connect, connect_fails, Dialled, Handshake, drop_handshake,
       Task!handle_request, Task!spawn, Task!handle_completion,
       Task!abort, Task!Halt, Task!before_connect, Task!authenticate_send,
       Task!authenticate_stopped, Task!authenticate_recv
  <2> QED
    BY <1>2, <1>3, <2>1 DEF DIInv, ProvedIsAdmitted, Admitted
<1> QED
  BY <1>4, <1>5

\* An acceptor records only what it has verified, and no proof is forgotten.
LEMMA AdmittedKept ==
  ASSUME IInv, AdmittedIsProved, [Next]_vars
  PROVE  AdmittedIsProved'
<1> USE Constants DEF iniVars, accVars
<1>1. TypeOK /\ \A s \in Sessions : ProofOK(s)
  BY DEF IInv, SessionOK
<1>2. ASSUME NEW s \in Sessions, record(s)
      PROVE  AdmittedIsProved'
  <2>1. /\ proof[s] # None /\ UNCHANGED proof
        /\ allowed' = [allowed EXCEPT ![To[s]] = @ \cup {From[s]}]
    BY <1>1, <1>2 DEF record, ProofOK
  <2>2. ASSUME NEW b \in Endpoints, NEW e \in allowed'[b]
        PROVE  e \in allowed[b] \/ (b = To[s] /\ e = From[s])
    BY <1>1, <2>1, <2>2 DEF TypeOK
  <2> QED
    BY <2>1, <2>2 DEF AdmittedIsProved
<1>3. ASSUME NEW s \in Sessions, read_auth(s)
      PROVE  AdmittedIsProved'
  <2>1. UNCHANGED allowed /\ acc[s] = "challenged" /\ proof[s] = None
    BY <1>1, <1>3 DEF read_auth, ProofOK
  <2>2. \A r \in Sessions : r # s => proof'[r] = proof[r]
    BY <1>1, <1>3 DEF read_auth, TypeOK
  <2> QED
    BY <2>1, <2>2 DEF AdmittedIsProved
<1>4. ASSUME NEW s \in Sessions, \/ Initiator(s) \/ abort(s) \/ Foreign(s) \/ lose(s)
                                 \/ Acceptor(s) /\ ~record(s) /\ ~read_auth(s)
      PROVE  UNCHANGED <<allowed, proof>>
  BY <1>4 DEF Initiator, greet, read_challenge, challenge_fails, sign_blocking,
              sign_fails, read_verdict, abort, Fail, Acceptor, challenge,
              accept_fails, close_accepted, close_denied, Finish, Foreign,
              foreign_hello, foreign_auth, foreign_challenge, foreign_close, lose
<1>5. tick \/ UNCHANGED vars => UNCHANGED <<allowed, proof>>
  BY DEF tick, vars
<1>6. CASE UNCHANGED <<allowed, proof>>
  BY <1>6 DEF AdmittedIsProved
<1> QED
  BY <1>2, <1>3, <1>4, <1>5, <1>6 DEF Next, Acceptor

\* The application's connections end at endpoints.
LEMMA DestType ==
  ASSUME NEW k \in Conns
  PROVE  Dest(k) \in Endpoints
<1>1. {To[s] : s \in Sessions} \subseteq Endpoints
  BY SessionAssumption
<1> QED
  BY <1>1, DeploymentAssumption DEF Dest, Conns

\* A connection that was let in is one whose source the acceptor still admits.
LEMMA AppKept ==
  ASSUME DIInv, DNext
  PROVE  AppOK' /\ AppIsAdmitted'
<1>1. \A b \in Endpoints : allowed[b] \subseteq allowed'[b]
  BY WireSteps, AllowedGrows DEF DIInv, IInv
<1>2. \A k \in Conns : Admitted(Dest(k), Source(k)) => Admitted(Dest(k), Source(k))'
  BY <1>1, DestType DEF Admitted, Dest, Source
<1>3. ASSUME NEW k \in Conns, Connect(k) \/ connect_fails(k)
      PROVE  AppOK' /\ AppIsAdmitted'
  <2>1. \E v \in {"open", "rejected", "failed"} :
          /\ app' = [app EXCEPT ![k] = v]
          /\ v = "open" => Admitted(Dest(k), Source(k))
    BY <1>3 DEF Connect, connect_fails
  <2> QED
    BY <1>2, <2>1 DEF DIInv, AppOK, AppIsAdmitted
<1>4. CASE UNCHANGED app
  BY <1>2, <1>4 DEF DIInv, AppOK, AppIsAdmitted
<1> QED
  BY <1>3, <1>4 DEF DNext, WireStep, TaskStep, handle_request, Loop,
     drop_guard, Dial, Hook, Handshake, handshake_ends, drop_handshake

LEMMA NextDIInv ==
  ASSUME DIInv, [DNext]_allVars
  PROVE  DIInv'
<1>1. CASE UNCHANGED allVars
  <2>1. UNCHANGED vars /\ UNCHANGED TP!vars
    BY <1>1 DEF allVars, taskVars, TP!vars, TP!taskVars
  <2>2. IInv'
    BY <2>1, NextIInv DEF DIInv
  <2>3. TP!IInv'
    BY <2>1, TaskAssumptions, TP!NextIInv DEF DIInv
  <2>4. SlotsAreSessions' /\ ProvedIsAdmitted' /\ AppOK'
    BY <1>1, <2>1 DEF DIInv, SlotsAreSessions, ProvedIsAdmitted, AppOK, Admitted,
                      allVars, taskVars, vars, accVars
  <2>5. AppIsAdmitted'
    BY <1>1, <2>1 DEF DIInv, AppIsAdmitted, Admitted, Dest, Source, allVars, vars,
                      accVars
  <2>6. AdmittedIsProved'
    BY <2>1, AdmittedKept DEF DIInv
  <2> QED
    BY <2>2, <2>3, <2>4, <2>5, <2>6 DEF DIInv
<1>2. CASE DNext
  <2>1. IInv'
    BY <1>2, WireSteps, NextIInv DEF DIInv
  <2>2. TP!IInv'
    BY <1>2, TaskSteps, TaskAssumptions, TP!NextIInv DEF DIInv
  <2>3. AdmittedIsProved'
    BY <1>2, WireSteps, AdmittedKept DEF DIInv
  <2> QED
    BY <1>2, <2>1, <2>2, <2>3, SlotsKept, ProvedKept, AppKept DEF DIInv
<1> QED
  BY <1>1, <1>2
-----------------------------------------------------------------------------
(***************************************************************************)
(* The theorems.                                                             *)
(***************************************************************************)

\* The inductive invariant holds of every reachable state of the deployment.
THEOREM DeploymentInvariance == DSpec => []DIInv
<1>1. DInit => DIInv
  BY InitDIInv
<1>2. DIInv /\ [DNext]_allVars => DIInv'
  BY NextDIInv
<1> QED
  BY <1>1, <1>2, PTL DEF DSpec

\* The deployment is a use of the one-way exchange: whatever is proved of that, the
\* admission of members only among it, holds here (examples/echo-auth.rs).
THEOREM ImplementsExchange == DSpec => Spec
<1>1. DInit => Init
  BY DEF DInit
<1>2. [DNext]_allVars => [Next]_vars
  BY WireSteps DEF allVars
<1> QED
  BY <1>1, <1>2, PTL DEF DSpec, Spec

\* Its client is a use of the authenticator, with the exchange for the handshakes
\* that AuthTask lets end at any time (outgoing.rs and examples/echo-auth.rs).
THEOREM ImplementsTask == DSpec => TP!Spec
<1>1. DInit => TP!Init
  BY SameTask DEF DInit
<1>2. [DNext]_allVars => [TP!Next]_(TP!vars)
  <2>1. UNCHANGED allVars => UNCHANGED TP!vars
    BY DEF allVars, taskVars, TP!vars, TP!taskVars
  <2> QED
    BY <2>1, TaskSteps
<1> QED
  BY <1>1, <1>2, PTL DEF DSpec, TP!Spec

\* Every reachable state of the two halves and the application has its type; the
\* channel, in particular, stays within its capacity.
THEOREM TypesCorrect == DSpec => []TypesOK
<1>1. DIInv => TypesOK
  BY SameTask DEF DIInv, IInv, TP!IInv, AppOK, TypesOK
<1> QED
  BY <1>1, DeploymentInvariance, PTL

\* A dial that the initiator's hook lets through is not rejected by the acceptor's
\* (outgoing.rs handle_completion, incoming.rs accept).
THEOREM ReleasedIsAdmittedAlways == DSpec => []ReleasedIsAdmitted
<1>1. DIInv => ReleasedIsAdmitted
  BY DEF DIInv, TP!IInv, TP!AnswersBacked, ProvedIsAdmitted, ReleasedIsAdmitted
<1> QED
  BY <1>1, DeploymentInvariance, PTL

\* Behind the acceptor's hook the application meets only endpoints that have proved,
\* in a handshake with that acceptor, that their institution is on its roster
\* (incoming.rs after_handshake, examples/echo-auth.rs).
THEOREM ServedIsMemberAlways == DSpec => []ServedIsMember
<1>1. ASSUME DIInv, NEW k \in Conns, app[k] = "open"
      PROVE  /\ KeyOf[Source(k)] \in Roster[Dest(k)]
             /\ \E s \in Sessions :
                  From[s] = Source(k) /\ To[s] = Dest(k) /\ proof[s] # None
  <2>1. Source(k) \in allowed[Dest(k)] /\ Dest(k) \in Endpoints
    BY <1>1, DestType DEF DIInv, AppIsAdmitted, Admitted
  <2>2. PICK s \in Sessions :
          From[s] = Source(k) /\ To[s] = Dest(k) /\ proof[s] # None
    BY <1>1, <2>1 DEF DIInv, AdmittedIsProved
  <2>3. KeyOf[From[s]] \in Roster[To[s]]
    BY <1>1, <2>2 DEF DIInv, IInv, SessionOK, ProofOK
  <2> QED
    BY <2>2, <2>3
<1>2. DIInv => ServedIsMember
  BY <1>1 DEF ServedIsMember
<1> QED
  BY <1>2, DeploymentInvariance, PTL

\* The deployment keeps both promises that its parts make: its acceptors' sets are
\* those of Admission and its client's dials those of DialGate, at once.
THEOREM KeepsPromises == DSpec => AdmissionSpec /\ TP!GateSpec
<1>1. TP!Spec => TP!GateSpec
  BY TaskAssumptions, TP!Refinement
<1>2. Spec => AdmissionSpec
  BY Refinement
<1> QED
  BY <1>1, <1>2, ImplementsExchange, ImplementsTask, PTL
-----------------------------------------------------------------------------
(***************************************************************************)
(* The echo.                                                                 *)
(***************************************************************************)

\* Only the end that has the whole response closes the connection.
EchoInv ==
  /\ EchoOK
  /\ \A k \in Conns : conn[k] = "closed" => connector[k] = "echoed"
  /\ NotCutOff

LEMMA NextEchoInv ==
  ASSUME EchoInv, [ENext]_<<allVars, echoVars>>
  PROVE  EchoInv'
<1> USE DEF EchoInv, EchoOK, NotCutOff, echoVars
<1>1. ASSUME NEW k \in Conns, Connector(k)
      PROVE  EchoInv'
  BY <1>1 DEF Connector, open_bi, read_to_end, connect_errs, Closed
<1>2. ASSUME NEW k \in Conns, Handler(k)
      PROVE  EchoInv'
  BY <1>2 DEF Handler, echo, accept_returns, AwaitsClose, accept_errs, Closed
<1>3. ASSUME NEW k \in Conns, deliver(k) \/ lose_app(k)
      PROVE  EchoInv'
  BY <1>3 DEF deliver, lose_app
<1>4. CASE UNCHANGED echoVars
  BY <1>4
<1> QED
  BY <1>1, <1>2, <1>3, <1>4 DEF ENext

\* The response is never cut off: Echo::connect fails only if the network has lost its
\* connection (examples/echo-auth.rs: accept awaits closed()).
THEOREM NotCutOffAlways == ESpec => []NotCutOff
<1>1. EInit => EchoInv
  BY DEF EInit, EchoInv, EchoOK, NotCutOff
<1>2. EchoInv /\ [ENext]_<<allVars, echoVars>> => EchoInv'
  BY NextEchoInv
<1>3. EchoInv => NotCutOff
  BY DEF EchoInv
<1> QED
  BY <1>1, <1>2, <1>3, PTL DEF ESpec

\* The echo runs on the deployment: what is proved of that, the theorem that it serves
\* members only among it, holds here (examples/echo-auth.rs).
THEOREM EchoIsDeployed == ESpec => DSpec
<1>1. EInit => DInit
  BY DEF EInit
<1>2. [ENext]_<<allVars, echoVars>> => [DNext]_allVars
  BY DEF ENext, Connector, open_bi, read_to_end, connect_errs, Handler, echo,
         accept_returns, accept_errs, deliver, lose_app
<1> QED
  BY <1>1, <1>2, PTL DEF ESpec, DSpec
=============================================================================
