------------------------------ MODULE AuthTask ------------------------------
(***************************************************************************)
(* The initiator's authenticator: the endpoint hook that holds back every   *)
(* application dial, the bounded mpsc channel to the background task, and    *)
(* the task's loop with its cache of authenticated remotes, its table of     *)
(* waiting dials and its JoinSet of running handshakes.                      *)
(*                                                                          *)
(* outgoing.rs and mutual.rs contain the same hook and loop.  In mutual.rs   *)
(* the cache is shared with the acceptor side of the endpoint, which inserts *)
(* into it too: InboundPeers is the set of remotes that may be recorded that *)
(* way, and is empty for outgoing.rs.                                        *)
(*                                                                          *)
(* What a handshake exchanges is in the module OneWayAuth; here it runs for  *)
(* a while and ends with one of the results its task can end with.           *)
(***************************************************************************)
EXTENDS Naturals, Sequences

CONSTANTS
  Dials,         \* application calls of Endpoint::connect on this endpoint
  Remotes,       \* the endpoint ids they dial
  Target,        \* Target[d] is the remote that dial d wants to reach
  Tasks,         \* slots for the handshake tasks of the JoinSet (a bound)
  Capacity,      \* capacity of the mpsc channel (16 in the code)
  InboundPeers,  \* remotes the acceptor side of a mutual endpoint may record
  Responsive     \* remotes whose handshakes end (their acceptor runs this crate)

ASSUME DialAssumption ==
  /\ Target \in [Dials -> Remotes]
  /\ Dials \cap Tasks = {}
  /\ InboundPeers \subseteq Remotes
  /\ Responsive \subseteq Remotes
ASSUME CapacityAssumption == Capacity \in Nat \ {0}

VARIABLES
  call,      \* state of each caller's before_connect
  answer,    \* what each caller's oneshot channel holds
  queue,     \* the mpsc channel: callers whose request is not yet received
  loop,      \* the task: not yet spawned, running, or gone
  allowed,   \* allowed_remotes, the cache of authenticated remotes
  pending,   \* pending_remotes: the callers waiting for each remote
  hsState,   \* state of each slot of the JoinSet
  hsRemote,  \* the remote that the handshake in each slot dials
  proved     \* history: remotes with which some handshake has succeeded

taskVars == <<pending, hsState, hsRemote>>
vars == <<call, answer, queue, loop, allowed, taskVars, proved>>

(***************************************************************************)
(* A caller of before_connect is an application dial or a handshake task,    *)
(* which dials the same endpoint on the auth ALPN.                           *)
(***************************************************************************)
Callers == Dials \cup Tasks

RemoteOf(c) == IF c \in Dials THEN Target[c] ELSE hsRemote[c]

Queued == {queue[i] : i \in 1..Len(queue)}

Active(t) == hsState[t] # "free"

TypeOK ==
  /\ call \in [Callers -> {"idle", "sending", "waiting",
                           "accept", "reject", "cancelled"}]
  /\ answer \in [Callers -> {"none", "ok", "err", "closed"}]
  /\ queue \in Seq(Callers) /\ Len(queue) <= Capacity
  /\ loop \in {"held", "running", "stopped"}
  /\ allowed \subseteq Remotes
  /\ pending \in [Remotes -> SUBSET Callers]
  /\ hsState \in [Tasks -> {"free", "live", "ok", "err", "panic"}]
  /\ hsRemote \in [Tasks -> Remotes]
  /\ proved \subseteq Remotes

Init ==
  /\ call = [c \in Callers |-> "idle"]
  /\ answer = [c \in Callers |-> "none"]
  /\ queue = <<>>
  /\ loop = "held"
  /\ allowed = {}
  /\ pending = [r \in Remotes |-> {}]
  /\ hsState = [t \in Tasks |-> "free"]
  /\ hsRemote \in [Tasks -> Remotes]
  /\ proved = {}
-----------------------------------------------------------------------------
(***************************************************************************)
(* The hook.                                                                 *)
(***************************************************************************)

\* An intercepted call must authenticate first; a dial of the auth ALPN, which
\* only handshake tasks make, is let through at once.
InterceptedAlways(c) == TRUE
Intercepted(c) == c \notin Tasks

before_connect(c) ==
  /\ call[c] = "idle"
  /\ c \in Tasks => hsState[c] = "live"
  /\ call' = [call EXCEPT ![c] = IF Intercepted(c) THEN "sending" ELSE "accept"]
  /\ UNCHANGED <<answer, queue, loop, allowed, taskVars, proved>>

HasRoomForOneMore == Len(queue) <= Capacity
HasRoom == Len(queue) < Capacity

\* The send of authenticate() completes when the channel has room; before the
\* task is spawned its receiver already exists, so requests pile up.
authenticate_send(c) ==
  /\ call[c] = "sending"
  /\ loop # "stopped"
  /\ HasRoom
  /\ queue' = Append(queue, c)
  /\ call' = [call EXCEPT ![c] = "waiting"]
  /\ UNCHANGED <<answer, loop, allowed, taskVars, proved>>

\* The receiver is gone: AuthenticatorStopped.
authenticate_stopped(c) ==
  /\ call[c] = "sending"
  /\ loop = "stopped"
  /\ call' = [call EXCEPT ![c] = "reject"]
  /\ UNCHANGED <<answer, queue, loop, allowed, taskVars, proved>>

\* rx.await: only Ok(Ok(())) lets the dial through; Ok(Err(_)) is Denied and a
\* dropped sender is AuthenticatorStopped.
VerdictUnlessDenied(res) == IF res = "err" THEN "reject" ELSE "accept"
Verdict(res) == IF res = "ok" THEN "accept" ELSE "reject"

authenticate_recv(c) ==
  /\ call[c] = "waiting"
  /\ answer[c] # "none"
  /\ call' = [call EXCEPT ![c] = Verdict(answer[c])]
  /\ UNCHANGED <<answer, queue, loop, allowed, taskVars, proved>>

\* The application drops the future of its dial (a timeout, as in tests/).  The
\* request stays where it is and its answer will be sent to nobody.
cancel(d) ==
  /\ call[d] \in {"sending", "waiting"}
  /\ call' = [call EXCEPT ![d] = "cancelled"]
  /\ UNCHANGED <<answer, queue, loop, allowed, taskVars, proved>>
-----------------------------------------------------------------------------
(***************************************************************************)
(* The task's loop.                                                          *)
(***************************************************************************)

spawn ==
  /\ loop = "held"
  /\ loop' = "running"
  /\ UNCHANGED <<call, answer, queue, allowed, taskVars, proved>>

Reply(callers, res) ==
  answer' = [c \in Callers |-> IF c \in callers THEN res ELSE answer[c]]

\* The remote is in the cache: answer at once.
request_cached(c, r) ==
  /\ r \in allowed
  /\ Reply({c}, "ok")
  /\ UNCHANGED <<call, taskVars>>

\* A handshake with the remote is under way: wait for its result too.
HandshakePendingNever(r) == FALSE
HandshakePending(r) == pending[r] # {}

request_joins(c, r) ==
  /\ r \notin allowed
  /\ HandshakePending(r)
  /\ pending' = [pending EXCEPT ![r] = @ \cup {c}]
  /\ UNCHANGED <<call, answer, hsState, hsRemote>>

request_spawns(c, r) ==
  /\ r \notin allowed
  /\ ~HandshakePending(r)
  /\ \E t \in Tasks :
       /\ hsState[t] = "free"
       /\ hsState' = [hsState EXCEPT ![t] = "live"]
       /\ hsRemote' = [hsRemote EXCEPT ![t] = r]
       /\ call' = [call EXCEPT ![t] = "idle"]
  /\ pending' = [pending EXCEPT ![r] = {c}]
  /\ UNCHANGED answer

handle_request ==
  /\ loop = "running"
  /\ queue # <<>>
  /\ queue' = Tail(queue)
  /\ LET c == Head(queue) IN
       \/ request_cached(c, RemoteOf(c))
       \/ request_joins(c, RemoteOf(c))
       \/ request_spawns(c, RemoteOf(c))
  /\ UNCHANGED <<loop, allowed, proved>>

\* What the cache and the waiting table become when a handshake with r ends.
RecordedAlways(r, res) == allowed \cup {r}
Recorded(r, res) == IF res = "ok" THEN allowed \cup {r} ELSE allowed

NotReleased(r) == pending
Released(r) == [pending EXCEPT ![r] = {}]

handle_completion(t) ==
  /\ loop = "running"
  /\ hsState[t] \in {"ok", "err"}
  /\ LET r == hsRemote[t] IN
       /\ allowed' = Recorded(r, hsState[t])
       /\ Reply(pending[r], hsState[t])
       /\ pending' = Released(r)
  /\ hsState' = [hsState EXCEPT ![t] = "free"]
  /\ UNCHANGED <<call, queue, loop, hsRemote, proved>>

\* The task is dropped: the receiver with the queued requests, the waiting table
\* and the JoinSet with its handshakes go with it, and every oneshot sender
\* that one of them held is dropped unused.
DroppedSendersQueueOnly == Queued
DroppedSenders == Queued \cup UNION {pending[r] : r \in Remotes}

Halt ==
  /\ loop' = "stopped"
  /\ Reply(DroppedSenders, "closed")
  /\ queue' = <<>>
  /\ pending' = [r \in Remotes |-> {}]
  /\ hsState' = [t \in Tasks |-> "free"]
  /\ UNCHANGED <<call, allowed, hsRemote, proved>>

\* A handshake task that panicked makes the expect on its join panic, which
\* ends the whole loop.
join_panicked(t) ==
  /\ loop = "running"
  /\ hsState[t] = "panic"
  /\ Halt

\* The TaskGuard is dropped (or the task itself, before it was spawned).
abort ==
  /\ loop # "stopped"
  /\ Halt
-----------------------------------------------------------------------------
(***************************************************************************)
(* The handshakes, and the other writer of the cache.                        *)
(***************************************************************************)

\* A handshake whose own dial was let through ends with any result; one whose
\* dial was rejected fails.
handshake_ends(t, res) ==
  /\ hsState[t] = "live"
  /\ \/ call[t] = "accept"
     \/ call[t] = "reject" /\ res = "err"
  /\ hsState' = [hsState EXCEPT ![t] = res]
  /\ proved' = IF res = "ok" THEN proved \cup {hsRemote[t]} ELSE proved
  /\ UNCHANGED <<call, answer, queue, loop, allowed, pending, hsRemote>>

\* The acceptor side of a mutual endpoint has verified r and records it in the
\* shared set, whether or not the task is running.
record_inbound(r) ==
  /\ allowed' = allowed \cup {r}
  /\ proved' = proved \cup {r}
  /\ UNCHANGED <<call, answer, queue, loop, taskVars>>

Next ==
  \/ \E c \in Callers :
       \/ before_connect(c)
       \/ authenticate_send(c)
       \/ authenticate_stopped(c)
       \/ authenticate_recv(c)
  \/ \E d \in Dials : cancel(d)
  \/ spawn
  \/ handle_request
  \/ \E t \in Tasks :
       \/ handle_completion(t)
       \/ join_panicked(t)
       \/ \E res \in {"ok", "err", "panic"} : handshake_ends(t, res)
  \/ abort
  \/ \E r \in InboundPeers : record_inbound(r)

Spec == Init /\ [][Next]_vars

(***************************************************************************)
(* Fairness.  The runtime polls every ready future, select! serves both of   *)
(* its branches, and the user spawns the task, as its documentation asks.    *)
(* A handshake is sure to end only with an acceptor that runs this crate,    *)
(* which closes the connection on every path (OneWayAuth shows it): the      *)
(* initiator has no timeout of its own, and a remote that keeps the          *)
(* connection alive without answering holds its handshake open for ever.     *)
(* Nothing makes an application start or cancel a dial, or drop the guard.   *)
(***************************************************************************)
Fairness ==
  /\ WF_vars(spawn)
  /\ WF_vars(handle_request)
  /\ \A c \in Callers :
       /\ WF_vars(authenticate_send(c))
       /\ WF_vars(authenticate_stopped(c))
       /\ WF_vars(authenticate_recv(c))
  /\ \A t \in Tasks :
       /\ WF_vars(before_connect(t))
       /\ WF_vars(/\ hsRemote[t] \in Responsive
                  /\ \E res \in {"ok", "err", "panic"} : handshake_ends(t, res))
       /\ WF_vars(handle_completion(t))
       /\ WF_vars(join_panicked(t))

FairSpec == Spec /\ Fairness
-----------------------------------------------------------------------------
(***************************************************************************)
(* Properties.                                                               *)
(***************************************************************************)

\* A dial is let through only to a remote with which a handshake has succeeded,
\* whether it got the answer from its own handshake, from one it joined, or
\* from the cache (outgoing.rs handle_request and handle_completion).
AcceptedIsProved ==
  \A d \in Dials : call[d] = "accept" => Target[d] \in proved

\* "De-duplicating concurrent dials": there are never two handshakes with one
\* remote, however dials, completions and failures interleave.
OneHandshakePerRemote ==
  \A t, u \in Tasks :
    Active(t) /\ Active(u) /\ hsRemote[t] = hsRemote[u] => t = u

\* "Repeated connections only authenticate once": with a remote in the cache of
\* outgoing.rs there is no handshake under way and no dial left waiting for one.
AuthenticatesOnce ==
  \A r \in allowed \ InboundPeers :
    pending[r] = {} /\ \A t \in Tasks : Active(t) => hsRemote[t] # r

\* A dial that waits without an answer is still owed one: its request is in the
\* channel, or it is in the waiting table under its own remote and a handshake
\* with that remote has yet to be joined.  No exit of the loop strands it.
NoStrandedDial ==
  \A d \in Dials :
    call[d] = "waiting" /\ answer[d] = "none" =>
      \/ d \in Queued
      \/ /\ d \in pending[Target[d]]
         /\ \E t \in Tasks : Active(t) /\ hsRemote[t] = Target[d]

(***************************************************************************)
(* The inductive invariant behind the properties above and the refinement    *)
(* below.                                                                    *)
(***************************************************************************)

\* Only application dials are held back and wait.
OnlyDialsWait ==
  /\ \A t \in Tasks : call[t] \in {"idle", "accept"}
  /\ \A i \in 1..Len(queue) : queue[i] \in Dials
  /\ \A r \in Remotes : \A c \in pending[r] : c \in Dials /\ Target[c] = r

\* The waiting table has an entry for a remote exactly while a handshake with
\* that remote is in the JoinSet.
WaitersHaveHandshake ==
  \A r \in Remotes :
    pending[r] # {} <=> \E t \in Tasks : Active(t) /\ hsRemote[t] = r

\* Every dial that waits without an answer is in the channel or in the table.
WaitingIsHeld ==
  \A d \in Dials :
    call[d] = "waiting" /\ answer[d] = "none" =>
      d \in Queued \/ d \in pending[Target[d]]

\* A favourable answer, delivered or not, is backed by the cache, and the cache
\* by a handshake that succeeded.
AnswersBacked ==
  /\ \A d \in Dials :
       answer[d] = "ok" \/ call[d] = "accept" => Target[d] \in allowed
  /\ allowed \subseteq proved
  /\ \A t \in Tasks : hsState[t] = "ok" => hsRemote[t] \in proved

\* A oneshot sender is in one place and unused until it is answered: a request
\* is in the channel once, or in the table, and its dial has no answer yet.
OwedOnce ==
  /\ \A i, j \in 1..Len(queue) : queue[i] = queue[j] => i = j
  /\ \A d \in Dials : ~(d \in Queued /\ d \in pending[Target[d]])
  /\ \A d \in Dials :
       d \in Queued \/ d \in pending[Target[d]] =>
         answer[d] = "none" /\ call[d] \in {"waiting", "cancelled"}
  /\ \A d \in Dials : call[d] \in {"idle", "sending"} => answer[d] = "none"

IInv ==
  /\ TypeOK
  /\ OnlyDialsWait
  /\ WaitersHaveHandshake
  /\ OneHandshakePerRemote
  /\ WaitingIsHeld
  /\ AnswersBacked
  /\ AuthenticatesOnce
  /\ OwedOnce

(***************************************************************************)
(* The authenticator as its applications see it.  A dial still sending when   *)
(* the task is gone is as good as refused: its send can only fail.           *)
(***************************************************************************)
DialVerdict(d) ==
  CASE call[d] = "sending" -> IF loop = "stopped" THEN "refused" ELSE "asked"
    [] call[d] = "waiting" -> CASE answer[d] = "none" -> "asked"
                                [] answer[d] = "ok" -> "granted"
                                [] OTHER -> "refused"
    [] call[d] = "accept" -> "accepted"
    [] call[d] = "reject" -> "rejected"
    [] OTHER -> call[d]

Gate == INSTANCE DialGate WITH
  verdict <- [d \in Dials |-> DialVerdict(d)],
  trusted <- allowed,
  stopped <- (loop = "stopped")

\* Hook, channel, task and cache together do what DialGate says: one decision
\* per dial, a grant only for an authenticated remote, a refusal only from a
\* handshake that failed while the dial was asking or from the task's end.
GateSpec == Gate!Spec

\* A dial that the hook holds back is decided in the end if its remote is
\* responsive, whatever dials to a silent remote are waiting beside it, and so is
\* every dial once the task is gone: the handshake's own dial does not wait for
\* itself, a full channel drains, and a failed or panicked handshake answers.
EveryDialDecided ==
  \A d \in Dials :
    (/\ call[d] \in {"sending", "waiting"}
     /\ Target[d] \in Responsive \/ loop = "stopped")
      ~> call[d] \in {"accept", "reject", "cancelled"}
=============================================================================
