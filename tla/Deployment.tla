----------------------------- MODULE Deployment -----------------------------
(***************************************************************************)
(* The two halves together, as examples/echo-auth.rs wires them: an endpoint  *)
(* Client with the outgoing hook and task dials acceptors with the incoming   *)
(* hook and protocol, and behind both runs an application that knows nothing  *)
(* of authentication (the echo protocol, in Echo).  Endpoints without a hook  *)
(* dial the same application (connect_no_auth).                               *)
(*                                                                          *)
(* AuthTask's slots are here the sessions of OneWayAuth, each used once: the  *)
(* handshake that AuthTask lets end at any time with any result is the        *)
(* exchange with the acceptor.  All endpoints run this code.                  *)
(***************************************************************************)
EXTENDS OneWayAuth, Sequences

CONSTANTS
  Client, Dials, Target, Capacity,
  Bare      \* connections without a hook, as pairs of endpoints

ASSUME DeploymentAssumption ==
  /\ Ours = Endpoints
  /\ \A s \in Sessions : From[s] = Client
  /\ Target \in [Dials -> {To[s] : s \in Sessions}]
  /\ Dials \cap Sessions = {}
  /\ Bare \subseteq Endpoints \X Endpoints
  /\ Dials \cap Bare = {}
  /\ Capacity \in Nat \ {0}

VARIABLES call, answer, queue, loop, cache, pending, hsState, hsRemote, proved,
          app       \* whether each application connection has been made

Task == INSTANCE AuthTask WITH
          Tasks <- Sessions, Remotes <- {To[s] : s \in Sessions},
          allowed <- cache, InboundPeers <- {}, Responsive <- {}

taskVars == <<call, answer, queue, loop, cache, pending, hsState, hsRemote, proved>>
allVars == <<vars, taskVars, app>>

\* The application's connections, by whom and to whom.
Conns == Dials \cup Bare
Source(k) == IF k \in Dials THEN Client ELSE k[1]
Dest(k) == IF k \in Dials THEN Target[k] ELSE k[2]

TypesOK ==
  /\ TypeOK /\ Task!TypeOK
  /\ app \in [Conns -> {"none", "open", "rejected", "failed"}]

DInit ==
  /\ Init /\ Task!Init
  /\ hsRemote = To
  /\ app = [k \in Conns |-> "none"]
-----------------------------------------------------------------------------
TaskStep(A) == A /\ UNCHANGED <<vars, app>>
WireStep(A) == A /\ UNCHANGED <<taskVars, app>>

\* The application dials.  (That it may give up is in AuthTask.)
Dial(d) == TaskStep(Task!before_connect(d))

Hook(d) ==
  TaskStep(\/ Task!authenticate_send(d) \/ Task!authenticate_stopped(d)
           \/ Task!authenticate_recv(d))

\* A handshake is spawned as a session that has not been used: sessions with one
\* acceptor are interchangeable, so one of them stands for all.
Unused(r) == CHOOSE s \in Sessions :
               hsState[s] = "free" /\ ini[s] = "idle" /\ To[s] = r

handle_request ==
  /\ TaskStep(Task!handle_request)
  /\ \A s \in Sessions :
       hsState[s] = "free" /\ hsState'[s] = "live" =>
         s = Unused(hsRemote'[s]) /\ hsRemote'[s] = To[s]

Loop == TaskStep(Task!spawn \/ \E s \in Sessions : Task!handle_completion(s))

\* TaskGuard::drop: the loop is dropped, then the handshakes in its JoinSet.
drop_guard == TaskStep(Task!abort)
drop_handshake(s) == WireStep(loop = "stopped" /\ abort(s))

\* The task's future: its own dial passes the hook, then the exchange runs.
Handshake(s) ==
  \/ TaskStep(Task!before_connect(s))
  \/ WireStep(hsState[s] = "live" /\ call[s] = "accept" /\ greet(s))
  \/ WireStep(ini[s] # "idle" /\ Initiator(s))

Result(s) == IF ini[s] = "ok" THEN "ok" ELSE "err"

handshake_ends(s) ==
  /\ ini[s] \in {"ok", "denied", "failed"}
  /\ TaskStep(Task!handshake_ends(s, Result(s)))

\* A dial that no hook holds back reaches the acceptor, whose hook looks its
\* endpoint id up, or fails on its way.
Dialled(k) ==
  /\ k \in Dials => call[k] = "accept"
  /\ app[k] = "none"
  /\ UNCHANGED <<vars, taskVars>>

Connect(k) ==
  /\ Dialled(k)
  /\ app' = [app EXCEPT ![k] = IF Admitted(Dest(k), Source(k)) THEN "open"
                                ELSE "rejected"]

connect_fails(k) == Dialled(k) /\ app' = [app EXCEPT ![k] = "failed"]

DNext ==
  \/ WireStep(tick)
  \/ handle_request \/ Loop \/ drop_guard
  \/ \E d \in Dials : Dial(d) \/ Hook(d)
  \/ \E k \in Conns : Connect(k) \/ connect_fails(k)
  \/ \E s \in Sessions :
       \/ Handshake(s) \/ handshake_ends(s) \/ drop_handshake(s)
       \/ WireStep(Acceptor(s)) \/ WireStep(ini[s] # "idle" /\ lose(s))

\* As in AuthTask and OneWayAuth, with nothing assumed of when handshakes end.
DFairness ==
  /\ WF_allVars(handle_request) /\ WF_allVars(Loop)
  /\ \A d \in Dials :
       /\ WF_allVars(Hook(d))
       /\ WF_allVars(Connect(d) \/ connect_fails(d))
  /\ \A s \in Sessions :
       /\ WF_allVars(Handshake(s) \/ handshake_ends(s) \/ drop_handshake(s))
       /\ WF_allVars(WireStep(Acceptor(s)))

DSpec == DInit /\ [][DNext]_allVars

DFairSpec == DSpec /\ DFairness
-----------------------------------------------------------------------------
(***************************************************************************)
(* Properties.                                                               *)
(***************************************************************************)

\* A dial that the initiator's hook lets through, be it the one that caused the
\* handshake, one that joined it or one served from the cache, is not rejected by
\* the acceptor's hook (outgoing.rs handle_completion, incoming.rs accept).
ReleasedIsAdmitted ==
  \A d \in Dials : call[d] = "accept" => Admitted(Target[d], Client)

\* "Everyone else is rejected before echo is ever reached": behind the acceptor's
\* hook the application meets only endpoints whose institution is on that acceptor's
\* roster and which have proved so in a handshake with it, not one that dials
\* without a hook or whose handshake was denied (incoming.rs after_handshake,
\* examples/echo-auth.rs).
ServedIsMember ==
  \A k \in Conns :
    app[k] = "open" =>
      /\ KeyOf[Source(k)] \in Roster[Dest(k)]
      /\ \E s \in Sessions :
           From[s] = Source(k) /\ To[s] = Dest(k) /\ proof[s] # None

\* Every dial is decided: here AuthTask's assumption that handshakes with acceptors
\* that run this code end is a consequence of what the two sides do.
DialsDecided ==
  \A d \in Dials :
    (call[d] \in {"sending", "waiting"}) ~>
      (call[d] \in {"accept", "reject", "cancelled"})

\* Dropping the guard leaves no acceptor waiting for an initiator that is gone:
\* every session under way ends there too (util.rs TaskGuard::drop).
AcceptorsReleased ==
  (loop = "stopped") ~> (\A s \in Sessions : acc[s] \in {"idle", "done"})
=============================================================================
