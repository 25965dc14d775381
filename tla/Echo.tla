-------------------------------- MODULE Echo --------------------------------
(***************************************************************************)
(* The echo protocol of examples/echo-auth.rs on the connections that         *)
(* Deployment has let in: Echo::connect at the end that dialled, Echo::accept *)
(* at the other.  Each end owns a handle of the connection; dropping it       *)
(* closes the connection, and what is still on its way is discarded.          *)
(***************************************************************************)
EXTENDS Deployment

VARIABLES
  connector,   \* Echo::connect
  handler,     \* Echo::accept, which owns the acceptor's handle
  response,    \* the whole response, its end included
  conn         \* the connection: up, closed by one of its ends, or lost

echoVars == <<connector, handler, response, conn>>

EchoOK ==
  /\ connector \in [Conns -> {"idle", "reading", "echoed", "failed"}]
  /\ handler \in [Conns -> {"idle", "replied", "returned"}]
  /\ response \in [Conns -> {"none", "sent", "arrived"}]
  /\ conn \in [Conns -> {"up", "closed", "lost"}]

EInit ==
  /\ DInit
  /\ connector = [k \in Conns |-> "idle"]
  /\ handler = [k \in Conns |-> "idle"]
  /\ response = [k \in Conns |-> "none"]
  /\ conn = [k \in Conns |-> "up"]
-----------------------------------------------------------------------------
\* close(), or the drop of a handle; without effect once the connection has ended.
Closed(k) == conn' = [conn EXCEPT ![k] = IF @ = "up" THEN "closed" ELSE @]

\* open_bi, write_all and finish: the request, with its end, is on its way.
open_bi(k) ==
  /\ app[k] = "open" /\ conn[k] = "up"
  /\ connector[k] = "idle"
  /\ connector' = [connector EXCEPT ![k] = "reading"]
  /\ UNCHANGED <<allVars, handler, response, conn>>

\* The whole response is there: connect closes and returns it.
read_to_end(k) ==
  /\ connector[k] = "reading"
  /\ response[k] = "arrived"
  /\ connector' = [connector EXCEPT ![k] = "echoed"]
  /\ Closed(k)
  /\ UNCHANGED <<allVars, handler, response>>

\* The connection ends before that.
connect_errs(k) ==
  /\ app[k] = "open" /\ conn[k] # "up"
  /\ connector[k] \in {"idle", "reading"}
  /\ response[k] # "arrived"
  /\ connector' = [connector EXCEPT ![k] = "failed"]
  /\ UNCHANGED <<allVars, handler, response, conn>>

\* accept_bi, copy, and finish, which gives the response its end.
echo_unfinished(k) ==
  /\ connector[k] = "reading" /\ conn[k] = "up"
  /\ handler[k] = "idle"
  /\ handler' = [handler EXCEPT ![k] = "replied"]
  /\ UNCHANGED <<allVars, connector, response, conn>>
echo(k) ==
  /\ connector[k] = "reading" /\ conn[k] = "up"
  /\ handler[k] = "idle"
  /\ handler' = [handler EXCEPT ![k] = "replied"]
  /\ response' = [response EXCEPT ![k] = "sent"]
  /\ UNCHANGED <<allVars, connector, conn>>

\* connection.closed().await, and then accept returns and drops its handle.
ReturnsAtOnce(k) == TRUE
AwaitsClose(k) == conn[k] # "up"

accept_returns(k) ==
  /\ handler[k] = "replied"
  /\ AwaitsClose(k)
  /\ handler' = [handler EXCEPT ![k] = "returned"]
  /\ Closed(k)
  /\ UNCHANGED <<allVars, connector, response>>

\* accept_bi or copy fails, because the connection has ended.
accept_errs(k) ==
  /\ app[k] = "open" /\ conn[k] # "up"
  /\ handler[k] = "idle"
  /\ handler' = [handler EXCEPT ![k] = "returned"]
  /\ UNCHANGED <<allVars, connector, response, conn>>

\* The network.
deliver(k) ==
  /\ response[k] = "sent" /\ conn[k] = "up"
  /\ response' = [response EXCEPT ![k] = "arrived"]
  /\ UNCHANGED <<allVars, connector, handler, conn>>

lose_app(k) ==
  /\ app[k] = "open" /\ conn[k] = "up"
  /\ conn' = [conn EXCEPT ![k] = "lost"]
  /\ UNCHANGED <<allVars, connector, handler, response>>

Connector(k) == open_bi(k) \/ read_to_end(k) \/ connect_errs(k)
Handler(k) == echo(k) \/ accept_returns(k) \/ accept_errs(k)

ENext ==
  \/ DNext /\ UNCHANGED echoVars
  \/ \E k \in Conns : Connector(k) \/ Handler(k) \/ deliver(k) \/ lose_app(k)

ESpec == EInit /\ [][ENext]_<<allVars, echoVars>>

\* Both ends run, and a connection that stays up delivers.
EFairness ==
  \A k \in Conns :
    /\ WF_echoVars(Connector(k)) /\ WF_echoVars(Handler(k))
    /\ WF_echoVars(deliver(k))

EFairSpec == ESpec /\ DFairness /\ EFairness
-----------------------------------------------------------------------------
(***************************************************************************)
(* Properties.                                                               *)
(***************************************************************************)

\* The response is not cut off: of a connection that was let in, Echo::connect fails
\* only if the network has lost it, never because Echo::accept returned and dropped
\* its handle while the response was on its way (examples/echo-auth.rs: accept
\* awaits closed()).
NotCutOff == \A k \in Conns : connector[k] = "failed" => conn[k] = "lost"

\* The two ends do not wait for each other, the one for the end of the response and
\* the other for the close that follows it: a dial that the hook let through fails to
\* connect, or both ends return, with the echo unless the connection was lost.
EchoReturns ==
  \A d \in Dials :
    call[d] = "accept" ~>
      \/ app[d] = "failed"
      \/ /\ handler[d] = "returned"
         /\ \/ connector[d] = "echoed"
            \/ connector[d] = "failed" /\ conn[d] = "lost"
=============================================================================
