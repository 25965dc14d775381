------------------------------ MODULE DialGate ------------------------------
(***************************************************************************)
(* What the authenticator promises the applications of its endpoint, with    *)
(* no channel, no table and no task: a dial asks, is granted or refused, and *)
(* the decision is delivered unless the application has given up.            *)
(***************************************************************************)
CONSTANTS
  Dials, Remotes, Target,
  InboundPeers   \* remotes that may authenticate by dialling this endpoint

VARIABLES
  verdict,   \* what has become of each dial
  trusted,   \* remotes that have authenticated; only grows
  stopped    \* the authenticator is gone for good

gateVars == <<verdict, trusted, stopped>>

Asking(r) == {d \in Dials : verdict[d] = "asked" /\ Target[d] = r}

Decide(D, v) == verdict' = [d \in Dials |-> IF d \in D THEN v ELSE verdict[d]]

Init ==
  /\ verdict = [d \in Dials |-> "idle"]
  /\ trusted = {}
  /\ stopped = FALSE

Ask(d) ==
  /\ verdict[d] = "idle"
  /\ Decide({d}, IF stopped THEN "refused" ELSE "asked")
  /\ UNCHANGED <<trusted, stopped>>

\* r authenticates: dials that were asking for it by then may be granted.  It
\* may also authenticate unasked, as an initiator of its own.
Succeed(r, D) ==
  /\ trusted' = trusted \cup {r}
  /\ Decide(D, "granted")
  /\ UNCHANGED stopped

\* An attempt at r fails: it refuses only dials that were asking for r already,
\* so a failure is never remembered against a later dial.  A remote that has
\* authenticated by dialling us may still fail the attempt it overlapped.
Fail(r, D) ==
  /\ r \in trusted => r \in InboundPeers
  /\ Decide(D, "refused")
  /\ UNCHANGED <<trusted, stopped>>

Grant(d) ==
  /\ verdict[d] = "asked" /\ Target[d] \in trusted
  /\ Decide({d}, "granted")
  /\ UNCHANGED <<trusted, stopped>>

\* The authenticator stops and refuses every dial it has not decided.
Stop ==
  /\ ~stopped
  /\ stopped' = TRUE
  /\ Decide({d \in Dials : verdict[d] = "asked"}, "refused")
  /\ UNCHANGED trusted

Deliver(d) ==
  /\ \/ verdict[d] = "granted" /\ Decide({d}, "accepted")
     \/ verdict[d] = "refused" /\ Decide({d}, "rejected")
  /\ UNCHANGED <<trusted, stopped>>

Cancel(d) ==
  /\ verdict[d] \in {"asked", "granted", "refused"}
  /\ Decide({d}, "cancelled")
  /\ UNCHANGED <<trusted, stopped>>

Next ==
  \/ \E d \in Dials : Ask(d) \/ Grant(d) \/ Deliver(d) \/ Cancel(d)
  \/ \E r \in Remotes : \E D \in SUBSET Asking(r) : Succeed(r, D) \/ Fail(r, D)
  \/ Stop

Spec == Init /\ [][Next]_gateVars
=============================================================================
