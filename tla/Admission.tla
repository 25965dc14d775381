----------------------------- MODULE Admission ------------------------------
(***************************************************************************)
(* What the handshakes promise about the sets that gate connections: a        *)
(* session is decided once, an acceptor admits only the initiator of an       *)
(* eligible session, nobody is ever forgotten, and an initiator hears that it *)
(* is admitted, by an acceptor that runs this code, only when it is.          *)
(***************************************************************************)
CONSTANTS
  Sessions, Endpoints, Ours, From, To,
  Eligible,    \* sessions whose initiator the acceptor may admit
  Returnable   \* sessions whose acceptor the initiator may admit in return

VARIABLES
  decision,   \* the acceptor's: "open", "admitted" or "refused"
  heard,      \* the initiator's: "waiting", "admitted", "refused" or "joined"
  allowed     \* the set that each endpoint keeps

vars == <<decision, heard, allowed>>

Init ==
  /\ decision = [s \in Sessions |-> "open"]
  /\ heard = [s \in Sessions |-> "waiting"]
  /\ allowed = [e \in Endpoints |-> {}]

Admit(s) ==
  /\ s \in Eligible
  /\ decision[s] = "open"
  /\ decision' = [decision EXCEPT ![s] = "admitted"]
  /\ allowed' = [allowed EXCEPT ![To[s]] = @ \cup {From[s]}]
  /\ UNCHANGED heard

Refuse(s) ==
  /\ decision[s] = "open"
  /\ decision' = [decision EXCEPT ![s] = "refused"]
  /\ UNCHANGED <<heard, allowed>>

\* A refusal may also be heard when the verdict is lost.
Hear(s, verdict) ==
  /\ heard[s] = "waiting"
  /\ verdict = "admitted" /\ To[s] \in Ours => decision[s] = "admitted"
  /\ heard' = [heard EXCEPT ![s] = verdict]
  /\ UNCHANGED <<decision, allowed>>

Join(s) ==
  /\ s \in Returnable
  /\ heard[s] = "admitted"
  /\ heard' = [heard EXCEPT ![s] = "joined"]
  /\ allowed' = [allowed EXCEPT ![From[s]] = @ \cup {To[s]}]
  /\ UNCHANGED decision

Next ==
  \E s \in Sessions :
    \/ Admit(s) \/ Refuse(s) \/ Join(s)
    \/ Hear(s, "admitted") \/ Hear(s, "refused")

Spec == Init /\ [][Next]_vars
=============================================================================
