# A TLA+ development for iroh-hyde-auth

`iroh-hyde-auth` puts an institutional challenge–response in front of ordinary
iroh connections. An endpoint hook holds back every application dial until a
handshake on a separate ALPN has succeeded, and a hook on the other side admits
application connections only from endpoints that have completed it. This
directory models that machinery in TLA+, checks it with TLC on small instances
and proves its safety properties and refinements with TLAPS for instances of any
size.

## Inventory

| Part | State it keeps | Operations | Talks to |
|---|---|---|---|
| Initiator's authenticator (`outgoing.rs`; the same code in `mutual.rs`) | mpsc channel of 16, `allowed_remotes`, `pending_remotes`, a `JoinSet` | `before_connect`, `authenticate`, `spawn`, `run`, `handle_request`, `handle_completion` | the application's dials (oneshot answers), the handshake tasks, the `TaskGuard` |
| One-way handshake, initiator (`outgoing.rs::handshake`) | position in the exchange, the nonce read, its timestamp | hello, challenge, sign, assert, await close | the acceptor over QUIC, the signer |
| One-way handshake, acceptor (`incoming.rs`) | `allowed_remotes`, nonce and `server_now` of each session | `run_handshake`, `accept`, `after_handshake` | the initiator over QUIC, the verifier |
| Mutual handshake (`mutual.rs`) | one `allowed` set shared by both roles, `local_id` | both of the above, with both sides proving | as above |
| Signer (`signer.rs`) | a mutex around the TEE context | `sign`, `sign_blocking` | the blocking thread pool |
| Verifier (`verifier.rs`) | the roster, fixed at construction | `verify` | – |
| Framing (`wire.rs`) | how far a prefix or a body is written or read | `write_msg`, `read_msg`, `transcript` | QUIC streams |
| ssh-agent backend (`ssh_agent.rs`) | the agent's socket path and key | `connect`, `sign`, `verify`, `Reader` | an external agent |
| `util.rs`, `error.rs`, `lib.rs` | the task handle | `TaskGuard::drop`, `unix_secs` | – |
| Examples (`echo-auth.rs`, `mutual-echo.rs`) | a handle of the application's connection at each end | wiring of hooks, tasks and routers; the echo protocol | all of the above |

What is hard about it, and hard to test:

* dials, completions, failures, panics and the drop of the guard meet in one
  loop, in any order, while applications give up on dials they have started;
* the handshake's own dial passes through the hook that waits for the handshake;
* the verdict is only a close code, so recording, closing, losing the connection
  and the next application dial race;
* an assertion could arrive in a session it was not made for;
* two clocks, of which one is read before a slow signature;
* handshakes of several connections share one signer and its mutex, and their
  futures may be dropped while it works for them;
* the guard may be dropped at any point of a handshake, also between its success
  and the join that records it;
* each end of an application connection owns a handle whose drop cuts the other off;
* lengths read from a peer or an agent, at and beyond their limits.

`PROJECT.json` lists these hazards at the line where each bites, with the
properties that would catch it.

## Modules

```
DialGate          what the authenticator promises its applications
   ^ refined by
AuthTask          hook, channel, loop, table, cache, JoinSet     <- MCAuthTask

Admission         what a handshake promises about the sets that gate connections
   ^ refined by both
OneWayAuth        MutualAuth              <- MCOneWayAuth, MCMutualAuth
   ^ extend
Wire              sessions, clocks, connections, close codes, signatures, verifier

Deployment        OneWayAuth with AuthTask's slots as its sessions, and the
                  application's dials through both hooks         <- MCDeployment
   ^ extends
Echo              the echo protocol on the connections let in    <- MCEcho

Signer            blocking pool, mutex, TEE context              <- MCSigner

MessageStream     whole messages in order, or failure for a cause
   ^ refined by
Framing           length-prefixed messages on a byte stream      <- MCFraming
SshAgent          the ssh-agent backend                          <- MCSshAgent
   ^ both extend
Bytes             big-endian lengths
```

`XProofs` extends `X` and holds its theorems, for X = AuthTask, OneWayAuth,
MutualAuth, Deployment, Signer, Framing, SshAgent and Bytes; the last holds what
Framing's and SshAgent's proofs share. DeploymentProofs holds those of Deployment
and of Echo; it extends OneWayAuthProofs and instantiates AuthTaskProofs as
Deployment does AuthTask.

### AuthTask

| Variable | In the code |
|---|---|
| `call`, `answer` | how far each caller of `before_connect` is, and its oneshot channel |
| `queue` | the mpsc channel (`Capacity` stands for 16) |
| `loop` | the task: `held` before `spawn`, `running`, `stopped` |
| `allowed`, `pending` | `allowed_remotes`, `pending_remotes` |
| `hsState`, `hsRemote` | the `JoinSet`: a slot for each handshake task |
| `proved` | history: remotes with which a handshake has succeeded |

The application's dials and the handshake tasks are both callers of
`before_connect`; only the former are intercepted. The loop's steps are
`handle_request` (cached, joins, spawns) and `handle_completion`, and
`join_panicked` and `abort` are its two ends. Aborting is one step: between the
call of `abort` and the moment the runtime drops the task the loop may still
run, but it could have taken the same steps before the call. The loop's third
end, `rx.recv()` returning `None`, cannot happen: the task owns a clone of the
endpoint, the endpoint owns the hook, and the hook owns the sender.

`mutual.rs` has the same hook and loop with one difference: the cache is shared
with the acceptor side, which inserts into it (`record_inbound`, for the remotes
in `InboundPeers`). With `InboundPeers = {}` the module is `outgoing.rs`.

`DialGate` is the abstract specification. A dial asks, is granted or refused, and
the decision is delivered unless the application has given up. A grant needs an
authenticated remote; a refusal comes only from an attempt that failed while the
dial was asking, or from the authenticator's end, so a failure is never cached.
The mapping (`Gate` in AuthTask) shows a dial that is still sending to a stopped
task as refused already, because its send can only fail.

### OneWayAuth

`Wire` holds what the two exchanges share: each member of `Sessions` is one
connection on an auth ALPN between two endpoints, with the message on its way in
each direction and its close code; `Admitted` is what the acceptor's
`after_handshake` looks up for an application connection.

The initiator greets, reads the challenge and takes
its timestamp, signs (a step of its own, for as long as the signer takes), sends
its assertion and waits for the close. The acceptor challenges, checks, *records*
and then *closes*; recording and closing are two steps because the initiator
observes the second one from another machine. `abort` is the drop of the
handshake's future with the task's `JoinSet`.

Endpoints outside `Ours` do not run this code. They send any well-formed message
they can build from what was signed and drawn so far, sign only for their own
endpoint id, and close with any code. A connection may be lost at any time,
including after the acceptor has closed it and before the initiator has noticed.
A message that does not decode (too long, cut short, of another version) takes
one error path in the code and is one value in these two models; `Framing` has
the bytes. The close code is
truncated to 32 bits before it is compared (`as u32`), as in the code, with `U32`
scaled down for TLC.

External and assumed: QUIC authenticates endpoint ids and delivers streams in
order while the connection lasts; signatures are unforgeable; nonces are never
drawn twice.

### MutualAuth

The exchange of `mutual.rs`, in the same style: sessions, foreign endpoints, loss,
clocks and close codes are as above, but each endpoint of ours may be initiator
of some sessions and acceptor of others, and has one set, `allowed`, into which
both its acceptor side (`record`) and its task (`handle_completion`) insert.

| In the model | In the code |
|---|---|
| `spawned` | endpoints whose `MutualAuthTask::spawn` has set `local_id`; `accept` denies before that |
| `stopped`, `drop_guard` | endpoints whose `TaskGuard` was dropped: the loop is gone, with every result it has not joined |
| `abort` | the `JoinSet` of such a loop drops one of its handshakes, each in its own time |
| `peerNonce`, `time`, `proof`, indexed by session and role | what each of the two `handshake` functions has read, stamped and verified |
| `greet` | `handle_request` with an empty set and table for that remote, and `handshake` up to the greeting |
| `read_challenge`, `refuse_challenge`, `respond`, `read_verdict` | the rest of the initiator's `handshake` |
| `accept`, `read_hello`, `send_challenge`, `read_response`, `record`, `close_*` | the acceptor's `handshake` and `accept` |
| `Released`, `Admitted` | what `handle_request` and `after_handshake` look up in the set |

The tolerance is given for each role: `with_max_skew` changes the acceptor's only,
the task's is fixed. A dropped guard stops the whole loop: it starts and joins
nothing more, its hook refuses every dial (`Released`), and a handshake that has
returned `Ok` stays unjoined for ever. The acceptor side is the router's and goes
on. Unlike `incoming.rs`, both sides compare the timestamp with
the clock at the moment they read it.

### Admission

The abstract specification that both exchanges implement. An acceptor decides a
session once; it admits only the initiator of an *eligible* session (a member;
in mutual mode, with trust in both directions); sets only grow; an initiator
hears "admitted" from an acceptor that runs this code only when it is; and in
mutual mode it records the acceptor only then. `Decision` and `Heard` map the
positions of the two sides to it.

### Deployment

`examples/echo-auth.rs` as a composition. AuthTask lets a handshake end at any time
with any result; here its slots are the sessions of OneWayAuth, a slot's dial
passes the hook before `greet`, and its result is what the exchange came to.
`drop_guard` stops the loop and `drop_handshake` then drops each running exchange
at its own time, as tokio does. A dial that the hook lets through, or one of an
endpoint that has no hook (`Bare`, for `connect_no_auth`), then fails on its way
(`connect_fails`) or meets the acceptor's hook, which opens or rejects it
(`Connect`). Sessions are used once, and there is
one for each dial, since a dial starts at most one handshake. All endpoints run
this code; foreign ones are in OneWayAuth's own runs, and a panic of a handshake
task and an application that gives up are in AuthTask's. Of the unused sessions
with an acceptor one stands for all (`Unused`), since they differ in name only.

### Echo

The echo protocol of the example on the connections that Deployment has opened.

| Variable | In the code |
|---|---|
| `connector` | `Echo::connect`: before `open_bi`, waiting in `read_to_end`, returned with the echo or an error |
| `handler` | `Echo::accept`: before its copy is finished, in `closed().await`, returned |
| `response` | the response with its end: not sent, on its way, arrived |
| `conn` | the connection: up, closed by an end, lost by the network |

Each end owns a handle of the connection. Returning drops it, which closes the
connection, and a response that is still on its way is then discarded
(`connect_errs`). `Echo::accept` therefore waits for the other end to close
(`AwaitsClose`) and `Echo::connect` closes when it has the whole response, so the two
wait for each other in turn.

### Signer

A call of `sign_blocking` queues a job for tokio's blocking pool and awaits it. The
job locks the mutex, feeds the TEE context and ends with a signature, an error or
a panic; a panic poisons and releases the mutex and reaches the caller as an
error. A caller may be dropped at any time and its job goes on. Of the context the
model assumes the worst: it keeps what a signature fed it until that signature
ends, and a panic leaves it so.

### Framing and MessageStream

One direction of a stream, for `write_msg`/`read_msg` and, with `min` = 1, for the
agent's `send`/`recv`. The prefix and the body are written in two steps, as the code
awaits twice, so that a dropped writer can leave one without the other. The reader
takes chunks of any size (which also covers how the network delivers them),
compares the length, allocates, and returns the body; a `postcard` encoding is
taken as the message. `MessageStream` is what its users rely on.

### SshAgent

`SshAgentSigner::connect` and `sign`, with the `Reader` as functions of buffer and
position: a read gives a value, an error, or the panic of a Rust slice that ends
before it begins. The agent is external. Its keys may change at any step; it
answers from the keys it has, or hangs up, or answers with any bytes. Only
`connect`'s loop is stepwise; `sign` reads its reply in one step, since nothing else
can touch the reply. `verify` is `SshVerifier`'s.

## Runs

| Run | Instance | Shows |
|---|---|---|
| `authenticator` | 3 dials (two to one remote), 2 remotes of which one is silent and may also dial in, channel of 2, 2 slots | `TypeOK`, `AcceptedIsProved`, `OneHandshakePerRemote`, `AuthenticatesOnce`, `NoStrandedDial`, `GateSpec` (refinement of DialGate), `EveryDialDecided` (liveness) |
| `oneway_relay` | a member dials a peer off the roster, which dials the acceptor | `TypeOK`, `MembersOnly` |
| `oneway_replay` | a foreign member dials the acceptor twice, freshness check disabled | `NoReplay` |
| `oneway_members` | a member with a clock ahead and a foreign member dial the acceptor | `VerdictIsRecorded`, `DeniedOnlyForSkew`, `AdmissionSpec` (refinement of Admission), `HandshakeEnds` |
| `mutual_relay` | a dials c, which it trusts; c, foreign, dials b, which trusts only a | `TypeOK`, `TrustIsMutual`, `AnswersOnlyVerified` |
| `mutual_replay` | a foreign member dials an endpoint twice, freshness check disabled | `NoReplay` |
| `mutual_crossed` | a and b dial each other, a's clock ahead, guards may be dropped | `WorksBothWays`, `DeniedOnlyForDelay`, `SymmetricUnlessLost`, `AdmissionSpec`, `CrossedHandshakesEnd` |
| `deployment` | two dials to one acceptor that tolerates no skew, channel of 1, the clock may move once | `ReleasedIsAdmitted`, `DialsDecided`, `AcceptorsReleased` |
| `echo` | a dials b, which trusts it, and hosp2, which does not; lab, which b trusts, dials b without a hook | `ServedIsMember`, `NotCutOff`, `EchoReturns` |
| `signer` | 3 calls, 2 threads | `SignatureIsOwn`, `ContextIsOwn`, `EveryCallAnswered` |
| `framing` | two-bit lengths, limit 2, messages of 0 to 4 bytes, up to 3 of them, empty ones taken or refused | `TypeOK`, `AllocationBounded`, `StreamSpec` (refinement of MessageStream), `EveryMessageArrives` |
| `ssh_agent` | lists of up to 2 keys of three kinds, replies of any 0 to 5 bytes out of four | `TypeOK`, `FirstCandidateIsUsed`, `NeverPanics`, `SignatureVerifies` |

Bounds and why they suffice. Two dials to one remote are enough to join a
handshake and to race its completion, and the third, to another remote, shows
that remotes do not disturb each other; a channel of two is full with all three
under way; two slots let a second handshake with one remote happen if the code
allowed it. Sessions interact only through the signatures
made, the endpoints' sets and time, so two at once show every interaction of a
pair. Time up to 3 with a tolerance of 1 and a clock error of 1 puts the skew on
both sides of the limit (time up to 1 does in `mutual_crossed`, where one clock is
ahead); the clock error of -1 makes a clock read before the
epoch. Three calls on two threads let one wait for a thread and one for the mutex
while a third signs, panics or has lost its caller. Messages of 0 to 4 bytes are
empty, inside, at and above the limit of 2 and, with 4, too long for a prefix; the
third message shows that the stream is in step again after two. The agent's bytes
are 0..15 with lengths of one byte and `Usize` = 16, the case in which a length can
overflow a position; the bytes 0, 1, 9 and 15 are an empty field, a short one, the
key type and the largest length. The one move of the
clock in `deployment` is what makes its acceptor deny a handshake, on either side
of which the other dial can be. In `echo` the clock stands still and skew is not
limited, since what is denied there is denied for the roster; its three connections
are one of a client that is on the acceptor's roster, one of a client that is not, and
one of a member that never proved itself. Symmetry is used over the two interchangeable
sessions of the replay runs, which check no liveness. `CHECK_DEADLOCK FALSE` everywhere: once its dials are
decided, or its connections are done, the system may stop.

Fairness. `AuthTask` assumes that the runtime polls ready futures, that `select!`
serves both branches (tokio's is random), and that the user spawns the task. It
does *not* assume that a handshake ends: only those with `Responsive` remotes do.
The initiator has no timeout, and a remote that keeps its connection alive
without answering holds it for ever; `EveryDialDecided` then says that dials to
other remotes, and all dials once the task is gone, are still decided.
`OneWayAuth` justifies the assumption for remotes that run this code:
`HandshakeEnds`, from the fairness of the two sides' own steps (including the
return of the signer and the discovery of a dead connection) and nothing about
foreign peers. `Deployment` closes the gap: there `DialsDecided` follows from the
fairness of both sides alone. `MutualAuth` assumes the same as `OneWayAuth`, and no
fairness of `spawn`: an acceptor that is not spawned still denies. Nor does anything
make `drop_guard` or `abort` happen: a handshake whose loop is gone may be dropped
or run to its end, and `CrossedHandshakesEnd` promises that a success is joined only
while the guard is kept. `Echo` assumes that both ends run and that a connection
that stays up delivers.
`Signer` assumes
that pool threads run, that the TEE answers or panics, and weak fairness of each
job's wait for the mutex: std's mutex is not fair, but each call takes it once, so
that finitely many calls cannot starve one; an endless stream of them could.
`Framing` assumes that a read or write once begun goes on while the stream lasts.

Behaviour the models show that is no disagreement with the documentation:

* in mutual mode a dial can be refused by its own failed handshake although the
  remote has been recorded meanwhile by the acceptor side; the next dial succeeds
  (`DialGate!Fail` allows it for `InboundPeers` only);
* the acceptor's freshness check uses the time of the challenge, so an assertion
  may be of any age when it is checked, provided that it was timestamped close
  enough to the challenge; the nonce is what ties it to the session (`NoReplay`
  holds with the check disabled);
* a session whose close is lost leaves the initiator recorded at the acceptor
  while its own dial is refused; its next dial runs a new handshake;
* in mutual mode such a session, or one whose initiator drops its guard before it has
  joined the result, leaves the two sets unequal: the acceptor's dials to that peer
  are released from its set without a handshake and rejected by the peer's hook, until
  the peer dials by itself. These two are the only ways (`SymmetricUnlessLost`). The
  documentation is about handshakes that succeed and guards that are kept
  (`tests/e2e.rs:75`, `mutual.rs:263`), where both directions are open
  (`WorksBothWays`);
* in mutual mode a signature slower than the tolerance is denied even when clocks
  agree, since the acceptor reads its clock when the response arrives
  (`DeniedOnlyForDelay`); in one-way mode a slow signer is not (`DeniedOnlyForSkew`);
* one panic in the TEE library makes every later signature of that signer an
  error, for as long as the process lives; handshakes fail in an orderly way and
  dials are refused (`EveryCallAnswered`, `ContextIsOwn`);
* a signature is made, and a thread and the mutex are used, for a handshake that
  was dropped while it waited;
* `write_msg` sends what fits 32 bits, `read_msg` takes what fits `MAX_MSG`: a
  longer message costs the connection at the reader and not at the writer
  (`MessageStream!Fail`). No message of the protocol comes near the limit;
* `SshAgentSigner::sign` returns whatever a reply holds in the place of a signature,
  without a check of its length or of the signature; the peer's verifier refuses it;
* a connection accepted before `spawn` is closed with `CLOSE_DENIED` while its
  initiator still waits for the challenge, so the initiator reports a transport
  error and not a denial.

## Proofs

Every theorem is about `Spec` (`DSpec` in Deployment, `ESpec` in Echo), so that it holds with any
fairness added, and for any values of the constants that satisfy the module's
named assumptions. None of the properties is inductive by itself; each module has
an invariant `IInv` that is, a lemma for each action or group of actions, and the
theorems follow from `Spec => []IInv`.

| Module | Theorem | Property |
|---|---|---|
| `AuthTaskProofs` | `TypeCorrect`, `AcceptedIsProvedAlways`, `Deduplication`, `CacheIsFinal`, `NobodyStranded` | `TypeOK`, `AcceptedIsProved`, `OneHandshakePerRemote`, `AuthenticatesOnce`, `NoStrandedDial` |
| | `Refinement` | `Spec => GateSpec` |
| `OneWayAuthProofs` | `TypeCorrect`, `MembersOnlyAlways`, `NoReplayAlways`, `VerdictIsRecordedAlways`, `DeniedOnlyForSkewAlways` | the invariants of those names |
| | `Refinement` | `Spec => AdmissionSpec` |
| `MutualAuthProofs` | `TypeCorrect`, `TrustIsMutualAlways`, `AnswersOnlyVerifiedAlways`, `NoReplayAlways`, `WorksBothWaysAlways`, `SymmetricUnlessLostAlways`, `DeniedOnlyForDelayAlways` | the invariants of those names |
| | `Refinement` | `Spec => AdmissionSpec` |
| `DeploymentProofs` | `ImplementsExchange`, `ImplementsTask` | `DSpec` implies OneWayAuth's `Spec` and AuthTask's |
| | `KeepsPromises` | `DSpec` implies `AdmissionSpec` and AuthTask's `GateSpec` |
| | `TypesCorrect`, `ReleasedIsAdmittedAlways`, `ServedIsMemberAlways` | `TypesOK`, `ReleasedIsAdmitted`, `ServedIsMember` |
| | `NotCutOffAlways` | `ESpec` implies `NotCutOff` always |
| | `EchoIsDeployed` | `ESpec` implies `DSpec`, and with it all of the above |
| `SignerProofs` | `TypeCorrect`, `ContextIsOwnAlways`, `SignatureIsOwnAlways` | the invariants of those names |
| `FramingProofs` | `TypeCorrect`, `AllocationBoundedAlways` | `TypeOK`, `AllocationBounded` |
| | `Refinement` | `Spec => StreamSpec` |
| `BytesProofs` | `PrefixRoundTrip` | `from_be_bytes` undoes `to_be_bytes` for every `u32` |
| `SshAgentProofs` | `TypeCorrect`, `FirstCandidateIsUsedAlways`, `NeverPanicsAlways`, `SignatureVerifiesAlways` | the invariants of those names |

*AuthTask.* That a remote has at most one handshake needs the table and the JoinSet
to agree (`WaitersHaveHandshake`: an entry exists exactly while a handshake with
that remote is in the set); that nobody is stranded needs to know where an
unanswered request is (`WaitingIsHeld`); that an accepted dial is backed needs the
answers still on their way to be backed (`AnswersBacked`); and the refinement needs
that a oneshot sender is in one place and unused (`OwedOnce`), or a second answer
could overturn a first. Only application dials wait (`OnlyDialsWait`), which is
where the ALPN bypass matters.

*OneWayAuth and MutualAuth.* A signature is a pair of key and transcript, and the
argument runs through who made it: every signature of an endpoint of ours names
that endpoint (`SignersSignForThemselves`), foreign endpoints sign only with their
own keys and for themselves, and what is on its way or has been checked is one of
these. The rest relates what each side holds to what it has read and stamped. In
mutual mode both roles have these facts, and the deciding part is that a side's
proof, once verified, names the nonces of both and the role, so that it fits no
other session or role. `DeniedOnlyForSkew` and `DeniedOnlyForDelay` need the
opposite direction, that an honest message can only fail the freshness check.
`SymmetricUnlessLost` has a second invariant, `RestInv`, on top of the first: whoever
is in a set has proved itself to its owner or was joined by it (`AllowedOK`), and an
initiator of ours that has answered an acceptor of ours is not denied and fails
only because its loop is gone or its connection was lost (`OutcomeOK`). At rest, a
peer that is in one set and not in the other is then an initiator that answered
and failed. `WorksBothWays` uses of it that an endpoint in a session has been spawned.

*Deployment.* The composition is shown to implement both parts, and its own property
then joins their invariants: `ProvedIsAdmitted` says that a remote for which a
handshake has succeeded has recorded this endpoint, `SlotsAreSessions` relates the
slot of a handshake to its session, `AdmittedIsProved` every entry of an acceptor's
set to a session in which it was proved, and `AppIsAdmitted` an application
connection to that set. The two promises then hold at once
(`KeepsPromises`), and together they give what the application relies on: whom the
client's hook lets through has proved itself to that acceptor (AuthTask's
`AcceptedIsProved` and `ProvedIsAdmitted`), and whom the acceptor's hook lets in is on
its roster (OneWayAuth's `MembersOnly`) and has proved so to it (`ServedIsMember`). AuthTask's assumptions are proved for the instance, not
assumed.

*Echo.* `NotCutOff` needs to know who closes: only the end that has the whole response
(`EchoInv`). The echo changes nothing of the deployment, which is `EchoIsDeployed`.

*Signer.* `OwnerSigns`: the owner of the mutex is the one job that signs.
`ContextFollowsMutex`: the context holds what the owner fed it, nothing when the
mutex is free, and anything once it is poisoned. The type needs the set of running
jobs to be finite.

*Framing.* The reader's buffer, the stream and what is still to be written are,
together, the encoding of the messages not yet returned (`Layout`); `Z` stands for
what a lost connection or a dropped writer left out. A complete prefix is then that
of the next message, which gives both that the length is right and that the reader
is in step again after each body.

*SshAgent.* `Reader::take` is shown to stay in the reply for any length asked, and
`put_string` and `Reader::string` to be inverse wherever the string is.
`SignerParsed` ties the key that the signer publishes to the blob with which it asks
for a signature. `FirstCandidateIsUsed` has an invariant of its own, `ListInv`: while
`connect` scans the reply of an agent that follows the protocol, its position is the
end of the keys already passed, none of which is a candidate, and the iterations
left are the keys not yet seen (`Scanned`); there is no signer before `connect` has
found its key (`SignerIsSet`). The lemmas `AnswerIs` and `IdentityRead` unroll the
reply, which is the concatenation of its list, key by key.

*Bytes.* The library states induction for a predicate given as an operator, which
the provers cannot instantiate; the same fact for a *set* of numbers follows from its
theorem that `<` is well-founded on `Nat` (`LeastNumber`, `Induction`), and so does the
existence of a function given by its first value and a step (`Recursion`). With
these a recursive function is shown to satisfy its defining equation (`PowerIs`,
`ValueIs`, `FlattenIs`), and a prefix of any width to read back as the number that it
was made from.

The assumptions on constants, all evaluated by TLC in the runs:

* `DialAssumption`, `CapacityAssumption` (AuthTask), `WireAssumption`,
  `SessionAssumption`, `ClockAssumption` (Wire): the constants have their types, and
  `None`, `Lost` and `Unlimited` are not values of anything else; no session connects
  an endpoint to itself. `SkewAssumption`, `MutualAssumption`: tolerances are numbers or
  unlimited (the mutual task's is a number). `SignatureAssumption` (OneWayAuth,
  MutualAuth): `None` is no signature. `SignerAssumption`: the pool has a thread.
* `DeploymentAssumption`: one client, all endpoints run this code, each dial's target
  is an acceptor of some session, dials, sessions and connections without a hook are
  different things, the channel has room for one request.
* `BytesAssumption`, `FramingAssumption`, `AgentAssumption`: types; a byte has more than
  one value and a prefix at least one byte, a `usize` is at least as wide as a `u32`,
  the agent's message numbers are bytes, and keys and the message to be signed are
  not empty. `ReplyAssumption`: no count or string in what an ssh-agent answers is too
  long for its prefix, and no answer is too long for memory; `recv` takes no more
  than 1 MiB.

Only model-checked: liveness (`EveryDialDecided`, `HandshakeEnds`,
`CrossedHandshakesEnd`, `DialsDecided`, `AcceptorsReleased`, `EchoReturns`,
`EveryCallAnswered`, `EveryMessageArrives`), which the prover does not cover. Every
safety property and every refinement that a run checks is a theorem. The type
invariants of Signer and Deployment are theorems only.

## Not modelled, and why

* Restart of a process: endpoint ids are ephemeral and nothing is persisted, so a
  restarted endpoint is a new one.
* Poisoning of the `allowed` mutexes: nothing panics while holding them.
* Change of the roster: a verifier owns its copy, and `Roster` has `insert` but no
  operation that removes a key, although its documentation speaks of removing one
  to revoke it (`VerifyError::Revoked` is never produced). There is no step to
  model. `allowed` is not checked against the roster again in any case, so that
  trust lasts as long as the endpoint.
* Timeouts: neither the handshakes nor the agent's `recv` has one. A peer or an
  agent that stays silent is covered by what is *not* assumed fair.
* Shutdown of the runtime, which cancels queued blocking jobs together with the
  futures that await them.
* `mutual-echo.rs`: it wires what `MutualAuth` models and repeats the echo protocol
  of `Echo`.
* A server that shuts down while the echo is under way: the example does so after its
  dials have returned.
* The encoding of `postcard`, and `from_env`, which only looks up a path.
* Wording of errors, logging and labels of institutions.

## Plan

All modules above, their runs, and proofs of every safety property and refinement
that a run checks are in place. What would extend the development is liveness: the
prover has no rules for fairness, so the eight properties above stay with TLC.
