------------------------------- MODULE Signer -------------------------------
(***************************************************************************)
(* signer.rs: handshakes of all connections share one HydeSigner.  Each       *)
(* sign_blocking hands a job to tokio's blocking pool and awaits it; the jobs *)
(* take turns at the TEE context behind a std Mutex, which a panic poisons.   *)
(*                                                                          *)
(* External: the pool serves jobs in order on at most Threads threads and     *)
(* finishes a job whose caller has gone; a TEE context holds what a signature *)
(* feeds it until that signature ends, and a panic leaves it as it is.        *)
(***************************************************************************)
EXTENDS Naturals, Sequences, FiniteSets

CONSTANTS
  Calls,     \* calls of sign_blocking, each for a message of its own
  Threads,   \* size of the blocking pool
  None       \* nobody holds the mutex; no signature

ASSUME SignerAssumption == Threads \in Nat \ {0} /\ None \notin Calls

VARIABLES
  caller,     \* the future of each call
  job,        \* the closure that runs on the pool
  backlog,    \* jobs the pool has not begun, in order
  owner,      \* the job that holds the mutex
  poisoned,   \* whether a holder has panicked
  ctx,        \* the messages that the TEE context has been fed
  sig         \* what each call's signature is over

mutexVars == <<owner, poisoned, ctx>>
vars == <<caller, job, backlog, mutexVars, sig>>

Running == {c \in Calls : job[c] \in {"locking", "signing"}}

TypeOK ==
  /\ caller \in [Calls -> {"idle", "awaiting", "signed", "error", "gone"}]
  /\ job \in [Calls -> {"none", "queued", "locking", "signing",
                        "ok", "err", "panicked"}]
  /\ backlog \in Seq(Calls)
  /\ Cardinality(Running) <= Threads
  /\ owner \in Calls \cup {None}
  /\ poisoned \in BOOLEAN
  /\ ctx \in Seq(Calls)
  /\ sig \in [Calls -> Seq(Calls) \cup {None}]

Init ==
  /\ caller = [c \in Calls |-> "idle"]
  /\ job = [c \in Calls |-> "none"]
  /\ backlog = <<>>
  /\ owner = None
  /\ poisoned = FALSE
  /\ ctx = <<>>
  /\ sig = [c \in Calls |-> None]
-----------------------------------------------------------------------------
sign_blocking(c) ==
  /\ caller[c] = "idle"
  /\ caller' = [caller EXCEPT ![c] = "awaiting"]
  /\ job' = [job EXCEPT ![c] = "queued"]
  /\ backlog' = Append(backlog, c)
  /\ UNCHANGED <<mutexVars, sig>>

\* The handshake is dropped (its task's guard is), but the job is not.
cancel(c) ==
  /\ caller[c] = "awaiting"
  /\ caller' = [caller EXCEPT ![c] = "gone"]
  /\ UNCHANGED <<job, backlog, mutexVars, sig>>

PoolHasThread == Cardinality(Running) < Threads

start ==
  /\ backlog # <<>>
  /\ PoolHasThread
  /\ job' = [job EXCEPT ![Head(backlog)] = "locking"]
  /\ backlog' = Tail(backlog)
  /\ UNCHANGED <<caller, mutexVars, sig>>

\* The mutex is acquired, and the signature begins.
lock_unguarded(c) ==
  /\ job[c] = "locking"
  /\ ~poisoned
  /\ owner' = c
  /\ ctx' = Append(ctx, c)
  /\ job' = [job EXCEPT ![c] = "signing"]
  /\ UNCHANGED <<caller, backlog, poisoned, sig>>
lock_poisoned_too(c) ==
  /\ job[c] = "locking"
  /\ owner = None
  /\ owner' = c
  /\ ctx' = Append(ctx, c)
  /\ job' = [job EXCEPT ![c] = "signing"]
  /\ UNCHANGED <<caller, backlog, poisoned, sig>>
lock(c) ==
  /\ job[c] = "locking"
  /\ owner = None /\ ~poisoned
  /\ owner' = c
  /\ ctx' = Append(ctx, c)
  /\ job' = [job EXCEPT ![c] = "signing"]
  /\ UNCHANGED <<caller, backlog, poisoned, sig>>

\* The mutex is acquired and found poisoned: an error, and it is released again.
lock_poisoned(c) ==
  /\ job[c] = "locking"
  /\ owner = None /\ poisoned
  /\ job' = [job EXCEPT ![c] = "err"]
  /\ UNCHANGED <<caller, backlog, mutexVars, sig>>

\* ctx.sign returns and the guard is dropped.
sign(c) ==
  /\ job[c] = "signing"
  /\ owner' = None
  /\ ctx' = <<>>
  /\ \/ /\ job' = [job EXCEPT ![c] = "ok"]
        /\ sig' = [sig EXCEPT ![c] = ctx]
     \/ /\ job' = [job EXCEPT ![c] = "err"]
        /\ UNCHANGED sig
  /\ UNCHANGED <<caller, backlog, poisoned>>

\* ctx.sign panics: unwinding poisons and releases the mutex.
panic_keeps_lock(c) ==
  /\ job[c] = "signing"
  /\ poisoned' = TRUE
  /\ job' = [job EXCEPT ![c] = "panicked"]
  /\ UNCHANGED <<caller, backlog, owner, ctx, sig>>
panic(c) ==
  /\ job[c] = "signing"
  /\ owner' = None
  /\ poisoned' = TRUE
  /\ job' = [job EXCEPT ![c] = "panicked"]
  /\ UNCHANGED <<caller, backlog, ctx, sig>>

\* The JoinHandle's result: a panic reaches the caller as an error.
join(c) ==
  /\ caller[c] = "awaiting"
  /\ job[c] \in {"ok", "err", "panicked"}
  /\ caller' = [caller EXCEPT ![c] = IF job[c] = "ok" THEN "signed" ELSE "error"]
  /\ UNCHANGED <<job, backlog, mutexVars, sig>>

Work(c) == lock(c) \/ lock_poisoned(c) \/ sign(c) \/ panic(c)

Next ==
  \/ start
  \/ \E c \in Calls : sign_blocking(c) \/ cancel(c) \/ Work(c) \/ join(c)

Spec == Init /\ [][Next]_vars

\* Pool threads run, the TEE answers or panics, and the runtime polls a caller
\* whose job has ended.
Fairness ==
  /\ WF_vars(start)
  /\ \A c \in Calls : WF_vars(Work(c)) /\ WF_vars(join(c))

FairSpec == Spec /\ Fairness
-----------------------------------------------------------------------------
\* A call that returns a signature returns one over its own message and nothing
\* else, however the jobs of other handshakes, cancelled or not, interleave with
\* it (HydeSigner::sign holds the mutex for the whole signature).
SignatureIsOwn ==
  \A c \in Calls : caller[c] = "signed" => sig[c] = <<c>>

\* A context that a panic has left halfway through a signature is never used
\* again: whoever signs has fed it alone (HydeSigner::sign gives up on a poisoned
\* mutex).
ContextIsOwn ==
  \A c \in Calls : job[c] = "signing" => ctx = <<c>>

\* After a panic every call still gets an answer, as it does behind jobs whose
\* callers have gone: nobody waits for ever for the mutex or for a thread.
EveryCallAnswered ==
  \A c \in Calls : (caller[c] = "awaiting") ~> (caller[c] # "awaiting")
=============================================================================
