---------------------------- MODULE SignerProofs ----------------------------
(***************************************************************************)
(* Proofs about Signer, for any number of calls and any size of the pool.    *)
(***************************************************************************)
EXTENDS Signer, FiniteSetTheorems, TLAPS

\* The pool's queue holds each job once, and only jobs that have not begun.
BacklogIsQueued ==
  /\ \A i \in 1..Len(backlog) : job[backlog[i]] = "queued"
  /\ \A i, j \in 1..Len(backlog) : backlog[i] = backlog[j] => i = j
  /\ \A c \in Calls : caller[c] = "idle" => job[c] = "none"

\* The mutex: its owner is the one job that signs.
OwnerSigns == \A c \in Calls : job[c] = "signing" <=> owner = c

\* The TEE context is at rest unless its mutex is held or poisoned, and who holds
\* the mutex has fed it alone.
ContextFollowsMutex ==
  /\ owner # None => ~poisoned /\ ctx = <<owner>>
  /\ owner = None /\ ~poisoned => ctx = <<>>

\* A signature that a job has made is its own.
ResultIsOwn ==
  \A c \in Calls :
    /\ job[c] = "ok" => sig[c] = <<c>>
    /\ caller[c] = "signed" => job[c] = "ok"

IInv ==
  /\ TypeOK /\ IsFiniteSet(Running)
  /\ BacklogIsQueued
  /\ OwnerSigns
  /\ ContextFollowsMutex
  /\ ResultIsOwn
-----------------------------------------------------------------------------
LEMMA InitIInv ==
  ASSUME Init
  PROVE  IInv
<1> USE SignerAssumption DEF Init
<1>1. Running = {}
  BY DEF Running
<1>2. IsFiniteSet(Running) /\ Cardinality(Running) <= Threads
  BY <1>1, FS_EmptySet
<1>3. TypeOK
  <2>1. poisoned \in BOOLEAN
    BY Zenon
  <2>2. backlog \in Seq(Calls) /\ ctx \in Seq(Calls)
    OBVIOUS
  <2>3. /\ caller \in [Calls -> {"idle", "awaiting", "signed", "error", "gone"}]
        /\ job \in [Calls -> {"none", "queued", "locking", "signing",
                              "ok", "err", "panicked"}]
        /\ sig \in [Calls -> Seq(Calls) \cup {None}]
    OBVIOUS
  <2> QED
    BY <1>2, <2>1, <2>2, <2>3 DEF TypeOK
<1>4. BacklogIsQueued /\ OwnerSigns /\ ContextFollowsMutex /\ ResultIsOwn
  BY DEF BacklogIsQueued, OwnerSigns, ContextFollowsMutex, ResultIsOwn
<1> QED
  BY <1>2, <1>3, <1>4 DEF IInv

\* A step that starts no job leaves the pool within its size.
LEMMA PoolShrinks ==
  ASSUME IInv, Running' \subseteq Running
  PROVE  IsFiniteSet(Running') /\ Cardinality(Running') <= Threads
<1>1. /\ IsFiniteSet(Running) /\ Cardinality(Running) <= Threads
      /\ Threads \in Nat
  BY SignerAssumption DEF IInv, TypeOK
<1>2. IsFiniteSet(Running') /\ Cardinality(Running') <= Cardinality(Running)
  BY <1>1, FS_Subset
<1>3. Cardinality(Running) \in Nat /\ Cardinality(Running') \in Nat
  BY <1>1, <1>2, FS_CardinalityType
<1> QED
  BY <1>1, <1>2, <1>3

\* The futures of the callers.
LEMMA CallIInv ==
  ASSUME IInv, NEW c \in Calls, sign_blocking(c)
  PROVE  IInv'
<1> USE SignerAssumption DEF sign_blocking, mutexVars
<1>1. TypeOK /\ job[c] = "none" /\ job' = [job EXCEPT ![c] = "queued"]
  BY DEF IInv, BacklogIsQueued
<1>2. Running' = Running
  BY <1>1 DEF Running, TypeOK
<1>3. TypeOK' /\ IsFiniteSet(Running')
  BY <1>1, <1>2, PoolShrinks DEF TypeOK
<1>4. BacklogIsQueued'
  <2>1. /\ Len(backlog') = Len(backlog) + 1
        /\ \A i \in 1..Len(backlog) : backlog'[i] = backlog[i]
        /\ backlog'[Len(backlog) + 1] = c
        /\ Len(backlog) \in Nat
        /\ \A i \in 1..Len(backlog) : backlog[i] \in Calls
    BY <1>1 DEF TypeOK
  <2>2. \A i \in 1..Len(backlog) : backlog[i] # c
    BY <1>1 DEF IInv, BacklogIsQueued
  <2>3. \A i \in 1..Len(backlog') : i \in 1..Len(backlog) \/ i = Len(backlog) + 1
    BY <2>1
  <2>4. \A i \in 1..Len(backlog') : job'[backlog'[i]] = "queued"
    BY <1>1, <2>1, <2>2, <2>3 DEF IInv, BacklogIsQueued, TypeOK
  <2>5. \A i, j \in 1..Len(backlog') : backlog'[i] = backlog'[j] => i = j
    BY <2>1, <2>2, <2>3 DEF IInv, BacklogIsQueued
  <2>6. \A x \in Calls : caller'[x] = "idle" => job'[x] = "none"
    BY <1>1 DEF IInv, BacklogIsQueued, TypeOK
  <2> QED
    BY <2>4, <2>5, <2>6 DEF BacklogIsQueued
<1>5. OwnerSigns' /\ ContextFollowsMutex' /\ ResultIsOwn'
  BY <1>1 DEF IInv, OwnerSigns, ContextFollowsMutex, ResultIsOwn, TypeOK
<1> QED
  BY <1>3, <1>4, <1>5 DEF IInv

LEMMA CallerIInv ==
  ASSUME IInv, NEW c \in Calls, cancel(c) \/ join(c)
  PROVE  IInv'
<1> USE DEF cancel, join, mutexVars
<1>1. TypeOK /\ UNCHANGED <<job, backlog, owner, poisoned, ctx, sig>>
  BY DEF IInv
<1>2. Running' = Running
  BY <1>1 DEF Running
<1>3. TypeOK' /\ IsFiniteSet(Running')
  BY <1>1, <1>2, PoolShrinks DEF TypeOK
<1>4. BacklogIsQueued'
  BY <1>1 DEF IInv, BacklogIsQueued, TypeOK
<1>5. OwnerSigns' /\ ContextFollowsMutex' /\ ResultIsOwn'
  BY <1>1 DEF IInv, OwnerSigns, ContextFollowsMutex, ResultIsOwn, TypeOK
<1> QED
  BY <1>3, <1>4, <1>5 DEF IInv

\* The pool takes the oldest job, if it has a thread.
LEMMA StartIInv ==
  ASSUME IInv, start
  PROVE  IInv'
<1> DEFINE h == Head(backlog)
<1> USE SignerAssumption DEF start, mutexVars
<1>1. /\ h \in Calls /\ job[h] = "queued" /\ Len(backlog) \in Nat \ {0}
      /\ backlog' \in Seq(Calls) /\ Len(backlog') = Len(backlog) - 1
      /\ \A i \in 1..Len(backlog') : i + 1 \in 1..Len(backlog) /\ backlog'[i] = backlog[i + 1]
      /\ h = backlog[1]
      /\ \A i \in 1..Len(backlog) : backlog[i] \in Calls
  BY DEF IInv, TypeOK, BacklogIsQueued
<1>2. job' = [job EXCEPT ![h] = "locking"] /\ TypeOK
  BY DEF IInv
<1>3. IsFiniteSet(Running') /\ Cardinality(Running') <= Threads
  <2>1. Running' = Running \cup {h} /\ h \notin Running
    BY <1>1, <1>2 DEF Running, TypeOK
  <2>2. IsFiniteSet(Running) /\ Cardinality(Running) \in Nat
    BY FS_CardinalityType DEF IInv
  <2>3. IsFiniteSet(Running') /\ Cardinality(Running') = Cardinality(Running) + 1
    BY <2>1, <2>2, FS_AddElement
  <2> QED
    BY <2>2, <2>3 DEF PoolHasThread
<1>4. TypeOK'
  BY <1>1, <1>2, <1>3 DEF TypeOK
<1>5. BacklogIsQueued'
  <2>1. \A i \in 1..Len(backlog') : backlog'[i] # h
    BY <1>1 DEF IInv, BacklogIsQueued
  <2>2. \A i \in 1..Len(backlog') : job'[backlog'[i]] = "queued"
    BY <1>1, <1>2, <2>1 DEF IInv, BacklogIsQueued, TypeOK
  <2>3. \A i, j \in 1..Len(backlog') : backlog'[i] = backlog'[j] => i = j
    BY <1>1 DEF IInv, BacklogIsQueued
  <2>4. \A x \in Calls : caller'[x] = "idle" => job'[x] = "none"
    BY <1>1, <1>2 DEF IInv, BacklogIsQueued, TypeOK
  <2> QED
    BY <2>2, <2>3, <2>4 DEF BacklogIsQueued
<1>6. OwnerSigns' /\ ContextFollowsMutex' /\ ResultIsOwn'
  BY <1>1, <1>2 DEF IInv, OwnerSigns, ContextFollowsMutex, ResultIsOwn, TypeOK
<1> QED
  BY <1>3, <1>4, <1>5, <1>6 DEF IInv

\* HydeSigner::sign on a pool thread.
LEMMA WorkIInv ==
  ASSUME IInv, NEW c \in Calls, Work(c)
  PROVE  IInv'
<1> USE SignerAssumption DEF mutexVars
<1>1. /\ TypeOK /\ job[c] \in {"locking", "signing"}
      /\ \E v \in {"signing", "ok", "err", "panicked"} : job' = [job EXCEPT ![c] = v]
      /\ UNCHANGED <<caller, backlog>>
  BY DEF IInv, Work, lock, lock_poisoned, sign, panic
<1>2. Running' \subseteq Running
  BY <1>1 DEF Running, TypeOK
<1>3. TypeOK' /\ IsFiniteSet(Running')
  <2>1. poisoned' \in BOOLEAN
    <3>1. poisoned' = poisoned \/ poisoned' = TRUE
      BY Zenon DEF Work, lock, lock_poisoned, sign, panic
    <3> QED
      BY <1>1, <3>1, Zenon DEF TypeOK
  <2>2. owner' \in Calls \cup {None}
    BY <1>1 DEF TypeOK, Work, lock, lock_poisoned, sign, panic
  <2>3. ctx' \in Seq(Calls)
    <3>1. ctx \in Seq(Calls)
      BY <1>1 DEF TypeOK
    <3>2. ctx' \in {ctx, <<>>, Append(ctx, c)}
      BY DEF Work, lock, lock_poisoned, sign, panic
    <3>3. <<>> \in Seq(Calls) /\ Append(ctx, c) \in Seq(Calls)
      BY <3>1
    <3> QED
      BY <3>1, <3>2, <3>3
  <2>4. sig' \in [Calls -> Seq(Calls) \cup {None}]
    BY <1>1 DEF TypeOK, Work, lock, lock_poisoned, sign, panic
  <2> QED
    BY <1>1, <1>2, <2>1, <2>2, <2>3, <2>4, PoolShrinks DEF TypeOK
<1>4. BacklogIsQueued'
  BY <1>1 DEF IInv, BacklogIsQueued, TypeOK
<1>5. CASE lock(c)
  <2>1. ctx' = <<c>> /\ owner' = c /\ ~poisoned' /\ owner = None
    BY <1>1, <1>5 DEF IInv, ContextFollowsMutex, lock
  <2> QED
    BY <1>1, <1>3, <1>4, <1>5, <2>1
       DEF IInv, lock, OwnerSigns, ContextFollowsMutex, ResultIsOwn, TypeOK
<1>6. CASE lock_poisoned(c)
  BY <1>1, <1>3, <1>4, <1>6
     DEF IInv, lock_poisoned, OwnerSigns, ContextFollowsMutex, ResultIsOwn, TypeOK
<1>7. CASE sign(c)
  <2>1. owner = c /\ ctx = <<c>> /\ ~poisoned /\ owner' = None
    BY <1>7 DEF IInv, sign, OwnerSigns, ContextFollowsMutex
  <2> QED
    BY <1>1, <1>3, <1>4, <1>7, <2>1
       DEF IInv, sign, OwnerSigns, ContextFollowsMutex, ResultIsOwn, TypeOK
<1>8. CASE panic(c)
  BY <1>1, <1>3, <1>4, <1>8
     DEF IInv, panic, OwnerSigns, ContextFollowsMutex, ResultIsOwn, TypeOK
<1> QED
  BY <1>5, <1>6, <1>7, <1>8 DEF Work

\* The inductive invariant holds of every reachable state of pool, mutex and context.
THEOREM Invariance == Spec => []IInv
<1>1. Init => IInv
  BY InitIInv
<1>2. ASSUME IInv, [Next]_vars
      PROVE  IInv'
  <2>1. CASE UNCHANGED vars
    BY <1>2, <2>1 DEF IInv, TypeOK, Running, BacklogIsQueued, OwnerSigns,
                      ContextFollowsMutex, ResultIsOwn, vars, mutexVars
  <2> QED
    BY <1>2, <2>1, StartIInv, CallIInv, CallerIInv, WorkIInv DEF Next
<1> QED
  BY <1>1, <1>2, PTL DEF Spec
-----------------------------------------------------------------------------
\* Every reachable state has its type; the pool never runs more jobs than it has
\* threads (sign_blocking).
THEOREM TypeCorrect == Spec => []TypeOK
<1>1. IInv => TypeOK
  BY DEF IInv
<1> QED
  BY <1>1, Invariance, PTL

\* Whoever signs has fed the TEE context alone: a context that a panic has left
\* halfway is not used again (HydeSigner::sign).
THEOREM ContextIsOwnAlways == Spec => []ContextIsOwn
<1>1. IInv => ContextIsOwn
  BY SignerAssumption DEF IInv, ContextIsOwn, OwnerSigns, ContextFollowsMutex
<1> QED
  BY <1>1, Invariance, PTL

\* A call that returns a signature returns its own (sign_blocking).
THEOREM SignatureIsOwnAlways == Spec => []SignatureIsOwn
<1>1. IInv => SignatureIsOwn
  BY DEF IInv, SignatureIsOwn, ResultIsOwn
<1> QED
  BY <1>1, Invariance, PTL
=============================================================================
