--------------------------- MODULE AuthTaskProofs ---------------------------
(***************************************************************************)
(* Proofs about AuthTask, for every set of dials and remotes, every channel  *)
(* capacity and every number of handshake tasks.                             *)
(***************************************************************************)
EXTENDS AuthTask, TLAPS

\* Receiving from the channel: what leaves it is its head, and nothing else.
LEMMA QueueTail ==
  ASSUME NEW S, NEW q \in Seq(S), q # <<>>
  PROVE  /\ Head(q) \in S
         /\ \E i \in 1..Len(q) : q[i] = Head(q)
         /\ Tail(q) \in Seq(S)
         /\ Len(Tail(q)) = Len(q) - 1
         /\ \A i \in 1..Len(Tail(q)) : i + 1 \in 1..Len(q) /\ Tail(q)[i] = q[i + 1]
         /\ \A i \in 1..Len(q) :
              q[i] = Head(q) \/ \E j \in 1..Len(Tail(q)) : Tail(q)[j] = q[i]
<1>1. Len(q) \in Nat /\ Len(q) > 0
  OBVIOUS
<1>2. Head(q) = q[1] /\ Head(q) \in S
  OBVIOUS
<1>3. Tail(q) \in Seq(S) /\ Len(Tail(q)) = Len(q) - 1
  OBVIOUS
<1>4. \A i \in 1..Len(Tail(q)) : i + 1 \in 1..Len(q) /\ Tail(q)[i] = q[i + 1]
  BY <1>1, <1>3
<1>5. ASSUME NEW i \in 1..Len(q), i # 1
      PROVE  \E j \in 1..Len(Tail(q)) : Tail(q)[j] = q[i]
  <2>1. i - 1 \in 1..Len(Tail(q)) /\ (i - 1) + 1 = i
    BY <1>1, <1>3, <1>5
  <2> QED
    BY <2>1, <1>4
<1> QED
  BY <1>1, <1>2, <1>3, <1>4, <1>5

\* Sending on the channel: what was in it stays, and the new request is added.
LEMMA QueueAppend ==
  ASSUME NEW S, NEW q \in Seq(S), NEW x \in S
  PROVE  /\ Append(q, x) \in Seq(S)
         /\ Len(Append(q, x)) = Len(q) + 1
         /\ \A i \in 1..Len(q) : i \in 1..Len(Append(q, x)) /\ Append(q, x)[i] = q[i]
         /\ Append(q, x)[Len(q) + 1] = x
         /\ Len(q) + 1 \in 1..Len(Append(q, x))
         /\ \A i \in 1..Len(Append(q, x)) :
              Append(q, x)[i] = x \/ \E j \in 1..Len(q) : q[j] = Append(q, x)[i]
  OBVIOUS
-----------------------------------------------------------------------------
(***************************************************************************)
(* IInv is inductive: one lemma per action.                                  *)
(***************************************************************************)
LEMMA InitIInv ==
  ASSUME Init
  PROVE  IInv
<1> USE DialAssumption, CapacityAssumption DEF Init, Active, Callers
<1>1. TypeOK
  BY DEF TypeOK
<1>2. OnlyDialsWait /\ WaitersHaveHandshake /\ OneHandshakePerRemote
  BY DEF OnlyDialsWait, WaitersHaveHandshake, OneHandshakePerRemote
<1>3. WaitingIsHeld /\ AnswersBacked /\ AuthenticatesOnce /\ OwedOnce
  BY DEF WaitingIsHeld, AnswersBacked, AuthenticatesOnce, OwedOnce, Queued
<1> QED
  BY <1>1, <1>2, <1>3 DEF IInv

LEMMA StutterIInv ==
  ASSUME IInv, UNCHANGED vars
  PROVE  IInv'
BY DEF IInv, TypeOK, OnlyDialsWait, WaitersHaveHandshake, OneHandshakePerRemote,
       WaitingIsHeld, AnswersBacked, AuthenticatesOnce, OwedOnce, Queued, Active,
       vars, taskVars

\* The hook's actions that change nothing but a caller's own state: a handshake's
\* dial goes straight to accept, and only an ok answer makes a dial accept.
LEMMA HookIInv ==
  ASSUME IInv, NEW c \in Callers,
         \/ before_connect(c)
         \/ authenticate_stopped(c)
         \/ authenticate_recv(c)
         \/ c \in Dials /\ cancel(c)
  PROVE  IInv'
<1> USE DialAssumption DEF IInv, Callers
<1>1. /\ \E v : /\ v \in {"sending", "accept", "reject", "cancelled"}
                /\ call' = [call EXCEPT ![c] = v]
                /\ c \in Dials /\ v = "accept" => answer[c] = "ok"
                /\ c \in Tasks => v = "accept"
                /\ v = "sending" => call[c] = "idle"
                /\ v \in {"accept", "reject"} =>
                     call[c] \in {"idle", "sending"} \/ answer[c] # "none"
      /\ UNCHANGED <<answer, queue, loop, allowed, taskVars, proved>>
  BY DEF before_connect, authenticate_stopped, authenticate_recv, cancel,
         Intercepted, Verdict, OnlyDialsWait
<1>2. PICK v : /\ v \in {"sending", "accept", "reject", "cancelled"}
               /\ call' = [call EXCEPT ![c] = v]
               /\ c \in Dials /\ v = "accept" => answer[c] = "ok"
               /\ c \in Tasks => v = "accept"
               /\ v = "sending" => call[c] = "idle"
               /\ v \in {"accept", "reject"} =>
                    call[c] \in {"idle", "sending"} \/ answer[c] # "none"
  BY <1>1
<1>3. TypeOK'
  BY <1>1, <1>2 DEF TypeOK, taskVars
<1>4. OnlyDialsWait' /\ WaitersHaveHandshake' /\ OneHandshakePerRemote'
  BY <1>1, <1>2 DEF OnlyDialsWait, WaitersHaveHandshake, OneHandshakePerRemote,
                    TypeOK, Active, taskVars
<1>5. WaitingIsHeld'
  BY <1>1, <1>2 DEF WaitingIsHeld, TypeOK, Queued, taskVars
<1>6. AnswersBacked' /\ AuthenticatesOnce'
  BY <1>1, <1>2 DEF AnswersBacked, AuthenticatesOnce, TypeOK, Active, taskVars
<1>7. OwedOnce'
  BY <1>1, <1>2 DEF OwedOnce, TypeOK, Queued, taskVars
<1> QED
  BY <1>3, <1>4, <1>5, <1>6, <1>7

LEMMA SendIInv ==
  ASSUME IInv, NEW c \in Callers, authenticate_send(c)
  PROVE  IInv'
<1> USE DialAssumption, CapacityAssumption DEF IInv, Callers, authenticate_send
<1>1. c \in Dials
  BY DEF OnlyDialsWait
<1>2. queue \in Seq(Callers) /\ Len(queue) \in Nat
  BY DEF TypeOK
<1>3. /\ queue' \in Seq(Callers)
      /\ Len(queue') = Len(queue) + 1
      /\ \A i \in 1..Len(queue) : i \in 1..Len(queue') /\ queue'[i] = queue[i]
      /\ \E i \in 1..Len(queue') : queue'[i] = c
      /\ \A i \in 1..Len(queue') :
           queue'[i] = c \/ \E j \in 1..Len(queue) : queue[j] = queue'[i]
  BY <1>2, QueueAppend
<1>4. TypeOK'
  BY <1>2, <1>3 DEF TypeOK, HasRoom, taskVars
<1>5. OnlyDialsWait'
  BY <1>1, <1>3 DEF OnlyDialsWait, TypeOK, taskVars
<1>6. WaitersHaveHandshake' /\ OneHandshakePerRemote' /\ AuthenticatesOnce'
  BY DEF WaitersHaveHandshake, OneHandshakePerRemote, AuthenticatesOnce, Active,
         taskVars
<1>7. Queued \cup {c} \subseteq Queued'
  BY <1>3 DEF Queued
<1>8. WaitingIsHeld'
  BY <1>1, <1>7 DEF WaitingIsHeld, TypeOK, taskVars
<1>9. AnswersBacked'
  BY <1>1 DEF AnswersBacked, TypeOK, taskVars
<1>10. c \notin Queued /\ c \notin pending[Target[c]] /\ answer[c] = "none"
  BY <1>1 DEF OwedOnce
<1>11. Queued' = Queued \cup {c}
  BY <1>3, <1>7 DEF Queued
<1>12. \A i, j \in 1..Len(queue') : queue'[i] = queue'[j] => i = j
  <2>1. \A i \in 1..Len(queue') : i \in 1..Len(queue) \/ i = Len(queue')
    BY <1>2, <1>3
  <2>2. queue'[Len(queue')] = c
    BY <1>2, QueueAppend
  <2>3. \A i \in 1..Len(queue) : queue[i] # c
    BY <1>10 DEF Queued
  <2> QED
    BY <1>3, <2>1, <2>2, <2>3 DEF OwedOnce
<1>13. OwedOnce'
  BY <1>1, <1>3, <1>10, <1>11, <1>12 DEF OwedOnce, TypeOK, taskVars
<1> QED
  BY <1>4, <1>5, <1>6, <1>8, <1>9, <1>13

LEMMA SpawnIInv ==
  ASSUME IInv, spawn
  PROVE  IInv'
<1> USE DEF IInv, spawn, taskVars
<1>1. TypeOK' /\ OnlyDialsWait' /\ WaitersHaveHandshake' /\ OneHandshakePerRemote'
  BY DEF TypeOK, OnlyDialsWait, WaitersHaveHandshake, OneHandshakePerRemote, Active
<1>2. AnswersBacked' /\ AuthenticatesOnce'
  BY DEF AnswersBacked, AuthenticatesOnce, Active
<1>3. WaitingIsHeld' /\ OwedOnce'
  BY DEF WaitingIsHeld, OwedOnce, Queued
<1> QED
  BY <1>1, <1>2, <1>3

\* The request at the head of the channel is answered from the cache, joins a
\* handshake, or starts one; in each case its dial is not stranded.
LEMMA RequestIInv ==
  ASSUME IInv, handle_request
  PROVE  IInv'
<1> DEFINE c == Head(queue)
           r == Target[c]
<1> USE DialAssumption, CapacityAssumption DEF IInv, Callers
<1>1. queue \in Seq(Callers) /\ queue # <<>> /\ queue' = Tail(queue)
  BY DEF TypeOK, handle_request
<1>2. /\ c \in Callers
      /\ queue' \in Seq(Callers)
      /\ Len(queue') = Len(queue) - 1
      /\ \E i \in 1..Len(queue) : queue[i] = c
      /\ \A i \in 1..Len(queue') : i + 1 \in 1..Len(queue) /\ queue'[i] = queue[i + 1]
      /\ \A i \in 1..Len(queue) :
           queue[i] = c \/ \E j \in 1..Len(queue') : queue'[j] = queue[i]
  BY <1>1, QueueTail
<1>3. c \in Dials /\ r \in Remotes /\ RemoteOf(c) = r
  BY <1>2 DEF OnlyDialsWait, RemoteOf
<1>4. Queued \subseteq Queued' \cup {c}
  BY <1>2 DEF Queued
<1>5. UNCHANGED <<loop, allowed, proved>>
  BY DEF handle_request
<1>6. \A i \in 1..Len(queue') : queue'[i] \in Dials
  BY <1>2 DEF OnlyDialsWait
<1>7. Len(queue') <= Capacity
  BY <1>1, <1>2 DEF TypeOK
<1>8. /\ \A i, j \in 1..Len(queue') : queue'[i] = queue'[j] => i = j
      /\ Queued' \subseteq Queued /\ c \notin Queued'
  <2>1. \A i \in 1..Len(queue') : i + 1 \in 1..Len(queue) /\ queue'[i] = queue[i + 1]
    BY <1>2
  <2>2. ASSUME NEW i \in 1..Len(queue'), NEW j \in 1..Len(queue'),
               queue'[i] = queue'[j]
        PROVE  i = j
    <3>1. i + 1 = j + 1
      BY <2>1, <2>2 DEF OwedOnce
    <3> QED
      BY <3>1
  <2>3. 1 \in 1..Len(queue) /\ queue[1] = c
    BY <1>1
  <2>4. \A i \in 1..Len(queue') : queue'[i] # c
    BY <2>1, <2>3 DEF OwedOnce
  <2>5. Queued' \subseteq Queued /\ c \notin Queued'
    BY <2>1, <2>4 DEF Queued
  <2> QED
    BY <2>2, <2>5
<1>9. /\ c \in Queued /\ c \notin pending[r]
      /\ answer[c] = "none" /\ call[c] \in {"waiting", "cancelled"}
  BY <1>2, <1>3 DEF OwedOnce, Queued
<1>10. CASE request_cached(c, r)
  <2> USE <1>10 DEF request_cached
  <2>1. TypeOK'
    BY <1>2, <1>5, <1>7 DEF TypeOK, Reply, taskVars
  <2>2. /\ OnlyDialsWait' /\ WaitersHaveHandshake'
        /\ OneHandshakePerRemote' /\ AuthenticatesOnce'
    BY <1>5, <1>6 DEF OnlyDialsWait, WaitersHaveHandshake, OneHandshakePerRemote,
                      AuthenticatesOnce, Active, taskVars
  <2>3. WaitingIsHeld'
    BY <1>3, <1>4 DEF WaitingIsHeld, Reply, taskVars
  <2>4. AnswersBacked'
    BY <1>3, <1>5 DEF AnswersBacked, Reply, taskVars
  <2>5. OwedOnce'
    <3>1. \A d \in Dials : ~(d \in Queued' /\ d \in pending'[Target[d]])
      BY <1>8 DEF OwedOnce, taskVars
    <3>2. \A d \in Dials : answer'[d] = IF d = c THEN "ok" ELSE answer[d]
      BY DEF Reply
    <3>3. \A d \in Dials : d \in Queued' \/ d \in pending'[Target[d]] =>
            answer'[d] = "none" /\ call'[d] \in {"waiting", "cancelled"}
      BY <1>8, <1>9, <3>2 DEF OwedOnce, taskVars
    <3>4. \A d \in Dials : call'[d] \in {"idle", "sending"} => answer'[d] = "none"
      BY <1>9, <3>2 DEF OwedOnce
    <3> QED
      BY <1>8, <3>1, <3>3, <3>4 DEF OwedOnce
  <2> QED
    BY <2>1, <2>2, <2>3, <2>4, <2>5
<1>11. CASE request_joins(c, r)
  <2> USE <1>11 DEF request_joins
  <2>1. TypeOK'
    BY <1>2, <1>3, <1>5, <1>7 DEF TypeOK
  <2>2. OnlyDialsWait'
    BY <1>3, <1>6 DEF OnlyDialsWait, TypeOK
  <2>3. WaitersHaveHandshake'
    BY <1>3 DEF WaitersHaveHandshake, HandshakePending, TypeOK, Active
  <2>4. OneHandshakePerRemote' /\ AuthenticatesOnce'
    BY <1>3, <1>5 DEF OneHandshakePerRemote, AuthenticatesOnce, TypeOK, Active
  <2>5. WaitingIsHeld'
    BY <1>3, <1>4 DEF WaitingIsHeld, TypeOK
  <2>6. AnswersBacked'
    BY <1>5 DEF AnswersBacked
  <2>7. \A x \in Remotes : pending'[x] = IF x = r THEN pending[x] \cup {c} ELSE pending[x]
    BY <1>3 DEF TypeOK
  <2>8. OwedOnce'
    BY <1>3, <1>8, <1>9, <2>7 DEF OwedOnce
  <2> QED
    BY <2>1, <2>2, <2>3, <2>4, <2>5, <2>6, <2>8
<1>12. CASE request_spawns(c, r)
  <2> USE <1>12 DEF request_spawns
  <2>1. PICK t \in Tasks :
          /\ hsState[t] = "free"
          /\ hsState' = [hsState EXCEPT ![t] = "live"]
          /\ hsRemote' = [hsRemote EXCEPT ![t] = r]
          /\ call' = [call EXCEPT ![t] = "idle"]
    OBVIOUS
  <2>2. TypeOK'
    BY <1>2, <1>3, <1>5, <1>7, <2>1 DEF TypeOK
  <2>3. OnlyDialsWait'
    BY <1>3, <1>6, <2>1 DEF OnlyDialsWait, TypeOK
  <2>4. pending[r] = {} /\ \A u \in Tasks : Active(u) => hsRemote[u] # r
    BY <1>3 DEF WaitersHaveHandshake, HandshakePending
  <2>5. /\ \A u \in Tasks : Active(u)' <=> Active(u) \/ u = t
        /\ \A u \in Tasks : hsRemote'[u] = IF u = t THEN r ELSE hsRemote[u]
        /\ \A x \in Remotes : pending'[x] = IF x = r THEN {c} ELSE pending[x]
        /\ ~Active(t)
    BY <1>3, <2>1 DEF TypeOK, Active
  <2>6. WaitersHaveHandshake'
    <3> HIDE DEF request_spawns
    <3>1. ASSUME NEW x \in Remotes, x # r
          PROVE  pending'[x] # {} <=> \E u \in Tasks : Active(u)' /\ hsRemote'[u] = x
      <4>1. pending[x] # {} <=> \E u \in Tasks : Active(u) /\ hsRemote[u] = x
        BY DEF WaitersHaveHandshake
      <4> QED
        BY <2>5, <3>1, <4>1
    <3>2. pending'[r] # {} /\ Active(t)' /\ hsRemote'[t] = r
      BY <1>3, <2>5
    <3> QED
      BY <2>1, <3>1, <3>2 DEF WaitersHaveHandshake
  <2>7. OneHandshakePerRemote'
    BY <2>4, <2>5 DEF OneHandshakePerRemote
  <2>8. AuthenticatesOnce'
    BY <1>3, <1>5, <2>5 DEF AuthenticatesOnce, TypeOK
  <2>9. WaitingIsHeld'
    BY <1>3, <1>4, <2>1, <2>4, <2>5 DEF WaitingIsHeld, TypeOK
  <2>10. AnswersBacked'
    BY <1>5, <2>1 DEF AnswersBacked, TypeOK
  <2>11. \A d \in Dials : call'[d] = call[d]
    BY <2>1 DEF TypeOK
  <2>12. OwedOnce'
    BY <1>3, <1>8, <1>9, <2>4, <2>5, <2>11 DEF OwedOnce
  <2> QED
    BY <2>2, <2>3, <2>6, <2>7, <2>8, <2>9, <2>10, <2>12
<1> QED
  BY <1>3, <1>10, <1>11, <1>12 DEF handle_request

\* A completed handshake frees its slot and its entry of the table together, and
\* answers every dial of the entry.
LEMMA CompletionIInv ==
  ASSUME IInv, NEW t \in Tasks, handle_completion(t)
  PROVE  IInv'
<1> DEFINE r == hsRemote[t]
<1> USE DialAssumption DEF IInv, Callers, handle_completion
<1>1. r \in Remotes /\ Active(t) /\ Queued' = Queued
  BY DEF TypeOK, Active, Queued
<1>2. TypeOK'
  BY <1>1 DEF TypeOK, Recorded, Released, Reply
<1>3. OnlyDialsWait'
  BY <1>1 DEF OnlyDialsWait, TypeOK, Released
<1>4. /\ \A u \in Tasks : Active(u)' <=> Active(u) /\ u # t
      /\ \A x \in Remotes : pending'[x] = IF x = r THEN {} ELSE pending[x]
      /\ UNCHANGED hsRemote
  BY <1>1 DEF TypeOK, Active, Released
<1>5. \A u \in Tasks : Active(u) /\ hsRemote[u] = r => u = t
  BY <1>1 DEF OneHandshakePerRemote
<1>6. WaitersHaveHandshake'
  BY <1>4, <1>5 DEF WaitersHaveHandshake
<1>7. OneHandshakePerRemote'
  BY <1>4 DEF OneHandshakePerRemote
<1>8. allowed' \subseteq allowed \cup {r}
  BY DEF Recorded
<1>9. AuthenticatesOnce'
  BY <1>4, <1>5, <1>8 DEF AuthenticatesOnce, TypeOK
<1>10. WaitingIsHeld'
  BY <1>1, <1>4 DEF WaitingIsHeld, Reply, TypeOK
<1>11. AnswersBacked'
  BY <1>1 DEF AnswersBacked, Reply, Recorded, TypeOK, OnlyDialsWait
<1>12. OwedOnce'
  <2>1. /\ UNCHANGED <<queue, call>> /\ Queued' = Queued
        /\ \A d \in Dials : d \notin pending[r] => answer'[d] = answer[d]
    BY <1>1 DEF Reply
  <2>2. \A d \in Dials : d \in pending[r] => Target[d] = r
    BY <1>1 DEF OnlyDialsWait
  <2>3. \A d \in Dials : /\ pending'[Target[d]] \subseteq pending[Target[d]]
                         /\ d \in pending'[Target[d]] => d \notin pending[r]
    BY <1>4, <2>2
  <2>4. \A d \in Dials : d \in pending[r] =>
          d \notin Queued /\ call[d] \in {"waiting", "cancelled"}
    BY <2>2 DEF OwedOnce
  <2> QED
    BY <2>1, <2>3, <2>4 DEF OwedOnce
<1> QED
  BY <1>2, <1>3, <1>6, <1>7, <1>9, <1>10, <1>11, <1>12

\* However the loop ends, every dial it owed an answer gets one.
LEMMA HaltIInv ==
  ASSUME IInv, Halt
  PROVE  IInv'
<1> USE DialAssumption, CapacityAssumption DEF IInv, Callers, Halt
<1>1. TypeOK'
  BY DEF TypeOK, Reply
<1>2. OnlyDialsWait' /\ WaitersHaveHandshake' /\ OneHandshakePerRemote'
  BY DEF OnlyDialsWait, WaitersHaveHandshake, OneHandshakePerRemote, Active, TypeOK
<1>3. WaitingIsHeld'
  BY DEF WaitingIsHeld, Reply, DroppedSenders, TypeOK
<1>4. AnswersBacked' /\ AuthenticatesOnce'
  BY DEF AnswersBacked, AuthenticatesOnce, Reply, Active, TypeOK
<1>5. OwedOnce'
  <2>1. Queued' = {} /\ Len(queue') = 0
    BY DEF Queued
  <2>2. \A d \in Dials : d \in DroppedSenders => d \in Queued \/ d \in pending[Target[d]]
    BY DEF DroppedSenders, OnlyDialsWait
  <2>3. \A d \in Dials : call[d] \in {"idle", "sending"} => d \notin DroppedSenders
    BY <2>2 DEF OwedOnce
  <2> QED
    BY <2>1, <2>3 DEF OwedOnce, Reply
<1> QED
  BY <1>1, <1>2, <1>3, <1>4, <1>5

LEMMA HandshakeEndsIInv ==
  ASSUME IInv, NEW t \in Tasks, NEW res \in {"ok", "err", "panic"},
         handshake_ends(t, res)
  PROVE  IInv'
<1> USE DEF IInv, handshake_ends
<1>1. TypeOK' /\ OnlyDialsWait' /\ WaitingIsHeld' /\ OwedOnce'
  BY DEF TypeOK, OnlyDialsWait, WaitingIsHeld, OwedOnce, Queued
<1>2. (\A u \in Tasks : Active(u)' <=> Active(u)) /\ UNCHANGED <<hsRemote, pending, allowed>>
  BY DEF TypeOK, Active
<1>3. WaitersHaveHandshake' /\ OneHandshakePerRemote' /\ AuthenticatesOnce'
  BY <1>2 DEF WaitersHaveHandshake, OneHandshakePerRemote, AuthenticatesOnce
<1>4. AnswersBacked'
  BY DEF AnswersBacked, TypeOK
<1> QED
  BY <1>1, <1>3, <1>4

LEMMA InboundIInv ==
  ASSUME IInv, NEW r \in InboundPeers, record_inbound(r)
  PROVE  IInv'
<1> USE DialAssumption DEF IInv, record_inbound
<1>1. TypeOK' /\ OnlyDialsWait' /\ WaitingIsHeld' /\ OwedOnce'
  BY DEF TypeOK, OnlyDialsWait, WaitingIsHeld, OwedOnce, Queued, taskVars
<1>2. WaitersHaveHandshake' /\ OneHandshakePerRemote'
  BY DEF WaitersHaveHandshake, OneHandshakePerRemote, Active, taskVars
<1>3. AnswersBacked' /\ AuthenticatesOnce'
  BY DEF AnswersBacked, AuthenticatesOnce, Active, taskVars
<1> QED
  BY <1>1, <1>2, <1>3

LEMMA NextIInv ==
  ASSUME IInv, [Next]_vars
  PROVE  IInv'
<1>1. CASE UNCHANGED vars
  BY <1>1, StutterIInv
<1>2. ASSUME NEW c \in Callers,
             \/ before_connect(c)
             \/ authenticate_send(c)
             \/ authenticate_stopped(c)
             \/ authenticate_recv(c)
      PROVE  IInv'
  BY <1>2, HookIInv, SendIInv
<1>3. ASSUME NEW d \in Dials, cancel(d)
      PROVE  IInv'
  BY <1>3, HookIInv DEF Callers
<1>4. CASE spawn
  BY <1>4, SpawnIInv
<1>5. CASE handle_request
  BY <1>5, RequestIInv
<1>6. ASSUME NEW t \in Tasks,
             \/ handle_completion(t)
             \/ join_panicked(t)
             \/ \E res \in {"ok", "err", "panic"} : handshake_ends(t, res)
      PROVE  IInv'
  BY <1>6, CompletionIInv, HaltIInv, HandshakeEndsIInv DEF join_panicked
<1>7. CASE abort
  BY <1>7, HaltIInv DEF abort
<1>8. ASSUME NEW r \in InboundPeers, record_inbound(r)
      PROVE  IInv'
  BY <1>8, InboundIInv
<1> QED
  BY <1>1, <1>2, <1>3, <1>4, <1>5, <1>6, <1>7, <1>8 DEF Next

\* The inductive invariant holds of every reachable state of hook, channel and loop.
THEOREM Invariance == Spec => []IInv
<1>1. Init => IInv
  BY InitIInv
<1>2. IInv /\ [Next]_vars => IInv'
  BY NextIInv
<1> QED
  BY <1>1, <1>2, PTL DEF Spec
-----------------------------------------------------------------------------
(***************************************************************************)
(* What the invariant gives.                                                 *)
(***************************************************************************)

\* Every reachable state has its type; in particular the channel never holds
\* more than Capacity requests.
THEOREM TypeCorrect == Spec => []TypeOK
<1>1. IInv => TypeOK
  BY DEF IInv
<1> QED
  BY <1>1, Invariance, PTL

\* A dial is let through only to a remote with which a handshake succeeded.
THEOREM AcceptedIsProvedAlways == Spec => []AcceptedIsProved
<1>1. IInv => AcceptedIsProved
  BY DEF IInv, AnswersBacked, AcceptedIsProved
<1> QED
  BY <1>1, Invariance, PTL

\* Concurrent dials never cause two handshakes with one remote.
THEOREM Deduplication == Spec => []OneHandshakePerRemote
<1>1. IInv => OneHandshakePerRemote
  BY DEF IInv
<1> QED
  BY <1>1, Invariance, PTL

\* A remote in the cache is not authenticated again.
THEOREM CacheIsFinal == Spec => []AuthenticatesOnce
<1>1. IInv => AuthenticatesOnce
  BY DEF IInv
<1> QED
  BY <1>1, Invariance, PTL

\* No exit of the loop and no completion strands a waiting dial.
THEOREM NobodyStranded == Spec => []NoStrandedDial
<1>1. IInv => NoStrandedDial
  <2> SUFFICES ASSUME IInv, NEW d \in Dials,
                      call[d] = "waiting", answer[d] = "none",
                      d \notin Queued
               PROVE  /\ d \in pending[Target[d]]
                      /\ \E t \in Tasks : Active(t) /\ hsRemote[t] = Target[d]
    BY DEF NoStrandedDial
  <2>1. d \in pending[Target[d]] /\ Target[d] \in Remotes
    BY DialAssumption DEF IInv, WaitingIsHeld
  <2> QED
    BY <2>1 DEF IInv, WaitersHaveHandshake
<1> QED
  BY <1>1, Invariance, PTL
-----------------------------------------------------------------------------
(***************************************************************************)
(* The refinement: hook, channel, table and cache implement DialGate.        *)
(***************************************************************************)

LEMMA GateInit ==
  ASSUME Init
  PROVE  Gate!Init
  BY DialAssumption DEF Init, Gate!Init, DialVerdict, Callers

LEMMA GateStutter ==
  ASSUME UNCHANGED vars
  PROVE  UNCHANGED Gate!gateVars
  BY DEF vars, Gate!gateVars, DialVerdict

\* A step that shows the applications nothing.
LEMMA GateHidden ==
  ASSUME \A d \in Dials : DialVerdict(d)' = DialVerdict(d),
         UNCHANGED allowed,
         (loop = "stopped")' = (loop = "stopped")
  PROVE  UNCHANGED Gate!gateVars
  BY DEF Gate!gateVars

\* The hook: asking, delivery of the decision, giving up.
LEMMA GateHook ==
  ASSUME IInv, IInv', NEW c \in Callers,
         \/ before_connect(c)
         \/ authenticate_send(c)
         \/ authenticate_stopped(c)
         \/ authenticate_recv(c)
         \/ c \in Dials /\ cancel(c)
  PROVE  [Gate!Next]_(Gate!gateVars)
<1> USE DialAssumption DEF Callers
<1>1. /\ \A x \in Callers : x # c => call'[x] = call[x]
      /\ UNCHANGED <<answer, loop, allowed>>
  BY DEF before_connect, authenticate_send, authenticate_stopped,
         authenticate_recv, cancel, IInv, TypeOK
<1>2. \A d \in Dials : d # c => DialVerdict(d)' = DialVerdict(d)
  BY <1>1 DEF DialVerdict
<1>3. CASE c \in Tasks
  BY <1>1, <1>2, <1>3, GateHidden
<1>4. CASE c \in Dials
  <2> USE <1>4
  <2>1. TypeOK /\ TypeOK' /\ OwedOnce
    BY DEF IInv
  <2>2. CASE before_connect(c)
    <3>1. call[c] = "idle" /\ call'[c] = "sending"
      BY <2>1, <2>2 DEF before_connect, Intercepted, TypeOK
    <3>2. Gate!Ask(c)
      BY <1>1, <1>2, <2>1, <3>1 DEF Gate!Ask, Gate!Decide, DialVerdict
    <3> QED
      BY <3>2 DEF Gate!Next
  <2>3. CASE authenticate_send(c)
    <3>1. call[c] = "sending" /\ call'[c] = "waiting" /\ loop # "stopped"
      BY <2>1, <2>3 DEF authenticate_send, TypeOK
    <3>2. answer[c] = "none"
      BY <2>1, <3>1 DEF OwedOnce
    <3>3. DialVerdict(c)' = DialVerdict(c)
      BY <1>1, <3>1, <3>2 DEF DialVerdict
    <3> QED
      BY <1>1, <1>2, <3>3, GateHidden
  <2>4. CASE authenticate_stopped(c)
    <3>1. call[c] = "sending" /\ call'[c] = "reject" /\ loop = "stopped"
      BY <2>1, <2>4 DEF authenticate_stopped, TypeOK
    <3>2. Gate!Deliver(c)
      BY <1>1, <1>2, <3>1 DEF Gate!Deliver, Gate!Decide, DialVerdict
    <3> QED
      BY <3>2 DEF Gate!Next
  <2>5. CASE authenticate_recv(c)
    <3>1. /\ call[c] = "waiting" /\ answer[c] # "none"
          /\ call'[c] = IF answer[c] = "ok" THEN "accept" ELSE "reject"
      BY <2>1, <2>5 DEF authenticate_recv, Verdict, TypeOK
    <3>2. Gate!Deliver(c)
      BY <1>1, <1>2, <3>1 DEF Gate!Deliver, Gate!Decide, DialVerdict
    <3> QED
      BY <3>2 DEF Gate!Next
  <2>6. CASE cancel(c)
    <3>1. call[c] \in {"sending", "waiting"} /\ call'[c] = "cancelled"
      BY <2>1, <2>6 DEF cancel, TypeOK
    <3>2. Gate!Cancel(c)
      BY <1>1, <1>2, <3>1 DEF Gate!Cancel, Gate!Decide, DialVerdict
    <3> QED
      BY <3>2 DEF Gate!Next
  <2> QED
    BY <2>2, <2>3, <2>4, <2>5, <2>6
<1> QED
  BY <1>3, <1>4

\* The loop takes a request: a cached remote grants, anything else is hidden.
LEMMA GateRequest ==
  ASSUME IInv, handle_request
  PROVE  [Gate!Next]_(Gate!gateVars)
<1> USE DialAssumption DEF Callers
<1>1. PICK c \in Dials : c = Head(queue) /\ RemoteOf(c) = Target[c] /\ c \in Queued
  <2>1. queue \in Seq(Callers) /\ queue # <<>>
    BY DEF IInv, TypeOK, handle_request
  <2>2. \E i \in 1..Len(queue) : queue[i] = Head(queue)
    BY <2>1, QueueTail
  <2> QED
    BY <2>2 DEF IInv, OnlyDialsWait, RemoteOf, Queued
<1> DEFINE r == Target[c]
<1>2. answer[c] = "none" /\ call[c] \in {"waiting", "cancelled"}
  BY <1>1 DEF IInv, OwedOnce
<1>3. UNCHANGED <<loop, allowed>>
  BY DEF handle_request
<1>4. CASE request_cached(c, r)
  <2>1. /\ UNCHANGED call /\ r \in allowed
        /\ \A d \in Dials : answer'[d] = IF d = c THEN "ok" ELSE answer[d]
    BY <1>4 DEF request_cached, Reply
  <2>2. \A d \in Dials : d # c => DialVerdict(d)' = DialVerdict(d)
    BY <1>3, <2>1 DEF DialVerdict
  <2>3. CASE call[c] = "cancelled"
    <3>1. DialVerdict(c)' = DialVerdict(c)
      BY <1>1, <2>1, <2>3 DEF DialVerdict
    <3> QED
      BY <1>3, <2>2, <3>1, GateHidden
  <2>4. CASE call[c] = "waiting"
    <3>1. DialVerdict(c) = "asked" /\ DialVerdict(c)' = "granted"
      BY <1>1, <1>2, <2>1, <2>4 DEF DialVerdict
    <3>2. Gate!Grant(c)
      BY <1>1, <1>3, <2>1, <2>2, <3>1 DEF Gate!Grant, Gate!Decide
    <3> QED
      BY <1>1, <3>2 DEF Gate!Next
  <2> QED
    BY <1>2, <2>3, <2>4
<1>5. CASE request_joins(c, r) \/ request_spawns(c, r)
  <2>1. UNCHANGED answer /\ \A d \in Dials : call'[d] = call[d]
    BY <1>5 DEF request_joins, request_spawns, IInv, TypeOK
  <2>2. \A d \in Dials : DialVerdict(d)' = DialVerdict(d)
    BY <1>3, <2>1 DEF DialVerdict
  <2> QED
    BY <1>3, <2>2, GateHidden
<1> QED
  BY <1>1, <1>4, <1>5 DEF handle_request

\* A completion decides the dials of its entry that have not given up.
LEMMA GateCompletion ==
  ASSUME IInv, NEW t \in Tasks, handle_completion(t)
  PROVE  Gate!Next
<1> DEFINE r == hsRemote[t]
           D == {d \in Dials : d \in pending[r] /\ call[d] = "waiting"}
           v == IF hsState[t] = "ok" THEN "granted" ELSE "refused"
<1> USE DialAssumption DEF Callers
<1>1. /\ r \in Remotes /\ hsState[t] \in {"ok", "err"}
      /\ UNCHANGED <<call, loop>>
      /\ \A d \in Dials :
           answer'[d] = IF d \in pending[r] THEN hsState[t] ELSE answer[d]
  BY DEF handle_completion, Reply, IInv, TypeOK
<1>2. \A d \in Dials : d \in pending[r] =>
        /\ Target[d] = r
        /\ answer[d] = "none" /\ call[d] \in {"waiting", "cancelled"}
  BY <1>1 DEF IInv, OnlyDialsWait, OwedOnce
<1>3. \A d \in Dials : DialVerdict(d)' = IF d \in D THEN v ELSE DialVerdict(d)
  BY <1>1, <1>2 DEF DialVerdict
<1>4. D \in SUBSET Gate!Asking(r)
  BY <1>2 DEF Gate!Asking, DialVerdict
<1>5. CASE hsState[t] = "ok"
  <2>1. allowed' = allowed \cup {r}
    BY <1>5 DEF handle_completion, Recorded
  <2>2. Gate!Succeed(r, D)
    BY <1>1, <1>3, <1>5, <2>1 DEF Gate!Succeed, Gate!Decide
  <2> QED
    BY <1>1, <1>4, <2>2 DEF Gate!Next
<1>6. CASE hsState[t] = "err"
  <2>1. UNCHANGED allowed
    BY <1>6 DEF handle_completion, Recorded
  <2>2. r \in allowed => r \in InboundPeers
    BY <1>1 DEF IInv, AuthenticatesOnce, Active
  <2>3. Gate!Fail(r, D)
    BY <1>1, <1>3, <1>6, <2>1, <2>2 DEF Gate!Fail, Gate!Decide
  <2> QED
    BY <1>1, <1>4, <2>3 DEF Gate!Next
<1> QED
  BY <1>1, <1>5, <1>6

\* The end of the loop refuses exactly the dials it has not decided.
LEMMA GateHalt ==
  ASSUME IInv, loop # "stopped", Halt
  PROVE  Gate!Stop
<1> USE DialAssumption DEF Callers
<1>1. /\ UNCHANGED <<call, allowed>> /\ loop' = "stopped"
      /\ \A d \in Dials :
           answer'[d] = IF d \in DroppedSenders THEN "closed" ELSE answer[d]
  BY DEF Halt, Reply
<1>2. \A d \in Dials : d \in DroppedSenders <=> d \in Queued \/ d \in pending[Target[d]]
  BY DEF DroppedSenders, IInv, OnlyDialsWait
<1>3. \A d \in Dials :
        DialVerdict(d)' = IF DialVerdict(d) = "asked" THEN "refused" ELSE DialVerdict(d)
  <2> SUFFICES ASSUME NEW d \in Dials
               PROVE  DialVerdict(d)' = IF DialVerdict(d) = "asked" THEN "refused"
                                        ELSE DialVerdict(d)
    OBVIOUS
  <2>1. call[d] = "waiting" => (answer[d] = "none" <=> d \in DroppedSenders)
    BY <1>2 DEF IInv, OwedOnce, WaitingIsHeld
  <2>2. call[d] \in {"idle", "sending", "waiting", "accept", "reject", "cancelled"}
    BY DEF IInv, TypeOK
  <2> QED
    BY <1>1, <2>1, <2>2 DEF DialVerdict
<1> QED
  BY <1>1, <1>3 DEF Gate!Stop, Gate!Decide

LEMMA GateNext ==
  ASSUME IInv, IInv', [Next]_vars
  PROVE  [Gate!Next]_(Gate!gateVars)
<1>1. CASE UNCHANGED vars
  BY <1>1, GateStutter
<1>2. ASSUME NEW c \in Callers,
             \/ before_connect(c)
             \/ authenticate_send(c)
             \/ authenticate_stopped(c)
             \/ authenticate_recv(c)
      PROVE  [Gate!Next]_(Gate!gateVars)
  BY <1>2, GateHook
<1>3. ASSUME NEW d \in Dials, cancel(d)
      PROVE  [Gate!Next]_(Gate!gateVars)
  BY <1>3, GateHook DEF Callers
<1>4. CASE spawn
  <2>1. \A d \in Dials : DialVerdict(d)' = DialVerdict(d)
    BY <1>4 DEF spawn, DialVerdict
  <2> QED
    BY <1>4, <2>1, GateHidden DEF spawn
<1>5. CASE handle_request
  BY <1>5, GateRequest
<1>6. ASSUME NEW t \in Tasks,
             \/ handle_completion(t)
             \/ join_panicked(t)
             \/ \E res \in {"ok", "err", "panic"} : handshake_ends(t, res)
      PROVE  [Gate!Next]_(Gate!gateVars)
  <2>1. CASE handle_completion(t)
    BY <2>1, GateCompletion
  <2>2. CASE join_panicked(t)
    BY <2>2, GateHalt DEF join_panicked, Gate!Next
  <2>3. CASE \E res \in {"ok", "err", "panic"} : handshake_ends(t, res)
    <3>1. UNCHANGED <<call, answer, loop, allowed>>
      BY <2>3 DEF handshake_ends
    <3>2. \A d \in Dials : DialVerdict(d)' = DialVerdict(d)
      BY <3>1 DEF DialVerdict
    <3> QED
      BY <3>1, <3>2, GateHidden
  <2> QED
    BY <1>6, <2>1, <2>2, <2>3
<1>7. CASE abort
  BY <1>7, GateHalt DEF abort, Gate!Next
<1>8. ASSUME NEW r \in InboundPeers, record_inbound(r)
      PROVE  [Gate!Next]_(Gate!gateVars)
  <2>1. \A d \in Dials : DialVerdict(d)' = DialVerdict(d)
    BY <1>8 DEF record_inbound, DialVerdict
  <2>2. Gate!Succeed(r, {})
    BY <1>8, <2>1 DEF record_inbound, Gate!Succeed, Gate!Decide
  <2>3. r \in Remotes /\ {} \in SUBSET Gate!Asking(r)
    BY DialAssumption
  <2> QED
    BY <2>2, <2>3 DEF Gate!Next
<1> QED
  BY <1>1, <1>2, <1>3, <1>4, <1>5, <1>6, <1>7, <1>8 DEF Next

\* The authenticator implements DialGate: every step decides dials as the gate
\* may, or shows its applications nothing.
THEOREM Refinement == Spec => GateSpec
<1>1. Init => Gate!Init
  BY GateInit
<1>2. IInv /\ IInv' /\ [Next]_vars => [Gate!Next]_(Gate!gateVars)
  BY GateNext
<1> QED
  BY <1>1, <1>2, Invariance, PTL DEF Spec, GateSpec, Gate!Spec
=============================================================================
