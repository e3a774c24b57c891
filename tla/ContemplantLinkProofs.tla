----------------------- MODULE ContemplantLinkProofs -----------------------
(***************************************************************************)
(* Proofs about the websocket between a contemplant and the Hierophant,    *)
(* for any number of sockets and any capacity of the queues: every queue   *)
(* stays within its bound, a connection waits for the response receiver    *)
(* once, and the registration of a connection is not overtaken.            *)
(***************************************************************************)
EXTENDS ContemplantLink, SequenceTheorems, TLAPS

-----------------------------------------------------------------------------
(* The queue for the response receiver.                                    *)

(* In a queue where nobody waits twice, the first place of a task is its   *)
(* only one.                                                               *)
LEMMA RemoveFirstFacts ==
  ASSUME NEW S, NEW s \in Seq(S), IsInjective(s), NEW i \in 1..Len(s)
  PROVE  RemoveFirst(s, s[i]) = RemoveAt(s, i)
  <1>1. {j \in 1..Len(s) : s[j] = s[i]} = {i}
    BY DEF IsInjective
  <1>2. Min({i}) = i
    BY DEF Min
  <1> QED
    BY <1>1, <1>2, Zenon DEF RemoveFirst, SelectInSeq

(* Those behind a task that leaves move up by one.                         *)
LEMMA RemoveAtFacts ==
  ASSUME NEW S, NEW s \in Seq(S), NEW i \in 1..Len(s)
  PROVE  /\ RemoveAt(s, i) \in Seq(S)
         /\ Len(RemoveAt(s, i)) = Len(s) - 1
         /\ \A j \in 1..Len(s) - 1 : RemoveAt(s, i)[j] = IF j < i THEN s[j] ELSE s[j + 1]
  <1> DEFINE a == SubSeq(s, 1, i - 1)
             b == SubSeq(s, i + 1, Len(s))
  <1>1. a \in Seq(S) /\ Len(a) = i - 1 /\ \A j \in 1..i - 1 : a[j] = s[j]
    BY SubSeqProperties
  <1>2. b \in Seq(S) /\ Len(b) = Len(s) - i /\ \A j \in 1..Len(s) - i : b[j] = s[i + j]
    BY SubSeqProperties
  <1>3. RemoveAt(s, i) = a \o b
    BY DEF RemoveAt
  <1> HIDE DEF a, b
  <1>4. a \o b \in Seq(S) /\ Len(a \o b) = Len(s) - 1
    <2>1. a \o b \in Seq(S) /\ Len(a \o b) = Len(a) + Len(b)
      BY <1>1, <1>2, ConcatProperties, Zenon
    <2> QED
      BY <2>1, <1>1, <1>2
  <1>5. ASSUME NEW j \in 1..Len(s) - 1
        PROVE  (a \o b)[j] = IF j < i THEN s[j] ELSE s[j + 1]
    <2>1. (a \o b)[j] = IF j <= Len(a) THEN a[j] ELSE b[j - Len(a)]
      BY <1>1, <1>2, ConcatProperties
    <2>2. CASE j < i
      BY <2>1, <2>2, <1>1
    <2>3. CASE ~(j < i)
      <3>1. j - (i - 1) \in 1..Len(s) - i /\ i + (j - (i - 1)) = j + 1
        BY <2>3
      <3> QED
        BY <2>1, <2>3, <3>1, <1>1, <1>2
    <2> QED
      BY <2>2, <2>3, Zenon
  <1> QED
    BY <1>3, <1>4, <1>5

(* Whoever leaves, the others keep their order, and nobody waits twice.    *)
LEMMA Leaves ==
  ASSUME NEW S, NEW s \in Seq(S), IsInjective(s), NEW e
  PROVE  /\ RemoveFirst(s, e) \in Seq(S)
         /\ IsInjective(RemoveFirst(s, e))
         /\ Range(RemoveFirst(s, e)) = Range(s) \ {e}
         /\ s # <<>> /\ Head(s) # e => RemoveFirst(s, e) # <<>>
  <1>1. CASE e \notin Range(s)
    <2>1. RemoveFirst(s, e) = s
      BY <1>1 DEF RemoveFirst, Range
    <2> QED
      BY <1>1, <2>1
  <1>2. CASE e \in Range(s)
    <2>1. PICK i \in 1..Len(s) : s[i] = e
      BY <1>2 DEF Range
    <2> DEFINE r == RemoveAt(s, i)
    <2>2. RemoveFirst(s, e) = r
      BY <2>1, RemoveFirstFacts
    <2>3. /\ r \in Seq(S) /\ Len(r) = Len(s) - 1
          /\ \A j \in 1..Len(s) - 1 : r[j] = IF j < i THEN s[j] ELSE s[j + 1]
      BY RemoveAtFacts
    <2> HIDE DEF r
    <2>4. DOMAIN r = 1..Len(s) - 1 /\ DOMAIN s = 1..Len(s) /\ Len(s) \in Nat
      BY <2>3
    <2>5. IsInjective(r)
      <3> DEFINE old(j) == IF j < i THEN j ELSE j + 1
      <3>1. \A j \in DOMAIN r : old(j) \in DOMAIN s /\ r[j] = s[old(j)]
        BY <2>3, <2>4
      <3>2. \A j, k \in DOMAIN r : old(j) = old(k) => j = k
        BY <2>4
      <3>3. \A j, k \in DOMAIN s : s[j] = s[k] => j = k
        BY DEF IsInjective
      <3> HIDE DEF old
      <3>4. \A j, k \in DOMAIN r : r[j] = r[k] => j = k
        BY <3>1, <3>2, <3>3, Zenon
      <3> QED
        BY <3>4, Zenon DEF IsInjective
    <2>6. Range(r) = Range(s) \ {e}
      <3>1. ASSUME NEW x \in Range(r) PROVE x \in Range(s) \ {e}
        <4>1. PICK j \in 1..Len(s) - 1 : x = r[j]
          BY <2>4 DEF Range
        <4>2. PICK k \in 1..Len(s) : k # i /\ x = s[k]
          BY <4>1, <2>3, <2>4
        <4> QED
          BY <4>2, <2>1, <2>4 DEF Range, IsInjective
      <3>2. ASSUME NEW x \in Range(s) \ {e} PROVE x \in Range(r)
        <4>1. PICK k \in 1..Len(s) : x = s[k] /\ k # i
          BY <2>1, <2>4 DEF Range
        <4>2. PICK j \in 1..Len(s) - 1 : k = IF j < i THEN j ELSE j + 1
          <5>1. CASE k < i
            BY <5>1, <2>4
          <5>2. CASE k > i
            <6>1. k - 1 \in 1..Len(s) - 1 /\ ~(k - 1 < i) /\ k = (k - 1) + 1
              BY <5>2, <2>4
            <6> QED
              BY <6>1
          <5> QED
            BY <4>1, <5>1, <5>2, <2>4
        <4>3. x = r[j]
          BY <4>1, <4>2, <2>3
        <4> QED
          BY <4>3, <2>4 DEF Range
      <3> QED
        BY <3>1, <3>2
    <2>7. s # <<>> /\ Head(s) # e => r # <<>>
      <3>1. SUFFICES ASSUME s # <<>>, Head(s) # e PROVE r # <<>>
        OBVIOUS
      <3>2. i # 1
        BY <3>1, <2>1
      <3> QED
        BY <3>2, <2>3, <2>4
    <2> QED
      BY <2>2, <2>3, <2>5, <2>6, <2>7
  <1> QED
    BY <1>1, <1>2

-----------------------------------------------------------------------------
(* The types.                                                              *)

(* The capacities are positive numbers.                                    *)
LEMMA Capacities ==
  ASSUME LinkAssumption
  PROVE  /\ WireCap \in Nat /\ WireCap > 0 /\ OutCap \in Nat /\ OutCap > 0
         /\ ResponseCap \in Nat /\ ResponseCap > 0 /\ BeatCap \in Nat /\ BeatCap > 0
         /\ NoConn \notin Conn
  BY DEF LinkAssumption

(* The loop verifies and serves a connection it has made.                  *)
Typed == TypeOK /\ (at \in {"verify", "serve"} => cur \in Conn)

(* The task that holds the receiver is one of a connection.                *)
LEMMA HolderFacts ==
  ASSUME TypeOK
  PROVE  /\ lock # <<>> => Holder \in Conn /\ Holder = lock[1] /\ Sends(Holder)
         /\ Holder # NoConn => lock # <<>>
         /\ sending \in Message => lock # <<>>
  BY DEF TypeOK, Holder, Sends, Range, Message

(* The numbers, without the rest.                                          *)
LEMMA Numbers ==
  ASSUME LinkAssumption, TypeOK
  PROVE  /\ response \in 0..ResponseCap
         /\ beats \in [Conn -> 0..BeatCap] /\ down \in [Conn -> 0..WireCap]
         /\ out \in [Conn -> 0..OutCap]
         /\ WireCap \in Nat /\ OutCap \in Nat /\ ResponseCap \in Nat /\ BeatCap \in Nat
  BY Capacities, Zenon DEF TypeOK

(* A step that does not touch the queue leaves nobody in it twice.         *)
LEMMA LockKept ==
  ASSUME TypeOK, UNCHANGED lock
  PROVE  IsInjective(lock')
  BY DEF TypeOK

(* What a socket can hold, and still holds after a read or a write.        *)
LEMMA BufferFacts ==
  ASSUME LinkAssumption
  PROVE  /\ <<"register">> \in Buffer /\ <<>> \in Buffer
         /\ \A q \in Buffer : q # <<>> => Tail(q) \in Buffer
         /\ \A q \in Buffer, m \in Message : Len(q) < WireCap => Append(q, m) \in Buffer
  <1> DEFINE W == {"register", "heartbeat", "answer"}
  <1>1. WireCap \in Nat /\ WireCap > 0
    BY Capacities
  <1>2. <<"register">> \in Buffer /\ <<>> \in Buffer
    <2>1. <<"register">> \in Seq(W) /\ Len(<<"register">>) = 1 /\ <<>> \in Seq(W) /\ Len(<<>>) = 0
      OBVIOUS
    <2> QED
      BY <1>1, <2>1 DEF Buffer
  <1>3. ASSUME NEW q \in Buffer, q # <<>> PROVE Tail(q) \in Buffer
    <2>1. q \in Seq(W) /\ Len(q) <= WireCap
      BY DEF Buffer
    <2> HIDE DEF W
    <2>2. Tail(q) \in Seq(W) /\ Len(Tail(q)) = Len(q) - 1 /\ Len(q) \in Nat
      BY <2>1, <1>3, HeadTailProperties
    <2>3. Len(Tail(q)) <= WireCap
      BY <1>1, <2>1, <2>2
    <2> QED
      BY <2>2, <2>3 DEF Buffer, W
  <1>4. ASSUME NEW q \in Buffer, NEW m \in Message, Len(q) < WireCap
        PROVE  Append(q, m) \in Buffer
    <2>1. q \in Seq(W) /\ m \in W
      BY DEF Buffer, Message
    <2> HIDE DEF W
    <2>2. Append(q, m) \in Seq(W) /\ Len(Append(q, m)) = Len(q) + 1 /\ Len(q) \in Nat
      BY <2>1, AppendProperties
    <2>3. Len(Append(q, m)) <= WireCap
      BY <1>1, <1>4, <2>2
    <2> QED
      BY <2>2, <2>3 DEF Buffer, W
  <1> QED
    BY <1>2, <1>3, <1>4

(* The reconnect loop queues a new connection behind the others, and takes *)
(* the current one out of the queue.                                       *)
LEMMA LoopTyped ==
  ASSUME LinkAssumption, Typed, Loop \/ dial_fails \/ verify_fails \/ reconnect
  PROVE  Typed'
  <1>0. TypeOK
    BY DEF Typed
  <1>1. CASE dial
    <2> DEFINE c == CHOOSE c \in Conn : Gone(c)
    <2>1. c \in Conn /\ Gone(c)
      BY <1>1 DEF dial
    <2>2. /\ at' = "verify" /\ cur' = c /\ lock' = Append(lock, c)
          /\ recv' = [recv EXCEPT ![c] = "run"] /\ beats' = [beats EXCEPT ![c] = 0]
          /\ up' = [up EXCEPT ![c] = <<"register">>] /\ down' = [down EXCEPT ![c] = 0]
          /\ link' = [link EXCEPT ![c] = TRUE] /\ hier' = [hier EXCEPT ![c] = TRUE]
          /\ out' = [out EXCEPT ![c] = 0]
          /\ UNCHANGED <<sending, response, entry, blocked>>
      BY <1>1 DEF dial
    <2> HIDE DEF c
    <2>3. lock' \in Seq(Conn) /\ lock' # <<>>
      <3>1. lock \in Seq(Conn)
        BY <1>0 DEF TypeOK
      <3> QED
        BY <3>1, <2>1, <2>2, AppendProperties
    <2>4. IsInjective(lock')
      <3>1. lock \in Seq(Conn) /\ IsInjective(lock) /\ c \notin Range(lock)
        BY <1>0, <2>1 DEF TypeOK, Gone, Sends
      <3>2. /\ DOMAIN lock = 1..Len(lock) /\ DOMAIN lock' = 1..Len(lock) + 1
            /\ \A i \in 1..Len(lock) : lock'[i] = lock[i] /\ lock[i] # c
            /\ lock'[Len(lock) + 1] = c /\ Len(lock) \in Nat
        BY <3>1, <2>1, <2>2, AppendProperties DEF Range
      <3> QED
        BY <3>1, <3>2 DEF IsInjective
    <2>5. beats' \in [Conn -> 0..BeatCap] /\ down' \in [Conn -> 0..WireCap] /\ out' \in [Conn -> 0..OutCap]
      BY <1>0, <2>1, <2>2, Numbers
    <2>6. up' \in [Conn -> Buffer]
      BY <1>0, <2>1, <2>2, BufferFacts DEF TypeOK
    <2> QED
      BY <1>0, <2>1, <2>2, <2>3, <2>4, <2>5, <2>6, Zenon DEF Typed, TypeOK
  <1>2. CASE dial_fails \/ verify_with_magister \/ verify_fails \/ backoff
    <2>1. /\ UNCHANGED <<cur, lock, sending, recv, beats, response, up, down, link, hier, out, entry, blocked>>
          /\ at \in {"dial", "verify", "pause"} /\ at' \in {"dial", "serve", "pause"}
          /\ at' = "serve" => at = "verify"
      BY <1>2 DEF dial_fails, verify_with_magister, verify_fails, backoff, tasks, wire, hierophant
    <2> QED
      BY <1>0, <2>1, LockKept, Zenon DEF Typed, TypeOK
  <1>3. CASE task_ends \/ reconnect
    <2>1. Abort /\ cur \in Conn
      BY <1>3 DEF task_ends, reconnect, Typed
    <2>2. /\ lock' \in Seq(Conn) /\ IsInjective(lock')
          /\ lock # <<>> /\ Head(lock) # cur => lock' # <<>>
      BY <1>0, <2>1, Leaves, Zenon DEF Abort, TypeOK
    <2>3. sending' # "none" => lock' # <<>>
      BY <1>0, <2>1, <2>2, Zenon DEF Abort, TypeOK, Holder
    <2>4. beats' \in [Conn -> 0..BeatCap]
      BY <1>0, <2>1, Numbers DEF Abort
    <2> QED
      BY <1>0, <2>1, <2>2, <2>3, <2>4, Zenon DEF Abort, Typed, TypeOK, hierophant
  <1> QED
    BY <1>1, <1>2, <1>3 DEF Loop

(* The tasks of a connection and the network: no queue of theirs grows     *)
(* past its bound.                                                         *)
LEMMA TasksTyped ==
  ASSUME LinkAssumption, Typed,
         \/ \E msg \in Message : send_task_takes(msg)
         \/ send_task_writes \/ send_task_fails
         \/ \E c \in Conn : \/ heartbeat_tick(c) \/ recv_task_reads(c) \/ recv_task_answers(c)
                           \/ recv_task_ends(c) \/ network_fails(c)
  PROVE  Typed'
  <1>0. TypeOK
    BY DEF Typed
  <1>1. ASSUME NEW msg \in Message, send_task_takes(msg) PROVE Typed'
    <2>1. Holder \in Conn /\ lock # <<>>
      BY <1>0, <1>1, HolderFacts DEF send_task_takes
    <2>2. beats' \in [Conn -> 0..BeatCap] /\ response' \in 0..ResponseCap
      <3>1. CASE msg = "heartbeat"
        <4>1. beats[Holder] > 0 /\ beats' = [beats EXCEPT ![Holder] = @ - 1] /\ response' = response
          BY <1>1, <3>1 DEF send_task_takes, Turn
        <4> QED
          BY <1>0, <2>1, <4>1, Numbers
      <3>2. CASE msg = "answer"
        <4>1. response > 0 /\ beats' = beats /\ response' = response - 1
          BY <1>1, <3>2 DEF send_task_takes, Turn
        <4> QED
          BY <1>0, <2>1, <4>1, Numbers
      <3> QED
        BY <3>1, <3>2 DEF Message
    <2> QED
      BY <1>0, <1>1, <2>1, <2>2, LockKept, Zenon
      DEF send_task_takes, Typed, TypeOK, Message, loop, wire, hierophant
  <1>2. CASE send_task_writes
    <2>1. Holder \in Conn /\ lock # <<>>
      BY <1>0, <1>2, HolderFacts DEF send_task_writes
    <2>2. up' \in [Conn -> Buffer]
      <3>1. up \in [Conn -> Buffer] /\ sending \in Message
        BY <1>0, <1>2 DEF send_task_writes, TypeOK
      <3>2. \/ up' = up
            \/ /\ Len(up[Holder]) < WireCap
               /\ up' = [up EXCEPT ![Holder] = Append(up[Holder], sending)]
        BY <1>2 DEF send_task_writes
      <3>3. Len(up[Holder]) < WireCap => Append(up[Holder], sending) \in Buffer
        BY <3>1, <2>1, BufferFacts
      <3> QED
        BY <2>1, <3>1, <3>2, <3>3
    <2> QED
      BY <1>0, <1>2, <2>1, <2>2, LockKept, Zenon
      DEF send_task_writes, Typed, TypeOK, Message, loop, hierophant
  <1>3. CASE send_task_fails
    <2>1. Holder \in Conn /\ lock # <<>>
      BY <1>0, <1>3, HolderFacts DEF send_task_fails
    <2>2. lock' \in Seq(Conn) /\ IsInjective(lock')
      <3>1. lock \in Seq(Conn) /\ lock # <<>> /\ IsInjective(lock) /\ lock' = Tail(lock)
        BY <1>0, <1>3, <2>1 DEF send_task_fails, TypeOK
      <3>2. /\ lock' \in Seq(Conn) /\ DOMAIN lock = 1..Len(lock) /\ DOMAIN lock' = 1..Len(lock) - 1
            /\ \A i \in 1..Len(lock) - 1 : lock'[i] = lock[i + 1]
            /\ Len(lock) \in Nat
        BY <3>1, HeadTailProperties
      <3> QED
        BY <3>1, <3>2 DEF IsInjective
    <2>3. beats' \in [Conn -> 0..BeatCap]
      BY <1>0, <1>3, <2>1, Numbers DEF send_task_fails
    <2> QED
      BY <1>0, <1>3, <2>1, <2>2, <2>3, Zenon DEF send_task_fails, Typed, TypeOK, loop, wire, hierophant
  <1>4. ASSUME NEW c \in Conn, heartbeat_tick(c) PROVE Typed'
    <2>1. beats' \in [Conn -> 0..BeatCap]
      BY <1>0, <1>4, Numbers DEF heartbeat_tick
    <2> QED
      BY <1>0, <1>4, <2>1, LockKept, Zenon DEF heartbeat_tick, Typed, TypeOK, loop, wire, hierophant
  <1>5. ASSUME NEW c \in Conn, recv_task_reads(c) PROVE Typed'
    <2>1. down' \in [Conn -> 0..WireCap]
      BY <1>0, <1>5, Numbers DEF recv_task_reads
    <2> QED
      BY <1>0, <1>5, <2>1, LockKept, Zenon DEF recv_task_reads, Typed, TypeOK, loop, hierophant
  <1>6. ASSUME NEW c \in Conn, recv_task_answers(c) PROVE Typed'
    <2>1. response' \in 0..ResponseCap
      BY <1>0, <1>6, Numbers DEF recv_task_answers
    <2> QED
      BY <1>0, <1>6, <2>1, LockKept, Zenon DEF recv_task_answers, Typed, TypeOK, loop, wire, hierophant
  <1>7. ASSUME NEW c \in Conn, recv_task_ends(c) PROVE Typed'
    <2>1. down' \in [Conn -> 0..WireCap]
      BY <1>0, <1>7, Numbers DEF recv_task_ends
    <2> QED
      BY <1>0, <1>7, <2>1, LockKept, Zenon DEF recv_task_ends, Typed, TypeOK, loop, hierophant
  <1>8. ASSUME NEW c \in Conn, network_fails(c) PROVE Typed'
    BY <1>0, <1>8, LockKept, Zenon DEF network_fails, Typed, TypeOK, loop, tasks, hierophant
  <1> QED
    BY <1>1, <1>2, <1>3, <1>4, <1>5, <1>6, <1>7, <1>8

(* What is left in a socket once the handler has read its first message.   *)
LEMMA ReadTyped ==
  ASSUME LinkAssumption, TypeOK, NEW c \in Conn, up[c] # <<>>, up' = [up EXCEPT ![c] = Tail(@)]
  PROVE  up' \in [Conn -> Buffer]
  <1>1. up \in [Conn -> Buffer]
    BY DEF TypeOK
  <1>2. Tail(up[c]) \in Buffer
    BY <1>1, BufferFacts
  <1> QED
    BY <1>1, <1>2

(* A handler that ends.                                                    *)
LEMMA CloseTyped ==
  ASSUME LinkAssumption, TypeOK, NEW c \in Conn, Closes(c)
  PROVE  /\ up' \in [Conn -> Buffer]
         /\ out' \in [Conn -> 0..OutCap]
         /\ link' \in [Conn -> BOOLEAN] /\ hier' \in [Conn -> BOOLEAN]
  <1>1. out' \in [Conn -> 0..OutCap]
    BY Numbers DEF Closes
  <1>2. <<>> \in Buffer
    BY BufferFacts
  <1> QED
    BY <1>1, <1>2, Zenon DEF Closes, TypeOK

(* The Hierophant: a handler's channel does not grow past its bound, since *)
(* the registry waits when it is full.                                     *)
LEMMA HierophantTyped ==
  ASSUME LinkAssumption, Typed,
         \/ proof_status_request \/ send_completes \/ drop_worker \/ drop_late_worker
         \/ \E c \in Conn : Handler(c) \/ handler_ends(c) \/ handler_sends(c)
  PROVE  Typed'
  <1>0. TypeOK
    BY DEF Typed
  <1>1. CASE proof_status_request
    <2>1. entry \in Conn
      BY <1>0, <1>1 DEF proof_status_request, TypeOK
    <2>2. out' \in [Conn -> 0..OutCap]
      BY <1>0, <1>1, <2>1, Numbers DEF proof_status_request
    <2> QED
      BY <1>0, <1>1, <2>1, <2>2, LockKept, Capacities, Zenon
      DEF proof_status_request, Typed, TypeOK, loop, tasks, wire
  <1>2. CASE send_completes
    <2>1. entry \in Conn
      BY <1>0, <1>2 DEF send_completes, TypeOK
    <2>2. out' \in [Conn -> 0..OutCap]
      BY <1>0, <1>2, <2>1, Numbers DEF send_completes
    <2> QED
      BY <1>0, <1>2, <2>2, LockKept, Zenon DEF send_completes, Typed, TypeOK, loop, tasks, wire
  <1>3. CASE drop_worker \/ drop_late_worker
    <2>1. /\ entry' = NoConn /\ ~blocked /\ blocked' = blocked
          /\ UNCHANGED <<at, cur, lock, sending, recv, beats, response, up, down, link, hier, out>>
      BY <1>3 DEF drop_worker, drop_late_worker, loop, tasks, wire
    <2>2. blocked' \in BOOLEAN /\ ~blocked'
      BY <1>0, <2>1 DEF TypeOK
    <2> QED
      BY <1>0, <2>1, <2>2, LockKept, Zenon DEF Typed, TypeOK
  <1>4. ASSUME NEW c \in Conn, worker_ready(c) PROVE Typed'
    <2>1. up' \in [Conn -> Buffer]
      BY <1>0, <1>4, ReadTyped, Zenon DEF worker_ready, Reads
    <2> QED
      BY <1>0, <1>4, <2>1, LockKept, Capacities, Zenon DEF worker_ready, Reads, Typed, TypeOK, loop, tasks
  <1>5. ASSUME NEW c \in Conn, heartbeat(c) PROVE Typed'
    <2>1. /\ up' \in [Conn -> Buffer]
          /\ out' \in [Conn -> 0..OutCap]
          /\ link' \in [Conn -> BOOLEAN] /\ hier' \in [Conn -> BOOLEAN]
      <3>1. CASE entry = c
        <4>1. up' \in [Conn -> Buffer]
          BY <1>0, <1>5, <3>1, ReadTyped DEF heartbeat, Reads
        <4> QED
          BY <1>0, <1>5, <3>1, <4>1, Zenon DEF heartbeat, TypeOK
      <3>2. CASE entry # c
        BY <1>0, <1>5, <3>2, CloseTyped DEF heartbeat
      <3> QED
        BY <3>1, <3>2
    <2> QED
      BY <1>0, <1>5, <2>1, LockKept, Zenon DEF heartbeat, Typed, TypeOK, loop, tasks
  <1>6. ASSUME NEW c \in Conn, proof_status_response(c) PROVE Typed'
    <2>1. up' \in [Conn -> Buffer]
      BY <1>0, <1>6, ReadTyped, Zenon DEF proof_status_response, Reads
    <2> QED
      BY <1>0, <1>6, <2>1, LockKept, Zenon DEF proof_status_response, Typed, TypeOK, loop, tasks, hierophant
  <1>7. ASSUME NEW c \in Conn, handler_ends(c) PROVE Typed'
    <2>1. /\ up' \in [Conn -> Buffer]
          /\ out' \in [Conn -> 0..OutCap]
          /\ link' \in [Conn -> BOOLEAN] /\ hier' \in [Conn -> BOOLEAN]
      BY <1>0, <1>7, CloseTyped, Zenon DEF handler_ends
    <2> QED
      BY <1>0, <1>7, <2>1, LockKept, Zenon DEF handler_ends, Typed, TypeOK, loop, tasks
  <1>8. ASSUME NEW c \in Conn, handler_sends(c) PROVE Typed'
    <2>1. out' \in [Conn -> 0..OutCap] /\ down' \in [Conn -> 0..WireCap]
      BY <1>0, <1>8, Numbers DEF handler_sends
    <2> QED
      BY <1>0, <1>8, <2>1, LockKept, Zenon DEF handler_sends, Typed, TypeOK, loop, tasks
  <1> QED
    BY <1>1, <1>2, <1>3, <1>4, <1>5, <1>6, <1>7, <1>8 DEF Handler

(* Every state has the types.                                              *)
LEMMA AlwaysTyped == Spec => []Typed
  <1> USE LinkAssumption
  <1>1. Init => Typed
    <2>1. SUFFICES ASSUME Init PROVE Typed
      OBVIOUS
    <2>2. /\ beats \in [Conn -> 0..BeatCap] /\ down \in [Conn -> 0..WireCap]
          /\ out \in [Conn -> 0..OutCap] /\ response \in 0..ResponseCap
      BY <2>1, Capacities DEF Init
    <2>3. up \in [Conn -> Buffer]
      BY <2>1, BufferFacts DEF Init
    <2>4. lock \in Seq(Conn) /\ IsInjective(lock)
      BY <2>1 DEF Init, IsInjective
    <2> QED
      BY <2>1, <2>2, <2>3, <2>4, Zenon DEF Init, Typed, TypeOK
  <1>2. Typed /\ [Next]_vars => Typed'
    <2>1. SUFFICES ASSUME Typed, [Next]_vars PROVE Typed'
      OBVIOUS
    <2>2. CASE UNCHANGED vars
      BY <2>1, <2>2, LockKept, Zenon DEF Typed, TypeOK, vars, loop, tasks, wire, hierophant
    <2>3. CASE Next
      BY <2>1, <2>3, LoopTyped, TasksTyped, HierophantTyped DEF Next
    <2> QED
      BY <2>1, <2>2, <2>3
  <1> QED
    BY <1>1, <1>2, PTL DEF Spec

(* No queue of the link outgrows its capacity, in any order of failures    *)
(* and reconnects: the channels of the contemplant, the sockets, the       *)
(* handlers' channels.  A send task waits for the response receiver once;  *)
(* what is being written is written by a task that has the receiver; and   *)
(* the registry waits for room only in the channel of a worker it knows.   *)
THEOREM TypeCorrect == Spec => []TypeOK
  <1>1. Typed => TypeOK
    BY DEF Typed
  <1> QED
    BY <1>1, AlwaysTyped, PTL

-----------------------------------------------------------------------------
(* The order of registrations.                                             *)

(* The name of a socket whose handler and send task have ended is free:    *)
(* its buffers and channels are gone.  (The response channel is that of    *)
(* the process: its answers go out on whatever connection comes next.)     *)
Clean ==
  \A c \in Conn :
    /\ ~hier[c] => ~link[c] /\ up[c] = <<>> /\ out[c] = 0
    /\ ~Sends(c) => beats[c] = 0

(* The Register message is the first of a socket, and until it is read the *)
(* registry does not know the worker by that socket.                       *)
Ordered ==
  \A c \in Conn : \A i \in 1..Len(up[c]) : up[c][i] = "register" => i = 1 /\ entry # c

(* A socket that is still open is closed by the Hierophant only when the   *)
(* registry has read its registration and knows the worker by it no more.  *)
ClosesReplaced ==
  \A c \in Conn :
    hier[c] /\ ~hier'[c] /\ link[c]
      => entry # c /\ \A i \in 1..Len(up[c]) : up[c][i] # "register"

(* Who waits for the receiver after a step of the reconnect loop or of a   *)
(* send task that ends.                                                    *)
LEMMA QueueFacts ==
  ASSUME Typed, NEW d \in Conn, Sends(d)
  PROVE  /\ \A c \in Conn : lock' = Append(lock, c) => Sends(d)'
         /\ d # cur /\ lock' = RemoveFirst(lock, cur) => Sends(d)'
         /\ d # Holder /\ lock' = Tail(lock) => Sends(d)'
  <1>1. lock \in Seq(Conn) /\ IsInjective(lock) /\ d \in Range(lock)
    BY DEF Typed, TypeOK, Sends
  <1>2. PICK i \in 1..Len(lock) : lock[i] = d
    BY <1>1 DEF Range
  <1>3. ASSUME NEW c \in Conn, lock' = Append(lock, c) PROVE Sends(d)'
    <2>1. i \in DOMAIN lock' /\ lock'[i] = d
      BY <1>1, <1>2, <1>3, AppendProperties
    <2> QED
      BY <2>1 DEF Sends, Range
  <1>4. ASSUME d # cur, lock' = RemoveFirst(lock, cur) PROVE Sends(d)'
    BY <1>1, <1>4, Leaves DEF Sends
  <1>5. ASSUME d # Holder, lock' = Tail(lock) PROVE Sends(d)'
    <2>1. lock # <<>> /\ Head(lock) # d
      BY <1>1, <1>2, <1>5 DEF Holder
    <2>2. i # 1 /\ i - 1 \in 1..Len(lock) - 1
      BY <1>1, <1>2, <2>1
    <2>3. Tail(lock) \in Seq(Conn) /\ Len(Tail(lock)) = Len(lock) - 1 /\ Tail(lock)[i - 1] = lock[i]
      BY <1>1, <2>1, <2>2, HeadTailProperties
    <2>4. i - 1 \in DOMAIN lock' /\ lock'[i - 1] = d
      BY <1>2, <1>5, <2>2, <2>3
    <2> QED
      BY <2>4 DEF Sends, Range
  <1> QED
    BY <1>3, <1>4, <1>5

(* Heartbeats are queued by a connection whose send task runs.             *)
LEMMA BeatsClean ==
  ASSUME LinkAssumption, Typed, Clean, Next, NEW d \in Conn, ~Sends(d)'
  PROVE  beats'[d] = 0
  <1>0. TypeOK /\ beats \in [Conn -> 0..BeatCap] /\ (~Sends(d) => beats[d] = 0)
    BY Zenon DEF Clean, Typed, TypeOK
  <1>1. CASE dial
    <2> DEFINE c == CHOOSE c \in Conn : Gone(c)
    <2>1. c \in Conn /\ lock' = Append(lock, c) /\ beats' = [beats EXCEPT ![c] = 0]
      BY <1>1 DEF dial
    <2> HIDE DEF c
    <2>2. ~Sends(d)
      BY <2>1, QueueFacts
    <2> QED
      BY <1>0, <2>1, <2>2
  <1>2. CASE task_ends \/ reconnect
    <2>1. /\ cur \in Conn /\ lock' = RemoveFirst(lock, cur)
          /\ beats' = [beats EXCEPT ![cur] = 0]
      BY <1>2 DEF task_ends, reconnect, Abort, Typed
    <2>2. ~Sends(d) \/ d = cur
      BY <2>1, QueueFacts
    <2> QED
      BY <1>0, <2>1, <2>2
  <1>3. CASE send_task_fails
    <2>1. /\ Holder \in Conn /\ lock' = Tail(lock)
          /\ beats' = [beats EXCEPT ![Holder] = 0]
      BY <1>0, <1>3, HolderFacts DEF send_task_fails
    <2>2. ~Sends(d) \/ d = Holder
      BY <2>1, QueueFacts
    <2> QED
      BY <1>0, <2>1, <2>2
  <1>4. ASSUME NEW msg \in Message, send_task_takes(msg) PROVE beats'[d] = 0
    <2>1. /\ Holder \in Conn /\ Sends(Holder) /\ UNCHANGED lock
          /\ beats' = beats \/ beats' = [beats EXCEPT ![Holder] = @ - 1]
      BY <1>0, <1>4, HolderFacts DEF send_task_takes
    <2>2. ~Sends(d) /\ d # Holder
      BY <2>1 DEF Sends
    <2> QED
      BY <1>0, <2>1, <2>2
  <1>5. ASSUME NEW c \in Conn, heartbeat_tick(c) PROVE beats'[d] = 0
    <2>1. Sends(c) /\ UNCHANGED lock /\ beats' = [beats EXCEPT ![c] = @ + 1]
      BY <1>5 DEF heartbeat_tick
    <2>2. ~Sends(d) /\ d # c
      BY <2>1 DEF Sends
    <2> QED
      BY <1>0, <2>1, <2>2
  <1>6. CASE UNCHANGED <<lock, beats>>
    BY <1>0, <1>6 DEF Sends
  <1>7. \/ dial \/ task_ends \/ reconnect \/ send_task_fails
        \/ \E msg \in Message : send_task_takes(msg)
        \/ \E c \in Conn : heartbeat_tick(c)
        \/ UNCHANGED <<lock, beats>>
    BY Zenon DEF Next, Loop, Handler, dial_fails, verify_with_magister, verify_fails, backoff,
           send_task_writes, proof_status_request, send_completes, drop_worker, drop_late_worker,
           recv_task_reads, recv_task_answers, recv_task_ends, network_fails, worker_ready,
           heartbeat, proof_status_response, handler_ends, handler_sends, tasks
  <1> QED
    BY <1>1, <1>2, <1>3, <1>4, <1>5, <1>6, <1>7

(* Once the first message is read, no registration is left in the socket.  *)
LEMMA ReadOrdered ==
  ASSUME TypeOK, Ordered, NEW c \in Conn, up[c] # <<>>, up' = [up EXCEPT ![c] = Tail(@)]
  PROVE  /\ \A i \in 1..Len(up'[c]) : up'[c][i] # "register"
         /\ \A d \in Conn \ {c} : up'[d] = up[d]
  <1>1. up \in [Conn -> Seq({"register", "heartbeat", "answer"})]
    BY DEF TypeOK, Buffer
  <1>2. up'[c] = Tail(up[c]) /\ \A d \in Conn \ {c} : up'[d] = up[d]
    BY <1>1
  <1>3. Len(Tail(up[c])) = Len(up[c]) - 1 /\ \A i \in 1..Len(up[c]) - 1 : Tail(up[c])[i] = up[c][i + 1]
    BY <1>1, HeadTailProperties
  <1>4. ASSUME NEW i \in 1..Len(up[c]) - 1 PROVE up[c][i + 1] # "register"
    <2>1. Len(up[c]) \in Nat
      BY <1>1
    <2>2. i + 1 \in 1..Len(up[c]) /\ i + 1 # 1
      BY <2>1
    <2> QED
      BY <2>2 DEF Ordered
  <1> QED
    BY <1>2, <1>3, <1>4

(* What a handler keeps in order.                                          *)
Kept == (\A c \in Conn : ~hier[c] => ~link[c] /\ up[c] = <<>> /\ out[c] = 0) /\ Ordered

(* A handler that ends leaves an empty socket.                             *)
LEMMA CloseKept ==
  ASSUME TypeOK, Kept, NEW c \in Conn, Closes(c), entry' = entry
  PROVE  Kept'
  <1>1. /\ ~hier'[c] /\ ~link'[c] /\ up'[c] = <<>> /\ out'[c] = 0
        /\ \A d \in Conn \ {c} :
             hier'[d] = hier[d] /\ link'[d] = link[d] /\ up'[d] = up[d] /\ out'[d] = out[d]
    BY DEF Closes, TypeOK
  <1>2. \A d \in Conn : ~hier'[d] => ~link'[d] /\ up'[d] = <<>> /\ out'[d] = 0
    BY <1>1 DEF Kept
  <1>3. ASSUME NEW d \in Conn, NEW i \in 1..Len(up'[d]), up'[d][i] = "register"
        PROVE  i = 1 /\ entry' # d
    <2>1. CASE d = c
      BY <1>1, <1>3, <2>1
    <2>2. CASE d # c
      BY <1>1, <1>3, <2>2 DEF Kept, Ordered
    <2> QED
      BY <2>1, <2>2
  <1> QED
    BY <1>2, <1>3 DEF Kept, Ordered

(* A handler reads in the order the contemplant has written.               *)
LEMMA ReadKept ==
  ASSUME TypeOK, Kept, NEW c \in Conn, hier[c], up[c] # <<>>,
         up' = [up EXCEPT ![c] = Tail(@)],
         UNCHANGED <<link, hier, out>>, entry' \in {entry, c}
  PROVE  Kept'
  <1>1. /\ \A i \in 1..Len(up'[c]) : up'[c][i] # "register"
        /\ \A d \in Conn \ {c} : up'[d] = up[d]
    BY ReadOrdered, Zenon DEF Kept
  <1>2. \A d \in Conn : ~hier'[d] => ~link'[d] /\ up'[d] = <<>> /\ out'[d] = 0
    BY <1>1 DEF Kept
  <1>3. ASSUME NEW d \in Conn, NEW i \in 1..Len(up'[d]), up'[d][i] = "register"
        PROVE  i = 1 /\ entry' # d
    <2>1. d # c /\ up'[d] = up[d]
      BY <1>1, <1>3, Zenon
    <2> QED
      BY <1>3, <2>1 DEF Kept, Ordered
  <1> QED
    BY <1>2, <1>3 DEF Kept, Ordered

(* The steps of the contemplant's end.                                     *)
LEMMA ContemplantKept ==
  ASSUME LinkAssumption, Typed, Kept,
         dial \/ task_ends \/ reconnect \/ send_task_writes \/ \E c \in Conn : network_fails(c)
  PROVE  Kept'
  <1>0. TypeOK
    BY DEF Typed
  <1>1. CASE dial
    <2> DEFINE c == CHOOSE c \in Conn : Gone(c)
    <2>1. c \in Conn /\ Gone(c)
      BY <1>1 DEF dial
    <2>2. /\ up' = [up EXCEPT ![c] = <<"register">>] /\ link' = [link EXCEPT ![c] = TRUE]
          /\ hier' = [hier EXCEPT ![c] = TRUE] /\ out' = [out EXCEPT ![c] = 0] /\ entry' = entry
      BY <1>1 DEF dial
    <2> HIDE DEF c
    <2>3. /\ hier'[c] /\ up'[c] = <<"register">> /\ entry # c
          /\ \A d \in Conn \ {c} :
               hier'[d] = hier[d] /\ link'[d] = link[d] /\ up'[d] = up[d] /\ out'[d] = out[d]
      BY <1>0, <2>1, <2>2 DEF TypeOK, Gone
    <2>4. \A d \in Conn : ~hier'[d] => ~link'[d] /\ up'[d] = <<>> /\ out'[d] = 0
      BY <2>3 DEF Kept
    <2>5. ASSUME NEW d \in Conn, NEW i \in 1..Len(up'[d]), up'[d][i] = "register"
          PROVE  i = 1 /\ entry' # d
      <3>1. CASE d = c
        <4>1. Len(<<"register">>) = 1
          OBVIOUS
        <4>2. i \in 1..1
          BY <2>3, <3>1, <4>1, Zenon
        <4> QED
          BY <2>2, <2>3, <3>1, <4>2
      <3>2. CASE d # c
        BY <2>2, <2>3, <2>5, <3>2 DEF Kept, Ordered
      <3> QED
        BY <3>1, <3>2
    <2> QED
      BY <2>4, <2>5 DEF Kept, Ordered
  <1>2. CASE task_ends \/ reconnect
    <2>1. cur \in Conn /\ link' = [link EXCEPT ![cur] = FALSE] /\ UNCHANGED <<up, hier, out, entry>>
      BY <1>2 DEF task_ends, reconnect, Abort, Typed, hierophant
    <2>2. \A d \in Conn : ~link[d] => ~link'[d]
      BY <1>0, <2>1 DEF TypeOK
    <2> QED
      BY <2>1, <2>2 DEF Kept, Ordered
  <1>3. CASE send_task_writes
    <2>1. Holder \in Conn /\ UNCHANGED <<hier, link, out, entry>>
      BY <1>0, <1>3, HolderFacts DEF send_task_writes, hierophant
    <2>2. CASE ~link[Holder]
      <3>1. UNCHANGED up
        BY <1>3, <2>2 DEF send_task_writes
      <3> QED
        BY <2>1, <3>1 DEF Kept, Ordered
    <2>3. CASE link[Holder]
      <3> DEFINE W == {"register", "heartbeat", "answer"}
      <3>1. /\ up \in [Conn -> Seq(W)] /\ sending \in W /\ sending # "register"
            /\ up' = [up EXCEPT ![Holder] = Append(up[Holder], sending)]
        BY <1>0, <1>3, <2>3, Zenon DEF send_task_writes, TypeOK, Message, Buffer
      <3> HIDE DEF W
      <3>2. up'[Holder] = Append(up[Holder], sending) /\ \A d \in Conn \ {Holder} : up'[d] = up[d]
        BY <2>1, <3>1
      <3>3. hier[Holder]
        BY <2>1, <2>3 DEF Kept
      <3>4. \A d \in Conn : ~hier'[d] => ~link'[d] /\ up'[d] = <<>> /\ out'[d] = 0
        BY <2>1, <3>2, <3>3 DEF Kept
      <3>5. ASSUME NEW d \in Conn, NEW i \in 1..Len(up'[d]), up'[d][i] = "register"
            PROVE  i = 1 /\ entry' # d
        <4>1. CASE d # Holder
          BY <2>1, <3>2, <3>5, <4>1 DEF Kept, Ordered
        <4>2. CASE d = Holder
          <5>1. i \in 1..Len(up[Holder]) /\ up[Holder][i] = "register"
            BY <2>1, <3>1, <3>2, <3>5, <4>2, AppendProperties
          <5> QED
            BY <2>1, <4>2, <5>1 DEF Kept, Ordered
        <4> QED
          BY <4>1, <4>2
      <3> QED
        BY <3>4, <3>5 DEF Kept, Ordered
    <2> QED
      BY <2>2, <2>3
  <1>4. ASSUME NEW c \in Conn, network_fails(c) PROVE Kept'
    <2>1. link' = [link EXCEPT ![c] = FALSE] /\ UNCHANGED <<up, hier, out, entry>>
      BY <1>4 DEF network_fails, hierophant
    <2>2. \A d \in Conn : ~link[d] => ~link'[d]
      BY <1>0, <2>1 DEF TypeOK
    <2> QED
      BY <2>1, <2>2 DEF Kept, Ordered
  <1> QED
    BY <1>1, <1>2, <1>3, <1>4

(* The steps of the Hierophant.                                            *)
LEMMA HierophantKept ==
  ASSUME LinkAssumption, Typed, Kept,
         \/ proof_status_request \/ send_completes \/ drop_worker \/ drop_late_worker
         \/ \E c \in Conn : Handler(c) \/ handler_ends(c) \/ handler_sends(c)
  PROVE  Kept'
  <1>0. TypeOK
    BY DEF Typed
  <1>1. CASE proof_status_request \/ send_completes
    <2>1. /\ entry \in Conn /\ UNCHANGED <<hier, link, up, entry>>
          /\ out' = out \/ (hier[entry] /\ out' = [out EXCEPT ![entry] = @ + 1])
      BY <1>0, <1>1, Zenon DEF proof_status_request, send_completes, TypeOK, wire
    <2>2. \A d \in Conn : ~hier[d] => out'[d] = out[d]
      BY <1>0, <2>1 DEF TypeOK
    <2> QED
      BY <2>1, <2>2 DEF Kept, Ordered
  <1>2. CASE drop_worker \/ drop_late_worker
    <2>1. UNCHANGED <<hier, link, up, out>> /\ entry' = NoConn
      BY <1>2 DEF drop_worker, drop_late_worker, wire
    <2> QED
      BY <2>1, Capacities, Zenon DEF Kept, Ordered
  <1>3. ASSUME NEW c \in Conn, worker_ready(c) PROVE Kept'
    BY <1>0, <1>3, ReadKept, Zenon DEF worker_ready, Reads
  <1>4. ASSUME NEW c \in Conn, heartbeat(c) PROVE Kept'
    <2>1. CASE entry = c
      BY <1>0, <1>4, <2>1, ReadKept DEF heartbeat, Reads
    <2>2. CASE entry # c
      BY <1>0, <1>4, <2>2, CloseKept DEF heartbeat
    <2> QED
      BY <2>1, <2>2
  <1>5. ASSUME NEW c \in Conn, proof_status_response(c) PROVE Kept'
    BY <1>0, <1>5, ReadKept, Zenon DEF proof_status_response, Reads, hierophant
  <1>6. ASSUME NEW c \in Conn, handler_ends(c) PROVE Kept'
    BY <1>0, <1>6, CloseKept DEF handler_ends
  <1>7. ASSUME NEW c \in Conn, handler_sends(c) PROVE Kept'
    <2>1. hier[c] /\ UNCHANGED <<hier, link, up, entry>> /\ out' = [out EXCEPT ![c] = @ - 1]
      BY <1>7 DEF handler_sends
    <2>2. \A d \in Conn : ~hier[d] => out'[d] = out[d]
      BY <1>0, <2>1 DEF TypeOK
    <2> QED
      BY <2>1, <2>2 DEF Kept, Ordered
  <1> QED
    BY <1>1, <1>2, <1>3, <1>4, <1>5, <1>6, <1>7 DEF Handler

(* The invariant of the link.                                              *)
LinkInv == Typed /\ Clean /\ Ordered

LEMMA StepLink ==
  ASSUME LinkAssumption, LinkInv, [Next]_vars
  PROVE  (Clean /\ Ordered)'
  <1>0. Typed /\ Clean /\ Kept
    BY DEF LinkInv, Clean, Kept
  <1>1. CASE Next
    <2>1. ASSUME UNCHANGED <<hier, link, up, out, entry>> PROVE Kept'
      BY <1>0, <2>1 DEF Kept, Ordered
    <2>2. \/ dial \/ task_ends \/ reconnect \/ send_task_writes
          \/ proof_status_request \/ send_completes \/ drop_worker \/ drop_late_worker
          \/ \E c \in Conn : network_fails(c) \/ Handler(c) \/ handler_ends(c) \/ handler_sends(c)
          \/ UNCHANGED <<hier, link, up, out, entry>>
      <3>1. ASSUME dial_fails \/ verify_with_magister \/ verify_fails \/ backoff \/ send_task_fails
            PROVE  UNCHANGED <<hier, link, up, out, entry>>
        BY <3>1 DEF dial_fails, verify_with_magister, verify_fails, backoff, send_task_fails,
                    wire, hierophant
      <3>2. ASSUME NEW msg \in Message, send_task_takes(msg)
            PROVE  UNCHANGED <<hier, link, up, out, entry>>
        BY <3>2 DEF send_task_takes, wire, hierophant
      <3>3. ASSUME NEW c \in Conn,
                   heartbeat_tick(c) \/ recv_task_reads(c) \/ recv_task_answers(c) \/ recv_task_ends(c)
            PROVE  UNCHANGED <<hier, link, up, out, entry>>
        BY <3>3 DEF heartbeat_tick, recv_task_reads, recv_task_answers, recv_task_ends,
                    wire, hierophant
      <3> QED
        BY <1>1, <3>1, <3>2, <3>3 DEF Next, Loop
    <2>3. Kept'
      BY <1>0, <2>1, <2>2, ContemplantKept, HierophantKept
    <2>4. \A d \in Conn : ~Sends(d)' => beats'[d] = 0
      BY <1>0, <1>1, BeatsClean
    <2> QED
      BY <2>3, <2>4 DEF Kept, Clean
  <1>2. CASE UNCHANGED vars
    BY <1>0, <1>2 DEF Kept, Clean, Ordered, Sends, vars, loop, tasks, wire, hierophant
  <1> QED
    BY <1>1, <1>2

(* Every state of the link satisfies the invariant.                        *)
LEMMA AlwaysLink == Spec => []LinkInv
  <1> USE LinkAssumption
  <1>1. Init => Clean /\ Ordered
    BY DEF Init, Clean, Ordered
  <1>2. LinkInv /\ [Next]_vars => (Clean /\ Ordered)'
    BY StepLink
  <1>3. Typed /\ Clean /\ Ordered <=> LinkInv
    BY DEF LinkInv
  <1> QED
    BY <1>1, <1>2, <1>3, AlwaysTyped, PTL DEF Spec

(* The registry hears of a connection by its Register message first: that  *)
(* message is never behind a heartbeat or an answer, and the registry does *)
(* not know the worker by the connection before.                           *)
THEOREM RegistersFirst == Spec => []Ordered
  <1>1. LinkInv => Ordered
    BY DEF LinkInv
  <1> QED
    BY <1>1, AlwaysLink, PTL

(* When the Hierophant ends a handler whose socket is still open, which it *)
(* does on a heartbeat that the registry does not accept, the registry has *)
(* read the registration of that connection and has replaced or dropped    *)
(* the worker since.  A heartbeat cannot overtake the registration and     *)
(* close a connection that was about to register.                          *)
THEOREM ClosesOnlyReplaced == Spec => [][ClosesReplaced]_vars
  <1>1. LinkInv /\ [Next]_vars => [ClosesReplaced]_vars
    <2>1. SUFFICES ASSUME LinkInv, Next, NEW c \in Conn, hier[c], ~hier'[c], link[c]
                   PROVE  entry # c /\ \A i \in 1..Len(up[c]) : up[c][i] # "register"
      BY DEF ClosesReplaced
    <2>0. TypeOK
      BY <2>1 DEF LinkInv, Typed
    <2>2. PICK d \in Conn : (heartbeat(d) /\ entry # d /\ Closes(d)) \/ handler_ends(d)
      <3>1. CASE dial
        <4>1. (CHOOSE d \in Conn : Gone(d)) \in Conn
          BY <3>1 DEF dial
        <4> QED
          BY <2>0, <2>1, <3>1, <4>1 DEF dial, TypeOK
      <3>2. CASE UNCHANGED hier
        BY <2>1, <3>2
      <3>3. dial \/ UNCHANGED hier \/ \E d \in Conn : heartbeat(d) \/ handler_ends(d)
        BY <2>1, Zenon DEF Next, Loop, Handler, dial_fails, verify_with_magister, verify_fails, backoff,
                    task_ends, reconnect, Abort, send_task_takes, send_task_writes,
                    send_task_fails, proof_status_request, send_completes, drop_worker,
                    drop_late_worker, heartbeat_tick, recv_task_reads, recv_task_answers,
                    recv_task_ends, network_fails, worker_ready, proof_status_response,
                    handler_sends, hierophant
      <3> QED
        BY <3>1, <3>2, <3>3, <2>1 DEF heartbeat
    <2>3. hier' = [hier EXCEPT ![d] = FALSE]
      BY <2>2 DEF handler_ends, Closes
    <2>4. d = c
      BY <2>0, <2>1, <2>3 DEF TypeOK
    <2>5. heartbeat(c) /\ entry # c
      BY <2>1, <2>2, <2>4 DEF handler_ends
    <2>6. up[c] # <<>> /\ up[c][1] = "heartbeat"
      BY <2>0, <2>5 DEF heartbeat, Reads, TypeOK
    <2> QED
      BY <2>1, <2>5, <2>6 DEF LinkInv, Ordered
  <1> QED
    BY <1>1, AlwaysLink, PTL DEF Spec
=============================================================================
