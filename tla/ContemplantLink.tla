-------------------------- MODULE ContemplantLink --------------------------
(***************************************************************************)
(* The websocket between one contemplant and the Hierophant, over as many  *)
(* connections as it takes: the contemplant's reconnect loop               *)
(* (src/contemplant/src/main.rs) and the tasks of a connection             *)
(* (connect_to_hierophant.rs), the Hierophant's handler of a socket        *)
(* (websocket.rs), and the registry's loop at the other end of its         *)
(* channels.  Every queue is bounded, and everybody waits when one is full.*)
(* A connection whose Magister check fails is left to itself: its tasks    *)
(* run on while the loop dials the next one.                               *)
(***************************************************************************)
EXTENDS Naturals, Sequences, FiniteSets, SequencesExt

CONSTANTS
  Conn,          \* names of sockets; a name is used again once it is free
  NoConn,
  WireCap,       \* what a socket buffers in each direction
  OutCap,        \* from_hierophant_msg channel of a handler
  ResponseCap,   \* the contemplant's response channel
  BeatCap,       \* heartbeat channel of a connection
  MaxPolls,      \* bound: status requests on their way at a time
  MaxFaults      \* bound: failures of the network and of the Magister, demotions

ASSUME LinkAssumption ==
  /\ NoConn \notin Conn
  /\ {WireCap, OutCap, ResponseCap, BeatCap} \subseteq Nat \ {0}
  /\ {MaxPolls, MaxFaults} \subseteq Nat

VARIABLES
  at,        \* the reconnect loop: dial, verify, serve, pause
  cur,       \* the connection that the loop has made last
  lock,      \* send tasks, in the order they got or wait for the response receiver
  sending,   \* what the holder is writing to its socket; "rest" after a heartbeat
  recv,      \* receive task of a connection: none, run, answering, done
  beats,     \* heartbeats queued on a connection
  response,  \* answers in the response channel
  up,        \* messages in a socket to the Hierophant
  down,      \* status requests in a socket to the contemplant
  link,      \* whether a socket is open
  hier,      \* whether the Hierophant's handler of a socket runs
  out,       \* status requests in a handler's channel
  entry,     \* the connection the registry knows the contemplant by
  blocked,   \* whether the registry waits for room in its entry's channel
  faults     \* failures so far

loop == <<at, cur>>
tasks == <<lock, sending, recv, beats, response>>
wire == <<up, down, link>>
hierophant == <<hier, out, entry, blocked>>
vars == <<loop, tasks, wire, hierophant, faults>>

Init ==
  /\ at = "dial" /\ cur = NoConn
  /\ lock = <<>> /\ sending = "none"
  /\ recv = [c \in Conn |-> "none"]
  /\ beats = [c \in Conn |-> 0] /\ response = 0
  /\ up = [c \in Conn |-> <<>>] /\ down = [c \in Conn |-> 0]
  /\ link = [c \in Conn |-> FALSE] /\ hier = [c \in Conn |-> FALSE]
  /\ out = [c \in Conn |-> 0]
  /\ entry = NoConn /\ blocked = FALSE
  /\ faults = 0

Sends(c) == c \in Range(lock)
Holder == IF lock = <<>> THEN NoConn ELSE Head(lock)
Gone(c) == ~Sends(c) /\ recv[c] \in {"none", "done"} /\ ~hier[c] /\ entry # c

(* Status requests that are somewhere between the registry and itself.     *)
Answers(c) == Cardinality({i \in DOMAIN up[c] : up[c][i] = "answer"})
InFlight(c) == out[c] + down[c] + Answers(c) + (IF recv[c] = "answering" THEN 1 ELSE 0)
Polls == MapThenSumSet(InFlight, Conn) + response + (IF sending = "answer" THEN 1 ELSE 0)
           + (IF blocked THEN 1 ELSE 0)

Fault == faults < MaxFaults /\ faults' = faults + 1

-----------------------------------------------------------------------------
(* The reconnect loop.                                                     *)

(* The handshake and the Register message; then the tasks are spawned, and *)
(* the send task queues for the response receiver.                         *)
dial ==
  LET c == CHOOSE c \in Conn : Gone(c) IN
  /\ at = "dial"
  /\ \E d \in Conn : Gone(d)
  /\ at' = "verify" /\ cur' = c
  /\ lock' = Append(lock, c)
  /\ recv' = [recv EXCEPT ![c] = "run"]
  /\ beats' = [beats EXCEPT ![c] = 0]
  /\ up' = [up EXCEPT ![c] = <<"register">>]
  /\ down' = [down EXCEPT ![c] = 0]
  /\ link' = [link EXCEPT ![c] = TRUE]
  /\ hier' = [hier EXCEPT ![c] = TRUE]
  /\ out' = [out EXCEPT ![c] = 0]
  /\ UNCHANGED <<sending, response, entry, blocked, faults>>

dial_fails ==
  /\ at = "dial"
  /\ Fault
  /\ at' = "pause"
  /\ UNCHANGED <<cur, tasks, wire, hierophant>>

verify_with_magister ==
  /\ at = "verify"
  /\ at' = "serve"
  /\ UNCHANGED <<cur, tasks, wire, hierophant, faults>>

(* The loop goes on without its tasks.  (Bound: the names of sockets.)     *)
verify_fails ==
  /\ at = "verify"
  /\ Fault
  /\ \E d \in Conn \ {cur} : ~Sends(d)
  /\ at' = "pause"
  /\ UNCHANGED <<cur, tasks, wire, hierophant>>

(* Every task of the current connection is aborted, what the send task was *)
(* writing is lost with it, and the socket closes.                         *)
Abort ==
  /\ at' = "pause"
  /\ lock' = RemoveFirst(lock, cur)
  /\ sending' = IF Holder = cur THEN "none" ELSE sending
  /\ recv' = [recv EXCEPT ![cur] = "none"]
  /\ beats' = [beats EXCEPT ![cur] = 0]
  /\ link' = [link EXCEPT ![cur] = FALSE]
  /\ UNCHANGED <<cur, response, up, down, hierophant>>

(* A task of the connection has ended.                                     *)
task_ends ==
  /\ at = "serve"
  /\ ~Sends(cur) \/ recv[cur] = "done"
  /\ Abort
  /\ UNCHANGED faults

(* A capability was demoted, or a proving thread asked to exit.            *)
reconnect ==
  /\ at = "serve"
  /\ Fault
  /\ Abort

backoff ==
  /\ at = "pause"
  /\ at' = "dial"
  /\ UNCHANGED <<cur, tasks, wire, hierophant, faults>>

-----------------------------------------------------------------------------
(* The tasks of a connection.                                              *)

(* Faulty variant: a channel without a bound.                              *)
heartbeat_tick_unbounded(c) ==
  /\ Sends(c)
  /\ beats' = [beats EXCEPT ![c] = @ + 1]
  /\ UNCHANGED <<loop, lock, sending, recv, response, wire, hierophant, faults>>

(* The interval is long: a send task that has sent one heartbeat can send  *)
(* the next answer before another.                                         *)
heartbeat_tick(c) ==
  /\ Sends(c)
  /\ beats[c] < BeatCap
  /\ c = Holder /\ sending \in {"heartbeat", "rest"} => response = 0
  /\ beats' = [beats EXCEPT ![c] = @ + 1]
  /\ UNCHANGED <<loop, lock, sending, recv, response, wire, hierophant, faults>>

Message == {"heartbeat", "answer"}

(* Faulty variant: answers jump the queue.                                 *)
TurnOfAnswers(msg) ==
  IF msg = "answer" THEN response > 0 ELSE response = 0 /\ beats[Holder] > 0

(* The select is biased: heartbeats first.                                 *)
Turn(msg) ==
  IF msg = "heartbeat" THEN beats[Holder] > 0 ELSE beats[Holder] = 0 /\ response > 0

send_task_takes(msg) ==
  /\ Holder # NoConn /\ sending \notin Message
  /\ Turn(msg)
  /\ sending' = msg
  /\ beats' = IF msg = "heartbeat" THEN [beats EXCEPT ![Holder] = @ - 1] ELSE beats
  /\ response' = IF msg = "answer" THEN response - 1 ELSE response
  /\ UNCHANGED <<loop, lock, recv, wire, hierophant, faults>>

(* A socket that is closed may still take a message, which is lost.        *)
send_task_writes ==
  /\ sending \in Message
  /\ IF link[Holder]
     THEN Len(up[Holder]) < WireCap /\ up' = [up EXCEPT ![Holder] = Append(@, sending)]
     ELSE UNCHANGED up
  /\ sending' = IF sending = "heartbeat" THEN "rest" ELSE "none"
  /\ UNCHANGED <<loop, lock, recv, beats, response, down, link, hierophant, faults>>

(* Faulty variant: the task goes on with the next message.                 *)
send_task_skips ==
  /\ sending \in Message
  /\ ~link[Holder]
  /\ sending' = "none"
  /\ UNCHANGED <<loop, lock, beats, recv, response, wire, hierophant, faults>>

(* Or it fails, and the task ends; what it was writing is lost.            *)
send_task_fails ==
  /\ sending \in Message
  /\ ~link[Holder]
  /\ sending' = "none"
  /\ beats' = [beats EXCEPT ![Holder] = 0]
  /\ lock' = Tail(lock)
  /\ UNCHANGED <<loop, recv, response, wire, hierophant, faults>>

recv_task_reads(c) ==
  /\ recv[c] = "run"
  /\ down[c] > 0
  /\ down' = [down EXCEPT ![c] = @ - 1]
  /\ recv' = [recv EXCEPT ![c] = "answering"]
  /\ UNCHANGED <<loop, lock, sending, beats, response, up, link, hierophant, faults>>

recv_task_answers(c) ==
  /\ recv[c] = "answering"
  /\ response < ResponseCap
  /\ response' = response + 1
  /\ recv' = [recv EXCEPT ![c] = "run"]
  /\ UNCHANGED <<loop, lock, sending, beats, wire, hierophant, faults>>

(* A Close frame or an error; what is still in the socket may be lost.     *)
recv_task_ends(c) ==
  /\ recv[c] = "run"
  /\ ~link[c]
  /\ recv' = [recv EXCEPT ![c] = "done"]
  /\ down' = [down EXCEPT ![c] = 0]
  /\ UNCHANGED <<loop, lock, sending, beats, response, up, link, hierophant, faults>>

-----------------------------------------------------------------------------
(* The network.                                                            *)
network_fails(c) ==
  /\ link[c]
  /\ Fault
  /\ link' = [link EXCEPT ![c] = FALSE]
  /\ UNCHANGED <<loop, tasks, up, down, hierophant>>

-----------------------------------------------------------------------------
(* The Hierophant.  A handler hands a message to the registry and waits    *)
(* for it, so a registry that waits holds up every handler.                *)
Reads(c, msg) ==
  /\ hier[c] /\ ~blocked
  /\ up[c] # <<>> /\ Head(up[c]) = msg

(* The handler ends, and both its channels with it.                        *)
Closes(c) ==
  /\ hier' = [hier EXCEPT ![c] = FALSE]
  /\ out' = [out EXCEPT ![c] = 0]
  /\ up' = [up EXCEPT ![c] = <<>>]
  /\ link' = [link EXCEPT ![c] = FALSE]

(* A registration of the same instance takes the entry over.               *)
worker_ready(c) ==
  /\ Reads(c, "register")
  /\ entry' = c
  /\ up' = [up EXCEPT ![c] = Tail(@)]
  /\ UNCHANGED <<loop, tasks, down, link, hier, out, blocked, faults>>

(* Faulty variant: the heartbeat of a connection that was replaced is let  *)
(* pass.                                                                   *)
heartbeat_lenient(c) ==
  /\ Reads(c, "heartbeat")
  /\ up' = [up EXCEPT ![c] = Tail(@)]
  /\ UNCHANGED <<loop, tasks, down, link, hier, out, entry, blocked, faults>>

(* The heartbeat of a connection that has no entry closes it.              *)
heartbeat(c) ==
  /\ Reads(c, "heartbeat")
  /\ IF entry = c
     THEN up' = [up EXCEPT ![c] = Tail(@)] /\ UNCHANGED <<link, hier, out>>
     ELSE Closes(c)
  /\ UNCHANGED <<loop, tasks, down, entry, blocked, faults>>

proof_status_response(c) ==
  /\ Reads(c, "answer")
  /\ up' = [up EXCEPT ![c] = Tail(@)]
  /\ UNCHANGED <<loop, tasks, down, link, hierophant, faults>>

(* The socket has closed or failed; what is still in it may be lost.       *)
handler_ends(c) ==
  /\ hier[c] /\ ~link[c]
  /\ Closes(c)
  /\ UNCHANGED <<loop, tasks, down, entry, blocked, faults>>

handler_sends(c) ==
  /\ hier[c] /\ link[c]
  /\ out[c] > 0 /\ down[c] < WireCap
  /\ out' = [out EXCEPT ![c] = @ - 1]
  /\ down' = [down EXCEPT ![c] = @ + 1]
  /\ UNCHANGED <<loop, tasks, up, link, hier, entry, blocked, faults>>

(* A status request; the registry's loop waits when the channel is full.   *)
proof_status_request ==
  /\ ~blocked /\ entry # NoConn /\ hier[entry]
  /\ Polls < MaxPolls
  /\ IF out[entry] < OutCap
     THEN out' = [out EXCEPT ![entry] = @ + 1] /\ UNCHANGED blocked
     ELSE blocked' = TRUE /\ UNCHANGED out
  /\ UNCHANGED <<loop, tasks, wire, hier, entry, faults>>

(* There is room, or the handler is gone and the send fails.               *)
send_completes ==
  /\ blocked
  /\ hier[entry] => out[entry] < OutCap
  /\ blocked' = FALSE
  /\ out' = IF hier[entry] THEN [out EXCEPT ![entry] = @ + 1] ELSE out
  /\ UNCHANGED <<loop, tasks, wire, hier, entry, faults>>

(* The registry drops a worker that no heartbeat can come from any more.   *)
drop_worker ==
  /\ ~blocked /\ entry # NoConn
  /\ ~hier[entry]
  /\ entry' = NoConn
  /\ UNCHANGED <<loop, tasks, wire, hier, out, blocked, faults>>

(* Or one whose heartbeats were too late.                                  *)
drop_late_worker ==
  /\ ~blocked /\ entry # NoConn
  /\ hier[entry]
  /\ Fault
  /\ entry' = NoConn
  /\ UNCHANGED <<loop, tasks, wire, hier, out, blocked>>

-----------------------------------------------------------------------------
Loop == dial \/ verify_with_magister \/ task_ends \/ backoff
Handler(c) == worker_ready(c) \/ heartbeat(c) \/ proof_status_response(c)

Next ==
  \/ Loop \/ dial_fails \/ verify_fails \/ reconnect
  \/ \E msg \in Message : send_task_takes(msg)
  \/ send_task_writes \/ send_task_fails
  \/ proof_status_request \/ send_completes \/ drop_worker \/ drop_late_worker
  \/ \E c \in Conn :
       \/ heartbeat_tick(c) \/ recv_task_reads(c) \/ recv_task_answers(c)
       \/ recv_task_ends(c) \/ network_fails(c) \/ Handler(c)
       \/ handler_ends(c) \/ handler_sends(c)

Spec == Init /\ [][Next]_vars

(* Tasks run, timers fire; a socket that has closed is noticed by both     *)
(* ends, however often it swallows what is written to it before; commands  *)
(* reach the registry, and answers the response channel, in order.         *)
FairSpec ==
  /\ Spec
  /\ WF_vars(Loop)
  /\ WF_vars(\E msg \in Message : send_task_takes(msg)) /\ WF_vars(send_task_writes) /\ SF_vars(send_task_fails)
  /\ WF_vars(send_completes) /\ WF_vars(drop_worker)
  /\ \A c \in Conn :
       /\ WF_vars(heartbeat_tick(c)) /\ SF_vars(Handler(c)) /\ WF_vars(handler_sends(c))
       /\ WF_vars(recv_task_reads(c)) /\ SF_vars(recv_task_answers(c))
       /\ SF_vars(recv_task_ends(c)) /\ WF_vars(handler_ends(c))

-----------------------------------------------------------------------------
(* What a socket holds of the contemplant's messages.                      *)
Buffer == {q \in Seq({"register", "heartbeat", "answer"}) : Len(q) <= WireCap}

(* Type invariant; a connection sends once, and the registry waits for a   *)
(* worker it knows.                                                        *)
TypeOK ==
  /\ at \in {"dial", "verify", "serve", "pause"}
  /\ cur \in Conn \cup {NoConn}
  /\ lock \in Seq(Conn) /\ IsInjective(lock)
  /\ sending \in Message \cup {"none", "rest"} /\ (sending # "none" => lock # <<>>)
  /\ recv \in [Conn -> {"none", "run", "answering", "done"}]
  /\ beats \in [Conn -> 0..BeatCap] /\ response \in 0..ResponseCap
  /\ up \in [Conn -> Buffer]
  /\ down \in [Conn -> 0..WireCap] /\ out \in [Conn -> 0..OutCap]
  /\ link \in [Conn -> BOOLEAN] /\ hier \in [Conn -> BOOLEAN]
  /\ entry \in Conn \cup {NoConn} /\ blocked \in BOOLEAN
  /\ blocked => entry # NoConn

(* Once failures stop, the registry knows the contemplant by a connection  *)
(* that works: its send task has the responses, its receive task runs.     *)
(* It may be one that the loop has given up, and then the one the loop     *)
(* serves waits behind it.                                                 *)
Recovers ==
  <>[](/\ at = "serve" /\ entry # NoConn /\ entry = Holder
       /\ link[entry] /\ hier[entry] /\ recv[entry] \in {"run", "answering"})

(* The registry keeps hearing heartbeats of a worker it knows.  This is    *)
(* about fewer status requests than the queues of the link hold together:  *)
(* with as many, registry, handler and contemplant wait for each other.    *)
HeartbeatsFlow == []<><<\E c \in Conn : entry = c /\ heartbeat(c)>>_vars

(* An answer in the response channel is taken up by a send task, whatever  *)
(* becomes of the connection whose task holds the channel.  (A task may    *)
(* still lose the one it is writing with its socket.)                      *)
AnswersLeave == response > 0 ~> sending = "answer"
=============================================================================
