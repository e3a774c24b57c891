--------------------------- MODULE WorkerRegistry ---------------------------
(***************************************************************************)
(* The worker registry of the Hierophant                                   *)
(* (src/hierophant/src/worker_registry): one task owns all the state and   *)
(* handles one command at a time.  Every handler is an action here.  The   *)
(* commands' senders are left free: any registration, status answer, poll  *)
(* or completion may arrive at any time, so what holds here holds for      *)
(* every set of contemplants and clients.                                  *)
(*                                                                         *)
(* The clock is abstracted to the comparisons the code makes: a worker     *)
(* carries the set of its time limits that have passed.  Draining the      *)
(* pending queue awaits a channel send per entry, so it takes one step per *)
(* entry; no command is handled in between, sockets may close.             *)
(***************************************************************************)
EXTENDS Integers, Sequences, FiniteSets

CONSTANTS
  Addr,          \* peer addresses of contemplant sockets
  Process,       \* contemplant processes; each start has its own nonce
  NameOf,        \* [Process -> name]
  EndpointOf,    \* [Process -> magister drop endpoint or NoEndpoint]
  NoEndpoint,
  Capability,    \* zkVM kinds and the per-VM extras (groth16, evm)
  Offers,        \* [Process -> capability sets it may register with]
  Request,       \* proof request ids
  Needs,         \* [Request -> capabilities the request needs]
  VmOf,          \* [Request -> the zkVM among them]
  NoRequest,
  NoVm,
  Poll,          \* status polls, each with its own oneshot channel
  PendingQueueCap,
  MaxStrikes,
  MaxProgress,       \* rank of the last progress report, Done
  ProgressRequired,  \* worker_required_progress_interval_mins > 0
  Clocks             \* the time limits that can pass in this instance

(* The limits should_drop and bridge_startup_race compare with.  "skew":   *)
(* the wall clock is behind the time of the last progress update.          *)
Limit == {"heartbeat", "proof", "progress", "report", "grace", "skew"}

(* Registrations SameInstance takes to be of one contemplant.              *)
SameInstance(p, q) ==
  IF EndpointOf[p] # NoEndpoint /\ EndpointOf[q] # NoEndpoint
  THEN EndpointOf[p] = EndpointOf[q]
  ELSE NameOf[p] = NameOf[q]

ASSUME ConstantsAssumption ==
  /\ NoRequest \notin Request
  /\ Needs \in [Request -> SUBSET Capability]
  /\ Offers \in [Process -> SUBSET SUBSET Capability]
  /\ VmOf \in [Request -> Capability]
  /\ NoVm \notin Capability
  /\ PendingQueueCap \in Nat
  /\ MaxStrikes \in Nat
  /\ MaxProgress \in Nat
  /\ ProgressRequired \in BOOLEAN
  /\ Clocks \subseteq Limit

VARIABLES
  workers,   \* [registered addresses -> WorkerState]
  pending,   \* pending_requests, oldest first
  still,     \* still_pending, while drain_pending runs
  loop,      \* where the event loop is, and what it relays after a drain
  awaiting,  \* awaiting_proof_status_responses
  poll       \* the pollers' ends of the oneshot channels

vars == <<workers, pending, still, loop, awaiting, poll>>

NoStatus == [exec |-> "none", progress |-> 0]
Status == {NoStatus} \cup [exec : {"unexecuted", "executed", "unexecutable"},
                           progress : 0..MaxProgress]
Unexecuted == [exec |-> "unexecuted", progress |-> 0]
Waiting == [exec |-> "waiting", progress |-> 0]

WorkerState ==
  [process : Process, caps : SUBSET Capability,
   job : Request \cup {NoRequest}, progress : 0..MaxProgress,
   last_vm : Capability \cup {NoVm}, strikes : 0..MaxStrikes,
   late : SUBSET Limit, open : BOOLEAN]

Entry == [req : Request, stale : BOOLEAN]

Receiving == [at |-> "recv", req |-> NoRequest, status |-> NoStatus]
Draining(r, st) == [at |-> "drain", req |-> r, status |-> st]
NotPolling == [req |-> NoRequest, got |-> Waiting]

Init ==
  /\ workers = [a \in {} |-> NoRequest]
  /\ pending = <<>>
  /\ still = <<>>
  /\ loop = Receiving
  /\ awaiting = [r \in Request |-> {}]
  /\ poll = [p \in Poll |-> NotPolling]

-----------------------------------------------------------------------------
(* WorkerState                                                             *)

New(p, caps) ==
  [process |-> p, caps |-> caps, job |-> NoRequest, progress |-> 0,
   last_vm |-> NoVm, strikes |-> 0, late |-> {}, open |-> TRUE]

can_serve(w, r) == Needs[r] \subseteq w.caps

(* The status field of the record: Idle forgets the proof's clocks.        *)
Idle(w) ==
  [w EXCEPT !.job = NoRequest, !.progress = 0, !.late = @ \cap {"heartbeat"}]

completed_proof(w) == [Idle(w) EXCEPT !.strikes = 0]
failed_proof(w) == Idle(w)

(* should_drop tests strikes >= max only: the count saturates there.       *)
add_strike(w) ==
  [w EXCEPT !.strikes = IF @ < MaxStrikes THEN @ + 1 ELSE @]

assigned_proof(w, r) ==
  [Idle(w) EXCEPT !.job = r, !.last_vm = VmOf[r], !.strikes = 0]

should_drop(w) ==
  \/ w.strikes >= MaxStrikes
  \/ "heartbeat" \in w.late
  \/ /\ w.job # NoRequest
     /\ \/ "proof" \in w.late
        \/ /\ "skew" \notin w.late
           /\ ProgressRequired /\ "progress" \in w.late
        \/ /\ "skew" \in w.late
           /\ w.progress = 0 /\ "report" \in w.late

-----------------------------------------------------------------------------
(* trim_workers: evict every worker that should drop.  The proof of an     *)
(* evicted worker is not queued again; its next poll finds nobody.         *)
trim_workers(ws) ==
  [a \in {b \in DOMAIN ws : ~should_drop(ws[b])} |-> ws[a]]

BusyWith(ws, r) == {a \in DOMAIN ws : ws[a].job = r}

Candidates(ws, r) ==
  {a \in DOMAIN ws : ws[a].job = NoRequest /\ can_serve(ws[a], r)}

Hot(ws, r) == {a \in Candidates(ws, r) : ws[a].last_vm = VmOf[r]}

Open(ws, S) == {a \in S : ws[a].open}

(* The workers try_assign can end at: the candidates are tried hot ones    *)
(* first, each group in the arbitrary order of the hash map, until a send  *)
(* succeeds.                                                               *)
Homes(ws, r) ==
  IF Open(ws, Hot(ws, r)) # {} THEN Open(ws, Hot(ws, r))
                               ELSE Open(ws, Candidates(ws, r))

(* The candidates that can have been tried, and struck, before home.       *)
Tried(ws, r, home) ==
  LET closed(S) == S \ Open(ws, S)
      cold == Candidates(ws, r) \ Hot(ws, r)
  IN  IF home \in Hot(ws, r)
      THEN SUBSET closed(Hot(ws, r))
      ELSE {closed(Hot(ws, r)) \cup S : S \in SUBSET closed(cold)}

Strike(ws, S) ==
  [a \in DOMAIN ws |-> IF a \in S THEN add_strike(ws[a]) ELSE ws[a]]

Place(ws, r, home, tried) ==
  [Strike(ws, tried) EXCEPT ![home] = assigned_proof(@, r)]

(* Faulty variant: a retried request is not recognised.                    *)
AssignAgain(ws, r) ==
  \E home \in Homes(ws, r) : \E tried \in Tried(ws, r, home) :
    workers' = Place(ws, r, home, tried)

(* try_assign from registry contents ws: true, false.                      *)
Assign(ws, r) ==
  \/ BusyWith(ws, r) # {} /\ workers' = ws
  \/ /\ BusyWith(ws, r) = {}
     /\ \E home \in Homes(ws, r) : \E tried \in Tried(ws, r, home) :
          workers' = Place(ws, r, home, tried)

CannotAssign(ws, r) ==
  /\ BusyWith(ws, r) = {}
  /\ Homes(ws, r) = {}
  /\ workers' = Strike(ws, Candidates(ws, r))

Queued(r) == \E i \in 1..Len(pending) : pending[i].req = r

(* Faulty variants: one entry too many; the same request twice.            *)
EnqueuePastCap(r) ==
  pending' = IF Queued(r) \/ Len(pending) > PendingQueueCap
             THEN pending
             ELSE Append(pending, [req |-> r, stale |-> FALSE])

EnqueueTwice(r) ==
  pending' = IF Len(pending) >= PendingQueueCap
             THEN pending
             ELSE Append(pending, [req |-> r, stale |-> FALSE])

(* Faulty variant: a full queue makes room by dropping its oldest entry.   *)
EnqueueForOldest(r) ==
  pending' = IF Queued(r) THEN pending
             ELSE IF Len(pending) >= PendingQueueCap
             THEN Append(Tail(pending), [req |-> r, stale |-> FALSE])
             ELSE Append(pending, [req |-> r, stale |-> FALSE])

Enqueue(r) ==
  pending' = IF Queued(r) \/ Len(pending) >= PendingQueueCap
             THEN pending
             ELSE Append(pending, [req |-> r, stale |-> FALSE])

handle_assign_proof(r) ==
  /\ loop = Receiving
  /\ LET ws == trim_workers(workers)
     IN  \/ Assign(ws, r) /\ UNCHANGED pending
         \/ CannotAssign(ws, r) /\ Enqueue(r)
  /\ UNCHANGED <<still, loop, awaiting, poll>>

(* Faulty variant: an entry is stale only when the nonce is the same.      *)
StaleKeysByNonce(a, p) ==
  {b \in DOMAIN workers \ {a} : workers[b].process = p}

-----------------------------------------------------------------------------
(* Registration: at most one entry that looks like the same instance is    *)
(* removed, silently; a busy status is carried over when the nonce shows   *)
(* the same process.  The queue is drained afterwards.                     *)
StaleKeys(a, p) ==
  {b \in DOMAIN workers \ {a} : SameInstance(p, workers[b].process)}

(* Faulty variant: the new entry always starts idle.                       *)
CarriedNever(w, old) == w

Carried(w, old) ==
  IF old.process = w.process
  THEN [w EXCEPT !.job = old.job, !.progress = old.progress,
                 !.late = old.late \ {"heartbeat"}]
  ELSE w

Insert(ws, a, w) ==
  [b \in DOMAIN ws \cup {a} |-> IF b = a THEN w ELSE ws[b]]

Remove(ws, a) == [b \in DOMAIN ws \ {a} |-> ws[b]]

handle_worker_ready(a, p, caps) ==
  /\ loop = Receiving
  /\ IF StaleKeys(a, p) = {}
     THEN workers' = Insert(workers, a, New(p, caps))
     ELSE \E key \in StaleKeys(a, p) :
            workers' = Insert(Remove(workers, key), a,
                              Carried(New(p, caps), workers[key]))
  /\ loop' = Draining(NoRequest, NoStatus)
  /\ UNCHANGED <<pending, still, awaiting, poll>>

handle_heartbeat(a) ==
  /\ loop = Receiving
  /\ workers' = [workers EXCEPT ![a].late = @ \ {"heartbeat"}]
  /\ UNCHANGED <<pending, still, loop, awaiting, poll>>

(* Faulty variant: the youngest entry is tried first.                      *)
drain_step_youngest ==
  LET n == Len(pending) IN
  /\ loop.at = "drain"
  /\ pending # <<>>
  /\ pending' = SubSeq(pending, 1, n - 1)
  /\ \/ /\ Assign(workers, pending[n].req)
        /\ UNCHANGED still
     \/ /\ CannotAssign(workers, pending[n].req)
        /\ still' = <<pending[n]>> \o still
  /\ UNCHANGED <<loop, awaiting, poll>>

(* Faulty variant: what finds no worker goes back into the same queue.     *)
drain_step_requeue ==
  /\ loop.at = "drain"
  /\ pending # <<>>
  /\ \/ /\ Assign(workers, Head(pending).req)
        /\ pending' = Tail(pending)
     \/ /\ CannotAssign(workers, Head(pending).req)
        /\ pending' = Append(Tail(pending), Head(pending))
  /\ UNCHANGED <<still, loop, awaiting, poll>>

-----------------------------------------------------------------------------
(* drain_pending, one queue entry per step.  Whether an entry has outlived *)
(* the time to live was decided when the drain began (Expire waits).       *)
drain_step ==
  /\ loop.at = "drain"
  /\ pending # <<>>
  /\ pending' = Tail(pending)
  /\ \/ /\ Head(pending).stale
        /\ UNCHANGED <<workers, still>>
     \/ /\ ~Head(pending).stale
        /\ Assign(workers, Head(pending).req)
        /\ UNCHANGED still
     \/ /\ ~Head(pending).stale
        /\ CannotAssign(workers, Head(pending).req)
        /\ still' = Append(still, Head(pending))
  /\ UNCHANGED <<loop, awaiting, poll>>

(* Faulty variant: only one of the waiting senders is answered.            *)
RelayOne(r, st) ==
  /\ awaiting' = [awaiting EXCEPT ![r] = {}]
  /\ \E q \in awaiting[r] \cup {"nobody"} :
       poll' = [p \in Poll |->
                  IF p = q /\ poll[p] = [req |-> r, got |-> Waiting]
                  THEN [poll[p] EXCEPT !.got = st]
                  ELSE poll[p]]

(* Every sender waiting for r gets st; those whose poll timed out are      *)
(* closed and get nothing.                                                 *)
Relay(r, st) ==
  /\ awaiting' = [awaiting EXCEPT ![r] = {}]
  /\ poll' = [p \in Poll |->
                IF p \in awaiting[r] /\ poll[p] = [req |-> r, got |-> Waiting]
                THEN [poll[p] EXCEPT !.got = st]
                ELSE poll[p]]

drain_done ==
  /\ loop.at = "drain"
  /\ pending = <<>>
  /\ pending' = still
  /\ still' = <<>>
  /\ loop' = Receiving
  /\ IF loop.req = NoRequest
     THEN UNCHANGED <<awaiting, poll>>
     ELSE Relay(loop.req, loop.status)
  /\ UNCHANGED workers

(* Faulty variant: the freed worker is not offered to the queue.           *)
handle_proof_complete_no_drain(r) ==
  /\ loop = Receiving
  /\ \E a \in BusyWith(workers, r) :
       workers' = [workers EXCEPT ![a] = completed_proof(@)]
  /\ UNCHANGED <<pending, still, loop, awaiting, poll>>

handle_proof_complete(r) ==
  /\ loop = Receiving
  /\ \E a \in BusyWith(workers, r) :
       workers' = [workers EXCEPT ![a] = completed_proof(@)]
  /\ loop' = Draining(NoRequest, NoStatus)
  /\ UNCHANGED <<pending, still, awaiting, poll>>

(* Faulty variant: "unknown request" is passed on as it is.                *)
bridge_nothing(r, st) == st

(* Within the grace period "unknown request" is answered as unexecuted.    *)
bridge_startup_race(r, st) ==
  IF /\ st = NoStatus
     /\ \E a \in BusyWith(workers, r) : "grace" \notin workers[a].late
  THEN Unexecuted
  ELSE st

(* An unexecutable proof frees its worker and drains the queue before the  *)
(* answer is relayed.                                                      *)
handle_proof_status_response(r, st) ==
  LET relayed == bridge_startup_race(r, st) IN
  /\ loop = Receiving
  /\ IF relayed.exec = "unexecutable" /\ BusyWith(workers, r) # {}
     THEN /\ \E a \in BusyWith(workers, r) :
               workers' = [workers EXCEPT ![a] = failed_proof(@)]
          /\ loop' = Draining(r, relayed)
          /\ UNCHANGED <<awaiting, poll>>
     ELSE /\ Relay(r, relayed)
          /\ UNCHANGED <<workers, loop>>
  /\ UNCHANGED <<pending, still>>

(* Faulty variant: the request of the dropped worker is queued again.      *)
drop_and_requeue(r) ==
  /\ loop = Receiving
  /\ \E a \in BusyWith(workers, r) :
       workers' = trim_workers([workers EXCEPT ![a].strikes = MaxStrikes])
  /\ Enqueue(r)
  /\ UNCHANGED <<still, loop, awaiting, poll>>

handle_drop_worker_of_request(r) ==
  /\ loop = Receiving
  /\ \E a \in BusyWith(workers, r) :
       workers' = trim_workers([workers EXCEPT ![a].strikes = MaxStrikes])
  /\ UNCHANGED <<pending, still, loop, awaiting, poll>>

-----------------------------------------------------------------------------
(* Status polls: a queued request is reported unexecuted, one nobody holds *)
(* is lost (none), otherwise the worker is asked and the sender kept.      *)
handle_proof_status_request(p, r) ==
  LET ws == trim_workers(workers)
      answer(st) == /\ poll' = [poll EXCEPT ![p] = [req |-> r, got |-> st]]
                    /\ UNCHANGED awaiting
  IN
  /\ loop = Receiving
  /\ poll[p] = NotPolling
  /\ \A q \in Request : p \notin awaiting[q]
  /\ \/ /\ BusyWith(ws, r) = {}
        /\ answer(IF Queued(r) THEN Unexecuted ELSE NoStatus)
        /\ workers' = ws
     \/ \E a \in BusyWith(ws, r) :
          /\ ~ws[a].open
          /\ answer(NoStatus)
          /\ workers' = [ws EXCEPT ![a].strikes = MaxStrikes]
     \/ \E a \in BusyWith(ws, r) :
          /\ ws[a].open
          /\ awaiting' = [awaiting EXCEPT ![r] = @ \cup {p}]
          /\ poll' = [poll EXCEPT ![p] = [req |-> r, got |-> Waiting]]
          /\ workers' = ws
  /\ UNCHANGED <<pending, still, loop>>

(* A report without progress, or with more of it, restarts the clock.      *)
Progressed(w, n) ==
  IF n = 0 \/ n > w.progress
  THEN [w EXCEPT !.progress = IF n = 0 THEN @ ELSE n,
                 !.late = @ \ {"progress", "skew"}]
  ELSE w

handle_proof_progress_update(r, n) ==
  workers' = [a \in DOMAIN workers |->
                IF a \in BusyWith(workers, r) THEN Progressed(workers[a], n)
                                              ELSE workers[a]]

(* proof_status_request returns: an answer in time is reported back to the *)
(* registry as progress, unless it is none.                                *)
poll_returns(p) ==
  /\ loop = Receiving
  /\ poll[p].req # NoRequest
  /\ poll[p].got # Waiting
  /\ IF poll[p].got = NoStatus
     THEN UNCHANGED workers
     ELSE handle_proof_progress_update(poll[p].req, poll[p].got.progress)
  /\ poll' = [poll EXCEPT ![p] = NotPolling]
  /\ UNCHANGED <<pending, still, loop, awaiting>>

(* The poller gives up; its sender stays in awaiting.                      *)
poll_timeout(p) ==
  /\ poll[p].req # NoRequest
  /\ poll[p].got = Waiting
  /\ poll' = [poll EXCEPT ![p] = NotPolling]
  /\ UNCHANGED <<workers, pending, still, loop, awaiting>>

-----------------------------------------------------------------------------
(* The environment: sockets close, time passes.                            *)
SocketCloses(a) ==
  /\ workers[a].open
  /\ workers' = [workers EXCEPT ![a].open = FALSE]
  /\ UNCHANGED <<pending, still, loop, awaiting, poll>>

(* The two wall-clock comparisons can turn back when the clock is set.     *)
Elapse(a, limit) ==
  /\ limit # "heartbeat" => workers[a].job # NoRequest
  /\ limit \in workers[a].late => limit \in {"progress", "skew"}
  /\ workers' = [workers EXCEPT ![a].late =
                   IF limit \in @ THEN @ \ {limit} ELSE @ \cup {limit}]
  /\ UNCHANGED <<pending, still, loop, awaiting, poll>>

(* Entries are queued in order of arrival and expire in that order.        *)
Expire(i) ==
  /\ loop = Receiving
  /\ ~pending[i].stale
  /\ \A j \in 1..(i - 1) : pending[j].stale
  /\ pending' = [pending EXCEPT ![i].stale = TRUE]
  /\ UNCHANGED <<workers, still, loop, awaiting, poll>>

-----------------------------------------------------------------------------
(* A new socket's address is not that of another open socket.              *)
Free(a) == a \in DOMAIN workers => ~workers[a].open

Next ==
  \/ \E r \in Request : handle_assign_proof(r)
  \/ \E a \in Addr, p \in Process :
       \E caps \in Offers[p] : Free(a) /\ handle_worker_ready(a, p, caps)
  \/ \E a \in DOMAIN workers : handle_heartbeat(a)
  \/ drain_step
  \/ drain_done
  \/ \E r \in Request : handle_proof_complete(r)
  \/ \E r \in Request, st \in Status : handle_proof_status_response(r, st)
  \/ \E r \in Request : handle_drop_worker_of_request(r)
  \/ \E p \in Poll, r \in Request : handle_proof_status_request(p, r)
  \/ \E p \in Poll : poll_returns(p)
  \/ \E p \in Poll : poll_timeout(p)
  \/ \E a \in DOMAIN workers : SocketCloses(a)
  \/ \E a \in DOMAIN workers, limit \in Clocks : Elapse(a, limit)
  \/ \E i \in 1..Len(pending) : Expire(i)

Spec == Init /\ [][Next]_vars

(* The event loop keeps running, a poll's timeout fires, time passes; the  *)
(* commands are taken from a first-in-first-out channel, so the one a poll *)
(* ends with is handled although others keep coming.                       *)
Fairness ==
  /\ WF_vars(drain_step)
  /\ WF_vars(drain_done)
  /\ \A p \in Poll : SF_vars(poll_returns(p)) /\ WF_vars(poll_timeout(p))
  /\ WF_vars(\E i \in 1..Len(pending) : Expire(i))

FairSpec == Spec /\ Fairness

-----------------------------------------------------------------------------
Registry(ws) ==
  /\ DOMAIN ws \subseteq Addr
  /\ ws \in [DOMAIN ws -> WorkerState]

(* Type invariant; the queue never holds more than its cap.                *)
TypeOK ==
  /\ Registry(workers)
  /\ pending \in Seq(Entry)
  /\ still \in Seq(Entry)
  /\ Len(pending) + Len(still) <= PendingQueueCap
  /\ loop \in [at : {"recv", "drain"}, req : Request \cup {NoRequest},
               status : Status]
  /\ awaiting \in [Request -> SUBSET Poll]
  /\ poll \in [Poll -> [req : Request \cup {NoRequest},
                        got : Status \cup {Waiting}]]

SoleHolders(ws) ==
  \A a, b \in DOMAIN ws :
    a # b /\ ws[a].job # NoRequest => ws[a].job # ws[b].job

(* No request is ever assigned to two workers, however often it is sent    *)
(* and whatever reconnects (the idempotency check of try_assign).          *)
OneWorkerPerRequest == SoleHolders(workers)

Distinct ==
  /\ \A i, j \in 1..Len(pending) :
       i # j => pending[i].req # pending[j].req
  /\ \A i, j \in 1..Len(still) : i # j => still[i].req # still[j].req
  /\ \A i \in 1..Len(pending), j \in 1..Len(still) :
       pending[i].req # still[j].req

Unheld(ws, queue) ==
  \A i \in 1..Len(queue) : BusyWith(ws, queue[i].req) = {}

(* A request has at most one place in the queue, and none while a worker   *)
(* is busy with it: a later drain cannot hand out a proof again.           *)
QueueExclusive ==
  Distinct /\ Unheld(workers, pending) /\ Unheld(workers, still)

(* No reachable idle worker could serve r.                                 *)
NoHome(ws, r) == Open(ws, Candidates(ws, r)) = {}

(* Between commands no request waits in the queue while a connected idle   *)
(* worker could serve it: every event that frees capacity drains.          *)
WorkConserving ==
  loop = Receiving => \A i \in 1..Len(pending) : NoHome(workers, pending[i].req)

(* What makes the three above inductive: while a drain runs, what it left  *)
(* behind still finds no worker.                                           *)
DrainInv ==
  /\ loop.at = "recv" => loop = Receiving /\ still = <<>>
  /\ \A i \in 1..Len(still) : NoHome(workers, still[i].req)

(* The inductive invariant.                                                *)
RegistryInv ==
  TypeOK /\ OneWorkerPerRequest /\ QueueExclusive /\ WorkConserving /\ DrainInv

(* The entries ahead of r: all of the queue when r has just arrived.       *)
Ahead(r) ==
  {pending[i].req : i \in {j \in 1..Len(pending) :
                             \A k \in 1..j : pending[k].req # r}}
  \cup {still[i].req : i \in 1..Len(still)}

(* A worker that is given a request could serve none of those ahead of it. *)
InTurn ==
  \A a \in DOMAIN workers \cap DOMAIN workers' :
    LET r == workers'[a].job
    IN  /\ workers[a].job = NoRequest
        /\ r # NoRequest
        /\ BusyWith(workers, r) = {}
        => \A q \in Ahead(r) : ~can_serve(workers[a], q)

(* No request, queued or just arrived, is given a worker that a request    *)
(* ahead of it in the queue could have used.                               *)
NoOvertaking == [][InTurn]_vars

(* A name is used either with an endpoint or without, never both: then     *)
(* SameInstance is an equivalence.                                         *)
IdentityTransitive ==
  \A p, q, o \in Process :
    SameInstance(p, q) /\ SameInstance(q, o) => SameInstance(p, o)

(* At most one entry per contemplant where SameInstance is an equivalence: *)
(* evicting an entry never makes the magister destroy an instance that     *)
(* has registered again under another address.                             *)
UniqueInstance ==
  IdentityTransitive =>
    \A a, b \in DOMAIN workers :
      a # b => ~SameInstance(workers[a].process, workers[b].process)

(* Where SameInstance is an equivalence, a process that reconnects under a *)
(* fresh address keeps its assignment.                                     *)
ReconnectKeepsAssignment ==
  [][IdentityTransitive =>
       \A a \in Addr \ DOMAIN workers, b \in DOMAIN workers :
         a \in DOMAIN workers' /\ workers'[a].process = workers[b].process
           => workers'[a].job = workers[b].job]_vars

(* The answers a step gives: none for a request that a connected worker    *)
(* was assigned within the grace period, nor, when the poll is answered at *)
(* once, for one that is queued.                                           *)
Genuine ==
  \A p \in Poll :
    /\ poll[p] # poll'[p]
    /\ poll'[p].req # NoRequest
    /\ poll'[p].got = NoStatus
    => /\ \A a \in BusyWith(workers', poll'[p].req) :
            ~workers'[a].open \/ "grace" \in workers'[a].late
       /\ poll[p] = NotPolling => ~Queued(poll'[p].req)

(* A poll is told that a request is lost only when no connected worker was *)
(* assigned it within the grace period, and, if it is told at once, when   *)
(* the request is not queued either: losing it is terminal for a client.   *)
LossIsGenuine == [][Genuine]_vars

(* A poll that waits is known to the registry, under the request it asked  *)
(* about: the answer, when it comes, reaches it.                           *)
WaitersKnown ==
  \A p \in Poll :
    poll[p].req # NoRequest /\ poll[p].got = Waiting
      => p \in awaiting[poll[p].req]

-----------------------------------------------------------------------------
(* Every poll returns, answered or timed out, also one whose worker is     *)
(* evicted before it answers.                                              *)
PollsReturn == \A p \in Poll : poll[p] # NotPolling ~> poll[p] = NotPolling

-----------------------------------------------------------------------------
(* The view that the front ends have of the registry.                      *)
Waits(r) == Queued(r) \/ \E i \in 1..Len(still) : still[i].req = r

StandingOf(r) ==
  IF BusyWith(workers, r) # {} THEN "busy"
  ELSE IF Waits(r) THEN "queued" ELSE "unknown"

View == INSTANCE RegistryView WITH reg <- [r \in Request |-> StandingOf(r)]

(* The registry implements the view its front ends have of it: a step      *)
(* brings in, places or drops one request at most, what it takes away      *)
(* besides was at a worker, and what is queued only leaves by itself.      *)
ImplementsView == View!ViewSpec

(* r comes into the queue, or to a worker without having waited.           *)
Enters(r) ==
  /\ ~Waits(r)
  /\ Waits(r)' \/ (BusyWith(workers, r) = {} /\ BusyWith(workers', r) # {})

(* A request is queued or placed by its own submission and by nothing      *)
(* else: when its worker is evicted, dropped or reconnects, no handler     *)
(* puts the request back, so what a poll was told is lost stays lost       *)
(* until somebody submits it again.                                        *)
EntersBySubmission == [][\A r \in Request : Enters(r) => handle_assign_proof(r)]_vars
=============================================================================
