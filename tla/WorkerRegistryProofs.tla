------------------------ MODULE WorkerRegistryProofs ------------------------
(***************************************************************************)
(* Proofs about WorkerRegistry: RegistryInv is inductive for every set of  *)
(* contemplants, requests and polls and every queue capacity.              *)
(***************************************************************************)
EXTENDS WorkerRegistry, SequenceTheorems, TLAPS

(* wt offers no capacity that ws does not: its entries are entries of ws,  *)
(* with the same identity, and idle or connected only where ws is.         *)
Narrows(ws, wt) ==
  \A a \in DOMAIN wt :
    /\ a \in DOMAIN ws
    /\ wt[a].process = ws[a].process
    /\ wt[a].caps = ws[a].caps
    /\ wt[a].open => ws[a].open
    /\ wt[a].job = NoRequest => ws[a].job = NoRequest

(* wt starts no job: its entries are entries of ws with the same job or    *)
(* with none.                                                              *)
JobsKept(ws, wt) ==
  \A a \in DOMAIN wt :
    /\ a \in DOMAIN ws
    /\ wt[a].process = ws[a].process
    /\ wt[a].job # NoRequest => wt[a].job = ws[a].job

-----------------------------------------------------------------------------
(* What the operations of a worker's state change.                         *)
LEMMA IdleFacts ==
  ASSUME NEW w \in WorkerState
  PROVE  /\ Idle(w) \in WorkerState
         /\ Idle(w).job = NoRequest
         /\ Idle(w).process = w.process
         /\ Idle(w).caps = w.caps
         /\ Idle(w).open = w.open
<1>1. 0 \in 0..MaxProgress
  BY ConstantsAssumption
<1>2. w.late \cap {"heartbeat"} \in SUBSET Limit
  BY DEF WorkerState
<1> QED
  BY <1>1, <1>2 DEF Idle, WorkerState

LEMMA CompletedFacts ==
  ASSUME NEW w \in WorkerState
  PROVE  /\ completed_proof(w) \in WorkerState
         /\ completed_proof(w).job = NoRequest
         /\ completed_proof(w).process = w.process
BY IdleFacts, ConstantsAssumption DEF completed_proof, WorkerState

LEMMA AssignedFacts ==
  ASSUME NEW w \in WorkerState, NEW r \in Request
  PROVE  /\ assigned_proof(w, r) \in WorkerState
         /\ assigned_proof(w, r).job = r
         /\ assigned_proof(w, r).process = w.process
         /\ assigned_proof(w, r).caps = w.caps
         /\ assigned_proof(w, r).open = w.open
<1>1. VmOf[r] \in Capability \cup {NoVm} /\ 0 \in 0..MaxStrikes
  BY ConstantsAssumption
<1> QED
  BY <1>1, IdleFacts DEF assigned_proof, WorkerState

LEMMA StrikeFacts ==
  ASSUME NEW w \in WorkerState
  PROVE  /\ add_strike(w) \in WorkerState
         /\ add_strike(w).job = w.job
         /\ add_strike(w).process = w.process
         /\ add_strike(w).caps = w.caps
         /\ add_strike(w).open = w.open
BY ConstantsAssumption DEF add_strike, WorkerState

-----------------------------------------------------------------------------
(* A narrower registry has no home for a request that had none.            *)
LEMMA NarrowsNoHome ==
  ASSUME NEW ws, NEW wt, NEW r, Narrows(ws, wt), NoHome(ws, r)
  PROVE  NoHome(wt, r)
BY DEF Narrows, NoHome, Open, Candidates, can_serve

(* Without new jobs no request gets a second holder, nor a first one.      *)
LEMMA JobsKeptFacts ==
  ASSUME NEW ws, NEW wt, JobsKept(ws, wt)
  PROVE  /\ SoleHolders(ws) => SoleHolders(wt)
         /\ \A q \in Request : BusyWith(ws, q) = {} => BusyWith(wt, q) = {}
BY ConstantsAssumption DEF JobsKept, SoleHolders, BusyWith

LEMMA TrimFacts ==
  ASSUME NEW ws, Registry(ws)
  PROVE  /\ Registry(trim_workers(ws))
         /\ Narrows(ws, trim_workers(ws))
         /\ JobsKept(ws, trim_workers(ws))
BY DEF Registry, trim_workers, Narrows, JobsKept

LEMMA StrikeAllFacts ==
  ASSUME NEW ws, Registry(ws), NEW S
  PROVE  /\ Registry(Strike(ws, S))
         /\ DOMAIN Strike(ws, S) = DOMAIN ws
         /\ Narrows(ws, Strike(ws, S))
         /\ JobsKept(ws, Strike(ws, S))
<1>1. \A a \in DOMAIN ws : ws[a] \in WorkerState
  BY DEF Registry
<1> QED
  BY <1>1, StrikeFacts DEF Registry, Strike, Narrows, JobsKept

(* An assignment goes to a worker that was free, connected and capable.    *)
LEMMA PlaceFacts ==
  ASSUME NEW ws, Registry(ws), SoleHolders(ws), NEW r \in Request,
         BusyWith(ws, r) = {}, NEW home \in Homes(ws, r), NEW tried
  PROVE  LET wt == Place(ws, r, home, tried) IN
         /\ Registry(wt)
         /\ SoleHolders(wt)
         /\ Narrows(ws, wt)
         /\ \A q \in Request \ {r} : BusyWith(ws, q) = {} => BusyWith(wt, q) = {}
         /\ ~NoHome(ws, r)
         /\ \A a \in DOMAIN wt : wt[a].job = r => ws[a].job = NoRequest /\ ws[a].open
<1> DEFINE st == Strike(ws, tried)
           wt == Place(ws, r, home, tried)
<1>1. /\ home \in DOMAIN ws
      /\ ws[home].job = NoRequest
      /\ home \in Open(ws, Candidates(ws, r))
  BY DEF Homes, Open, Hot, Candidates
<1>2. Registry(st) /\ Narrows(ws, st) /\ JobsKept(ws, st) /\ DOMAIN st = DOMAIN ws
  BY StrikeAllFacts
<1>3. st[home] \in WorkerState
  BY <1>1, <1>2 DEF Registry
<1>4. /\ wt = [st EXCEPT ![home] = assigned_proof(st[home], r)]
      /\ DOMAIN wt = DOMAIN st
      /\ wt[home] = assigned_proof(st[home], r)
      /\ \A a \in DOMAIN st : a # home => wt[a] = st[a]
  BY <1>1, <1>2 DEF Place, Registry
<1>5. Registry(wt)
  BY <1>2, <1>3, <1>4, AssignedFacts DEF Registry
<1>6. Narrows(ws, wt)
  BY <1>1, <1>2, <1>3, <1>4, AssignedFacts, ConstantsAssumption DEF Narrows
<1>7. /\ SoleHolders(st)
      /\ \A q \in Request : BusyWith(ws, q) = {} => BusyWith(st, q) = {}
  BY <1>2, JobsKeptFacts
<1>8. SoleHolders(wt)
  <2> SUFFICES ASSUME NEW a \in DOMAIN st, NEW b \in DOMAIN st, a # b,
                      wt[a].job # NoRequest, wt[a].job = wt[b].job
               PROVE  FALSE
    BY <1>4 DEF SoleHolders
  <2>1. \A c \in DOMAIN st : st[c].job # r
    BY <1>7 DEF BusyWith
  <2> QED
    BY <2>1, <1>1, <1>2, <1>3, <1>4, <1>7, AssignedFacts DEF SoleHolders
<1>9. \A q \in Request \ {r} : BusyWith(ws, q) = {} => BusyWith(wt, q) = {}
  BY <1>1, <1>2, <1>3, <1>4, <1>7, AssignedFacts DEF BusyWith
<1>10. \A a \in DOMAIN wt : wt[a].job = r => ws[a].job = NoRequest /\ ws[a].open
  BY <1>1, <1>4, <1>7 DEF BusyWith, Open
<1> QED
  BY <1>1, <1>5, <1>6, <1>8, <1>9, <1>10 DEF NoHome

LEMMA AssignFacts ==
  ASSUME NEW ws, Registry(ws), SoleHolders(ws), NEW r \in Request, Assign(ws, r)
  PROVE  /\ Registry(workers')
         /\ SoleHolders(workers')
         /\ Narrows(ws, workers')
         /\ \A q \in Request \ {r} :
              BusyWith(ws, q) = {} => BusyWith(workers', q) = {}
         /\ BusyWith(ws, r) = {} => ~NoHome(ws, r)
         /\ BusyWith(ws, r) = {} =>
              \A a \in DOMAIN workers' :
                workers'[a].job = r => ws[a].job = NoRequest /\ ws[a].open
<1>1. CASE BusyWith(ws, r) # {} /\ workers' = ws
  BY <1>1 DEF Narrows
<1>2. CASE /\ BusyWith(ws, r) = {}
           /\ \E home \in Homes(ws, r) : \E tried \in Tried(ws, r, home) :
                workers' = Place(ws, r, home, tried)
  BY <1>2, PlaceFacts
<1> QED
  BY <1>1, <1>2 DEF Assign

LEMMA CannotAssignFacts ==
  ASSUME NEW ws, Registry(ws), SoleHolders(ws), NEW r \in Request,
         CannotAssign(ws, r)
  PROVE  /\ Registry(workers')
         /\ SoleHolders(workers')
         /\ Narrows(ws, workers')
         /\ \A q \in Request :
              BusyWith(ws, q) = {} => BusyWith(workers', q) = {}
         /\ BusyWith(ws, r) = {}
         /\ NoHome(ws, r)
<1>1. workers' = Strike(ws, Candidates(ws, r))
  BY DEF CannotAssign
<1>2. NoHome(ws, r) /\ BusyWith(ws, r) = {}
  BY DEF CannotAssign, Homes, NoHome
<1> QED
  BY <1>1, <1>2, StrikeAllFacts, JobsKeptFacts

-----------------------------------------------------------------------------
LEMMA QueueTyped ==
  ASSUME TypeOK
  PROVE  /\ \A i \in 1..Len(pending) : pending[i].req \in Request
         /\ \A i \in 1..Len(still) : still[i].req \in Request
<1>1. pending \in Seq(Entry) /\ still \in Seq(Entry)
  BY DEF TypeOK
<1>2. /\ \A i \in 1..Len(pending) : pending[i] \in Entry
      /\ \A i \in 1..Len(still) : still[i] \in Entry
  BY <1>1, ElementOfSeq
<1> QED
  BY <1>2 DEF Entry

(* A queue whose requests have no holder keeps that property when no       *)
(* request gets one.                                                       *)
LEMMA UnheldKept ==
  ASSUME NEW ws, NEW wt, NEW queue, Unheld(ws, queue),
         \A i \in 1..Len(queue) : queue[i].req \in Request,
         \A q \in Request : BusyWith(ws, q) = {} => BusyWith(wt, q) = {}
  PROVE  Unheld(wt, queue)
BY DEF Unheld

(* Steps that leave the queue alone and free nobody.                       *)
LEMMA QuietStep ==
  ASSUME RegistryInv, UNCHANGED <<pending, still, loop>>,
         Registry(workers'), SoleHolders(workers'), Narrows(workers, workers'),
         \A q \in Request : BusyWith(workers, q) = {} => BusyWith(workers', q) = {},
         awaiting' \in [Request -> SUBSET Poll],
         poll' \in [Poll -> [req : Request \cup {NoRequest},
                             got : Status \cup {Waiting}]]
  PROVE  RegistryInv'
<1> USE DEF RegistryInv
<1>1. TypeOK'
  BY DEF TypeOK
<1>2. Unheld(workers', pending) /\ Unheld(workers', still)
  BY QueueTyped, UnheldKept DEF QueueExclusive
<1>3. QueueExclusive'
  BY <1>2 DEF QueueExclusive, Distinct
<1>4. WorkConserving' /\ DrainInv'
  BY NarrowsNoHome DEF WorkConserving, DrainInv
<1> QED
  BY <1>1, <1>3, <1>4 DEF OneWorkerPerRequest

(* Steps that may free a worker and therefore start a drain.               *)
LEMMA FreeingStep ==
  ASSUME RegistryInv, loop = Receiving, UNCHANGED <<pending, still, awaiting, poll>>,
         NEW r \in Request \cup {NoRequest}, NEW st \in Status,
         loop' = Draining(r, st),
         Registry(workers'), SoleHolders(workers'),
         \A q \in Request : BusyWith(workers, q) = {} => BusyWith(workers', q) = {}
  PROVE  RegistryInv'
<1> USE DEF RegistryInv
<1>1. TypeOK'
  BY DEF TypeOK, Draining
<1>2. still = <<>> /\ loop'.at = "drain" /\ loop' # Receiving
  BY DEF DrainInv, Draining, Receiving
<1>3. Unheld(workers', pending) /\ Unheld(workers', still)
  BY QueueTyped, UnheldKept DEF QueueExclusive
<1>4. QueueExclusive'
  BY <1>3 DEF QueueExclusive, Distinct
<1>5. WorkConserving' /\ DrainInv'
  BY <1>2 DEF WorkConserving, DrainInv
<1> QED
  BY <1>1, <1>4, <1>5 DEF OneWorkerPerRequest

(* A worker that is freed, however, gives no request a new holder.         *)
LEMMA FreedFacts ==
  ASSUME NEW ws, Registry(ws), NEW a \in DOMAIN ws, NEW w \in WorkerState,
         w.job = NoRequest, w.process = ws[a].process
  PROVE  /\ Registry([ws EXCEPT ![a] = w])
         /\ JobsKept(ws, [ws EXCEPT ![a] = w])
BY DEF Registry, JobsKept

(* A change of one entry that keeps its job and identity.                  *)
LEMMA TouchedFacts ==
  ASSUME NEW ws, Registry(ws), NEW a \in DOMAIN ws, NEW w \in WorkerState,
         w.job = ws[a].job, w.process = ws[a].process, w.caps = ws[a].caps,
         w.open => ws[a].open
  PROVE  /\ Registry([ws EXCEPT ![a] = w])
         /\ Narrows(ws, [ws EXCEPT ![a] = w])
         /\ JobsKept(ws, [ws EXCEPT ![a] = w])
BY DEF Registry, JobsKept, Narrows

LEMMA AssignProofStep ==
  ASSUME RegistryInv, NEW r \in Request, handle_assign_proof(r)
  PROVE  RegistryInv'
<1> DEFINE ws == trim_workers(workers)
<1> USE DEF RegistryInv
<1>1. /\ loop = Receiving /\ still = <<>>
      /\ UNCHANGED <<still, loop, awaiting, poll>>
  BY DEF handle_assign_proof, DrainInv, Receiving
<1>2. Registry(ws) /\ Narrows(workers, ws) /\ JobsKept(workers, ws)
  BY TrimFacts DEF TypeOK
<1>3. /\ SoleHolders(ws)
      /\ \A q \in Request : BusyWith(workers, q) = {} => BusyWith(ws, q) = {}
  BY <1>2, JobsKeptFacts DEF OneWorkerPerRequest
<1>4. \A i \in 1..Len(pending) :
        /\ pending[i].req \in Request
        /\ NoHome(ws, pending[i].req)
        /\ BusyWith(ws, pending[i].req) = {}
  BY <1>1, <1>2, <1>3, NarrowsNoHome, QueueTyped
     DEF WorkConserving, QueueExclusive, Unheld
<1>5. CASE Assign(ws, r) /\ UNCHANGED pending
  <2>1. /\ Registry(workers') /\ SoleHolders(workers') /\ Narrows(ws, workers')
        /\ \A q \in Request \ {r} :
             BusyWith(ws, q) = {} => BusyWith(workers', q) = {}
        /\ BusyWith(ws, r) = {} => ~NoHome(ws, r)
    BY <1>2, <1>3, <1>5, AssignFacts
  <2>2. \A i \in 1..Len(pending) : pending[i].req # r
    BY <1>4, <2>1
  <2>3. TypeOK'
    BY <1>1, <1>5, <2>1 DEF TypeOK
  <2>4. Unheld(workers', pending)
    BY <1>4, <2>1, <2>2 DEF Unheld
  <2>6. QueueExclusive'
    BY <1>1, <1>5, <2>4 DEF QueueExclusive, Distinct, Unheld
  <2>5. WorkConserving' /\ DrainInv'
    BY <1>1, <1>4, <1>5, <2>1, NarrowsNoHome DEF WorkConserving, DrainInv
  <2> QED
    BY <2>1, <2>3, <2>5, <2>6 DEF OneWorkerPerRequest
<1>6. CASE CannotAssign(ws, r) /\ Enqueue(r)
  <2>1. /\ Registry(workers') /\ SoleHolders(workers') /\ Narrows(ws, workers')
        /\ \A q \in Request : BusyWith(ws, q) = {} => BusyWith(workers', q) = {}
        /\ BusyWith(ws, r) = {} /\ NoHome(ws, r)
    BY <1>2, <1>3, <1>6, CannotAssignFacts
  <2>2. \/ pending' = pending
        \/ /\ \A i \in 1..Len(pending) : pending[i].req # r
           /\ Len(pending) < PendingQueueCap
           /\ pending' = Append(pending, [req |-> r, stale |-> FALSE])
    <3>1. Len(pending) \in Nat
      BY LenProperties DEF TypeOK
    <3> QED
      BY <1>6, <3>1, ConstantsAssumption DEF Enqueue, Queued
  <2>3. CASE pending' = pending
    <3>1. QueueExclusive'
      <4>1. Unheld(workers', pending) /\ Unheld(workers', still)
        BY <1>1, <1>4, <2>1 DEF Unheld
      <4>2. Distinct'
        BY <1>1, <2>3 DEF QueueExclusive, Distinct
      <4> QED
        BY <1>1, <2>3, <4>1, <4>2 DEF QueueExclusive
    <3>2. WorkConserving' /\ DrainInv'
      BY <1>1, <1>4, <2>1, <2>3, NarrowsNoHome DEF WorkConserving, DrainInv
    <3> QED
      BY <1>1, <2>1, <2>3, <3>1, <3>2 DEF TypeOK, OneWorkerPerRequest
  <2>4. CASE /\ \A i \in 1..Len(pending) : pending[i].req # r
             /\ Len(pending) < PendingQueueCap
             /\ pending' = Append(pending, [req |-> r, stale |-> FALSE])
    <3>1. /\ pending' \in Seq(Entry)
          /\ Len(pending') = Len(pending) + 1
          /\ Len(pending) \in Nat
          /\ \A i \in 1..Len(pending) : pending'[i] = pending[i]
          /\ pending'[Len(pending) + 1].req = r
      BY <2>4, AppendProperties, LenProperties DEF TypeOK, Entry
    <3>2. \A i \in 1..Len(pending') :
            /\ NoHome(workers', pending'[i].req)
            /\ BusyWith(workers', pending'[i].req) = {}
      <4> SUFFICES ASSUME NEW i \in 1..Len(pending')
                   PROVE  /\ NoHome(workers', pending'[i].req)
                          /\ BusyWith(workers', pending'[i].req) = {}
        OBVIOUS
      <4>1. CASE i \in 1..Len(pending)
        BY <1>4, <2>1, <3>1, <4>1, NarrowsNoHome
      <4>2. CASE i = Len(pending) + 1
        BY <2>1, <3>1, <4>2, NarrowsNoHome
      <4> QED
        BY <3>1, <4>1, <4>2
    <3>3. TypeOK'
      BY <1>1, <2>1, <2>4, <3>1, ConstantsAssumption DEF TypeOK
    <3>4. QueueExclusive'
      <4>1. Unheld(workers', pending') /\ Unheld(workers', still')
        BY <1>1, <3>2 DEF Unheld
      <4>2. \A i, j \in 1..Len(pending') :
              i # j => pending'[i].req # pending'[j].req
        BY <2>4, <3>1 DEF QueueExclusive, Distinct
      <4> QED
        BY <1>1, <4>1, <4>2 DEF QueueExclusive, Distinct
    <3>5. WorkConserving' /\ DrainInv'
      BY <1>1, <3>2 DEF WorkConserving, DrainInv
    <3> QED
      BY <2>1, <3>3, <3>4, <3>5 DEF OneWorkerPerRequest
  <2> QED
    BY <2>2, <2>3, <2>4
<1> QED
  BY <1>5, <1>6 DEF handle_assign_proof

LEMMA DrainStepStep ==
  ASSUME RegistryInv, drain_step
  PROVE  RegistryInv'
<1> DEFINE e == Head(pending)
<1> USE DEF RegistryInv
<1>1. /\ loop.at = "drain" /\ loop # Receiving /\ pending # <<>>
      /\ UNCHANGED <<loop, awaiting, poll>>
      /\ pending' = Tail(pending)
  BY DEF drain_step, Receiving
<1>2. /\ pending' \in Seq(Entry)
      /\ Len(pending) \in Nat \ {0}
      /\ Len(pending') = Len(pending) - 1
      /\ \A i \in 1..Len(pending') : pending'[i] = pending[i + 1]
      /\ e \in Entry /\ e = pending[1]
  <2>1. pending \in Seq(Entry)
    BY DEF TypeOK
  <2>2. e = pending[1]
    BY <2>1, <1>1
  <2> QED
    BY <1>1, <2>1, <2>2, HeadTailProperties, EmptySeq
<1>3. /\ still \in Seq(Entry) /\ Len(still) \in Nat
      /\ Len(pending) + Len(still) <= PendingQueueCap
      /\ e.req \in Request
  BY <1>2, LenProperties DEF TypeOK, Entry
<1>4. /\ \A i \in 1..Len(pending') :
           /\ i + 1 \in 1..Len(pending) /\ i + 1 # 1
           /\ pending'[i].req \in Request
           /\ pending'[i].req # e.req
           /\ BusyWith(workers, pending'[i].req) = {}
      /\ \A i, j \in 1..Len(pending') : i # j => pending'[i].req # pending'[j].req
  <2>1. \A i \in 1..Len(pending') : i + 1 \in 1..Len(pending) /\ i + 1 # 1
    BY <1>2
  <2>2. 1 \in 1..Len(pending)
    BY <1>2
  <2>3. \A i, j \in 1..Len(pending') : i # j => i + 1 # j + 1
    OBVIOUS
  <2>4. /\ \A i \in 1..Len(pending) : /\ pending[i].req \in Request
                                      /\ BusyWith(workers, pending[i].req) = {}
        /\ \A i, j \in 1..Len(pending) : i # j => pending[i].req # pending[j].req
    BY QueueTyped DEF QueueExclusive, Distinct, Unheld
  <2>5. \A i \in 1..Len(pending') :
          /\ pending[i + 1].req \in Request
          /\ pending[i + 1].req # pending[1].req
          /\ BusyWith(workers, pending[i + 1].req) = {}
    BY <2>1, <2>2, <2>4
  <2>6. \A i, j \in 1..Len(pending') :
          i # j => pending[i + 1].req # pending[j + 1].req
    BY <2>1, <2>3, <2>4
  <2>7. /\ \A i \in 1..Len(pending') : pending'[i] = pending[i + 1]
        /\ e = pending[1]
    BY <1>2
  <2> HIDE DEF e, RegistryInv
  <2> QED
    BY <2>1, <2>5, <2>6, <2>7
<1>5. \A j \in 1..Len(still) :
        /\ still[j].req \in Request
        /\ still[j].req # e.req
        /\ BusyWith(workers, still[j].req) = {}
        /\ NoHome(workers, still[j].req)
  <2>1. 1 \in 1..Len(pending)
    BY <1>2
  <2> QED
    BY <1>2, <2>1, QueueTyped DEF QueueExclusive, Distinct, Unheld, DrainInv
<1>6. \A i \in 1..Len(pending'), j \in 1..Len(still) : pending'[i].req # still[j].req
  <2>1. \A i \in 1..Len(pending), j \in 1..Len(still) : pending[i].req # still[j].req
    BY DEF QueueExclusive, Distinct
  <2>2. \A i \in 1..Len(pending') :
          i + 1 \in 1..Len(pending) /\ pending'[i] = pending[i + 1]
    BY <1>2, <1>4
  <2> HIDE DEF e, RegistryInv
  <2> QED
    BY <2>1, <2>2
<1>7. BusyWith(workers, e.req) = {}
  <2>1. 1 \in 1..Len(pending)
    BY <1>2
  <2> QED
    BY <1>2, <2>1 DEF QueueExclusive, Unheld
<1>8. Registry(workers) /\ SoleHolders(workers)
  BY DEF TypeOK, OneWorkerPerRequest
<1>9. CASE UNCHANGED still /\ (UNCHANGED workers \/ Assign(workers, e.req))
  <2>1. /\ Registry(workers') /\ SoleHolders(workers') /\ Narrows(workers, workers')
        /\ \A q \in Request \ {e.req} :
             BusyWith(workers, q) = {} => BusyWith(workers', q) = {}
    <3>1. CASE UNCHANGED workers
      BY <1>8, <3>1 DEF Narrows
    <3>2. CASE Assign(workers, e.req)
      BY <1>3, <1>8, <3>2, AssignFacts
    <3> QED
      BY <1>9, <3>1, <3>2
  <2>2. TypeOK'
    BY <1>1, <1>2, <1>3, <1>9, <2>1, ConstantsAssumption DEF TypeOK
  <2>3. Unheld(workers', pending') /\ Unheld(workers', still)
    BY <1>4, <1>5, <2>1 DEF Unheld
  <2>4. Distinct'
    BY <1>4, <1>6, <1>9 DEF QueueExclusive, Distinct
  <2>5. DrainInv' /\ WorkConserving'
    BY <1>1, <1>5, <1>9, <2>1, NarrowsNoHome DEF DrainInv, WorkConserving
  <2> QED
    BY <1>9, <2>1, <2>2, <2>3, <2>4, <2>5 DEF QueueExclusive, OneWorkerPerRequest
<1>10. CASE CannotAssign(workers, e.req) /\ still' = Append(still, e)
  <2>1. /\ Registry(workers') /\ SoleHolders(workers') /\ Narrows(workers, workers')
        /\ \A q \in Request : BusyWith(workers, q) = {} => BusyWith(workers', q) = {}
        /\ NoHome(workers, e.req)
    BY <1>3, <1>8, <1>10, CannotAssignFacts
  <2>2. /\ still' \in Seq(Entry)
        /\ Len(still') = Len(still) + 1
        /\ \A i \in 1..Len(still) : still'[i] = still[i]
        /\ still'[Len(still) + 1] = e
    BY <1>2, <1>3, <1>10, AppendProperties
  <2>3. TypeOK'
    BY <1>1, <1>2, <1>3, <2>1, <2>2, ConstantsAssumption DEF TypeOK
  <2>4. \A j \in 1..Len(still') : j \in 1..Len(still) \/ still'[j] = e
    BY <1>3, <2>2
  <2>5. Unheld(workers', pending') /\ Unheld(workers', still')
    BY <1>3, <1>4, <1>5, <1>7, <2>1, <2>2, <2>4 DEF Unheld
  <2>6. Distinct'
    <3>1. \A i, j \in 1..Len(still') : i # j => still'[i].req # still'[j].req
      <4> SUFFICES ASSUME NEW i \in 1..Len(still'), NEW j \in 1..Len(still'), i # j
                   PROVE  still'[i].req # still'[j].req
        OBVIOUS
      <4>1. CASE i \in 1..Len(still) /\ j \in 1..Len(still)
        BY <2>2, <4>1 DEF QueueExclusive, Distinct
      <4>2. CASE i \in 1..Len(still) /\ j = Len(still) + 1
        BY <1>5, <2>2, <4>2
      <4>3. CASE i = Len(still) + 1 /\ j \in 1..Len(still)
        BY <1>5, <2>2, <4>3
      <4> QED
        BY <1>3, <2>2, <4>1, <4>2, <4>3
    <3>2. \A i \in 1..Len(pending'), j \in 1..Len(still') :
            pending'[i].req # still'[j].req
      BY <1>4, <1>6, <2>2, <2>4
    <3> QED
      BY <1>4, <3>1, <3>2 DEF Distinct
  <2>7. DrainInv' /\ WorkConserving'
    <3>1. \A j \in 1..Len(still') : NoHome(workers', still'[j].req)
      BY <1>5, <2>1, <2>2, <2>4, NarrowsNoHome
    <3> QED
      BY <1>1, <3>1 DEF DrainInv, WorkConserving
  <2> QED
    BY <2>1, <2>3, <2>5, <2>6, <2>7 DEF QueueExclusive, OneWorkerPerRequest
<1> QED
  BY <1>9, <1>10 DEF drain_step

(* The answers relayed to polls are statuses.                              *)
LEMMA RelayTyped ==
  ASSUME TypeOK, NEW r \in Request, NEW st \in Status, Relay(r, st)
  PROVE  /\ awaiting' \in [Request -> SUBSET Poll]
         /\ poll' \in [Poll -> [req : Request \cup {NoRequest},
                                got : Status \cup {Waiting}]]
BY DEF TypeOK, Relay

LEMMA DrainDoneStep ==
  ASSUME RegistryInv, drain_done
  PROVE  RegistryInv' /\ JobsKept(workers, workers')
<1> USE DEF RegistryInv
<1>1. /\ pending = <<>> /\ pending' = still /\ still' = <<>> /\ loop' = Receiving
      /\ UNCHANGED workers
  BY DEF drain_done
<1>2. /\ awaiting' \in [Request -> SUBSET Poll]
      /\ poll' \in [Poll -> [req : Request \cup {NoRequest},
                             got : Status \cup {Waiting}]]
  <2>1. loop.req \in Request \cup {NoRequest} /\ loop.status \in Status
    BY DEF TypeOK
  <2>2. CASE loop.req = NoRequest
    BY <2>2 DEF drain_done, TypeOK
  <2>3. CASE loop.req # NoRequest
    BY <2>1, <2>3, RelayTyped DEF drain_done
  <2> QED
    BY <2>2, <2>3
<1>3. Len(<<>>) = 0 /\ Len(still) \in Nat
  BY LenProperties DEF TypeOK
<1>4. TypeOK'
  <2>1. Receiving \in [at : {"recv", "drain"}, req : Request \cup {NoRequest},
                       status : Status]
    BY DEF Receiving, Status
  <2> QED
    BY <1>1, <1>2, <1>3, <2>1, EmptySeq, ConstantsAssumption DEF TypeOK
<1>5. Distinct' /\ Unheld(workers', pending') /\ Unheld(workers', still')
  BY <1>1, <1>3 DEF QueueExclusive, Distinct, Unheld
<1>6. DrainInv' /\ WorkConserving'
  BY <1>1, <1>3 DEF DrainInv, WorkConserving
<1> QED
  BY <1>1, <1>4, <1>5, <1>6 DEF QueueExclusive, OneWorkerPerRequest, JobsKept

(* A registration replaces at most one entry, and only a carried job       *)
(* survives.                                                               *)
LEMMA RegisteredFacts ==
  ASSUME NEW ws, Registry(ws), SoleHolders(ws), NEW a \in Addr,
         NEW w \in WorkerState,
         w.job # NoRequest => \A b \in DOMAIN ws : ws[b].job # w.job
  PROVE  /\ Registry(Insert(ws, a, w))
         /\ SoleHolders(Insert(ws, a, w))
         /\ \A q \in Request : BusyWith(ws, q) = {} /\ w.job # q
              => BusyWith(Insert(ws, a, w), q) = {}
BY DEF Registry, SoleHolders, Insert, BusyWith

LEMMA NewFacts ==
  ASSUME NEW p \in Process, NEW caps \in Offers[p]
  PROVE  /\ New(p, caps) \in WorkerState
         /\ New(p, caps).job = NoRequest
         /\ New(p, caps).process = p
BY ConstantsAssumption DEF New, WorkerState

LEMMA CarriedFacts ==
  ASSUME NEW w \in WorkerState, NEW old \in WorkerState, w.job = NoRequest
  PROVE  /\ Carried(w, old) \in WorkerState
         /\ Carried(w, old).job \in {NoRequest, old.job}
         /\ Carried(w, old).process = w.process
BY DEF Carried, WorkerState

LEMMA RemoveFacts ==
  ASSUME NEW ws, Registry(ws), SoleHolders(ws), NEW key \in DOMAIN ws
  PROVE  /\ Registry(Remove(ws, key))
         /\ SoleHolders(Remove(ws, key))
         /\ JobsKept(ws, Remove(ws, key))
         /\ ws[key].job # NoRequest =>
              \A b \in DOMAIN Remove(ws, key) : Remove(ws, key)[b].job # ws[key].job
BY DEF Registry, SoleHolders, Remove, JobsKept

LEMMA WorkerReadyStep ==
  ASSUME RegistryInv, NEW a \in Addr, NEW p \in Process, NEW caps \in Offers[p],
         handle_worker_ready(a, p, caps)
  PROVE  /\ RegistryInv'
         /\ \A q \in Request :
              BusyWith(workers, q) = {} => BusyWith(workers', q) = {}
<1> DEFINE w == New(p, caps)
<1>1. Registry(workers) /\ SoleHolders(workers)
  BY DEF RegistryInv, TypeOK, OneWorkerPerRequest
<1>2. w \in WorkerState /\ w.job = NoRequest /\ w.process = p
  BY NewFacts
<1>3. /\ Registry(workers') /\ SoleHolders(workers')
      /\ \A q \in Request : BusyWith(workers, q) = {} => BusyWith(workers', q) = {}
  <2>1. CASE workers' = Insert(workers, a, w)
    BY <1>1, <1>2, <2>1, RegisteredFacts, ConstantsAssumption
  <2>2. CASE \E key \in StaleKeys(a, p) :
               workers' = Insert(Remove(workers, key), a, Carried(w, workers[key]))
    <3>1. PICK key \in DOMAIN workers :
            workers' = Insert(Remove(workers, key), a, Carried(w, workers[key]))
      BY <2>2 DEF StaleKeys
    <3> DEFINE rest == Remove(workers, key)
               v == Carried(w, workers[key])
    <3>2. workers[key] \in WorkerState
      BY <1>1 DEF Registry
    <3>3. v \in WorkerState /\ v.job \in {NoRequest, workers[key].job}
      BY <1>2, <3>2, CarriedFacts
    <3>4. /\ Registry(rest) /\ SoleHolders(rest) /\ JobsKept(workers, rest)
          /\ v.job # NoRequest => \A b \in DOMAIN rest : rest[b].job # v.job
      BY <1>1, <3>3, RemoveFacts
    <3>5. \A q \in Request : BusyWith(workers, q) = {} =>
            BusyWith(rest, q) = {} /\ v.job # q
      BY <3>3, <3>4, JobsKeptFacts, ConstantsAssumption DEF BusyWith
    <3> QED
      BY <3>1, <3>3, <3>4, <3>5, RegisteredFacts
  <2> QED
    BY <2>1, <2>2 DEF handle_worker_ready
<1> QED
  BY <1>3, FreeingStep DEF handle_worker_ready, Status

(* A single entry touched, nothing else changed in the registry.           *)
LEMMA TouchStep ==
  ASSUME RegistryInv, NEW a \in DOMAIN workers, NEW w \in WorkerState,
         w.job = workers[a].job, w.process = workers[a].process,
         w.caps = workers[a].caps, w.open => workers[a].open,
         workers' = [workers EXCEPT ![a] = w],
         UNCHANGED <<pending, still, loop, awaiting, poll>>
  PROVE  RegistryInv' /\ JobsKept(workers, workers')
<1>1. Registry(workers) /\ SoleHolders(workers)
  BY DEF RegistryInv, TypeOK, OneWorkerPerRequest
<1>2. Registry(workers') /\ Narrows(workers, workers') /\ JobsKept(workers, workers')
  BY <1>1, TouchedFacts
<1> QED
  BY <1>1, <1>2, JobsKeptFacts, QuietStep DEF RegistryInv, TypeOK

LEMMA EnvironmentStep ==
  ASSUME RegistryInv, NEW a \in DOMAIN workers,
         \/ handle_heartbeat(a)
         \/ SocketCloses(a)
         \/ \E limit \in Clocks : Elapse(a, limit)
  PROVE  RegistryInv' /\ JobsKept(workers, workers')
<1>1. workers[a] \in WorkerState
  BY DEF RegistryInv, TypeOK, Registry
<1>2. PICK late \in SUBSET Limit, open \in BOOLEAN :
        /\ workers' = [workers EXCEPT ![a] = [workers[a] EXCEPT !.late = late,
                                                                !.open = open]]
        /\ open => workers[a].open
        /\ UNCHANGED <<pending, still, loop, awaiting, poll>>
  <2> DEFINE x == workers[a]
  <2>0. x.late \in SUBSET Limit /\ x.open \in BOOLEAN
    BY <1>1 DEF WorkerState
  <2>1. \A l \in SUBSET Limit :
          [x EXCEPT !.late = l] = [x EXCEPT !.late = l, !.open = x.open]
    BY <1>1 DEF WorkerState
  <2>2. [x EXCEPT !.open = FALSE] = [x EXCEPT !.late = x.late, !.open = FALSE]
    BY <1>1 DEF WorkerState
  <2>3. CASE handle_heartbeat(a)
    BY <2>0, <2>1, <2>3 DEF handle_heartbeat
  <2>4. CASE SocketCloses(a)
    BY <2>0, <2>2, <2>4 DEF SocketCloses
  <2>5. CASE \E limit \in Clocks : Elapse(a, limit)
    <3>1. PICK limit \in Clocks : Elapse(a, limit)
      BY <2>5
    <3>2. limit \in Limit
      BY ConstantsAssumption
    <3>3. (IF limit \in x.late THEN x.late \ {limit} ELSE x.late \cup {limit})
             \in SUBSET Limit
      BY <2>0, <3>2
    <3> QED
      BY <2>0, <2>1, <3>1, <3>3 DEF Elapse
  <2> QED
    BY <2>3, <2>4, <2>5
<1> DEFINE w == [workers[a] EXCEPT !.late = late, !.open = open]
<1>3. /\ w \in WorkerState /\ w.job = workers[a].job
      /\ w.process = workers[a].process /\ w.caps = workers[a].caps
      /\ w.open => workers[a].open
  BY <1>1, <1>2 DEF WorkerState
<1> QED
  BY <1>2, <1>3, TouchStep

LEMMA ProofCompleteStep ==
  ASSUME RegistryInv, NEW r \in Request, handle_proof_complete(r)
  PROVE  RegistryInv' /\ JobsKept(workers, workers')
<1>1. PICK a \in DOMAIN workers :
        workers' = [workers EXCEPT ![a] = completed_proof(workers[a])]
  BY DEF handle_proof_complete, BusyWith
<1>2. Registry(workers) /\ SoleHolders(workers) /\ workers[a] \in WorkerState
  BY DEF RegistryInv, TypeOK, OneWorkerPerRequest, Registry
<1>3. Registry(workers') /\ JobsKept(workers, workers')
  BY <1>1, <1>2, CompletedFacts, FreedFacts
<1> QED
  BY <1>2, <1>3, JobsKeptFacts, FreeingStep DEF handle_proof_complete, Status

LEMMA StatusResponseStep ==
  ASSUME RegistryInv, NEW r \in Request, NEW st \in Status,
         handle_proof_status_response(r, st)
  PROVE  RegistryInv' /\ JobsKept(workers, workers')
<1> DEFINE relayed == bridge_startup_race(r, st)
<1>1. relayed \in Status
  BY ConstantsAssumption DEF bridge_startup_race, Unexecuted, Status
<1>2. Registry(workers) /\ SoleHolders(workers)
  BY DEF RegistryInv, TypeOK, OneWorkerPerRequest
<1>3. CASE relayed.exec = "unexecutable" /\ BusyWith(workers, r) # {}
  <2>1. PICK a \in DOMAIN workers :
          workers' = [workers EXCEPT ![a] = failed_proof(workers[a])]
    BY <1>3 DEF handle_proof_status_response, BusyWith
  <2>2. workers[a] \in WorkerState
    BY <1>2 DEF Registry
  <2>3. Registry(workers') /\ JobsKept(workers, workers')
    BY <1>2, <2>1, <2>2, IdleFacts, FreedFacts DEF failed_proof
  <2> QED
    BY <1>1, <1>2, <1>3, <2>3, JobsKeptFacts, FreeingStep
       DEF handle_proof_status_response
<1>4. CASE ~(relayed.exec = "unexecutable" /\ BusyWith(workers, r) # {})
  <2>1. Relay(r, relayed) /\ UNCHANGED <<workers, pending, still, loop>>
    BY <1>4 DEF handle_proof_status_response
  <2>2. Narrows(workers, workers') /\ JobsKept(workers, workers')
    BY <2>1 DEF Narrows, JobsKept
  <2> QED
    BY <1>1, <1>2, <2>1, <2>2, RelayTyped, QuietStep DEF RegistryInv
<1> QED
  BY <1>3, <1>4

(* A worker marked for eviction is otherwise unchanged.                    *)
LEMMA DoomedFacts ==
  ASSUME NEW ws, Registry(ws), NEW a \in DOMAIN ws
  PROVE  LET wt == [ws EXCEPT ![a].strikes = MaxStrikes] IN
         Registry(wt) /\ Narrows(ws, wt) /\ JobsKept(ws, wt)
<1> DEFINE w == [ws[a] EXCEPT !.strikes = MaxStrikes]
<1>1. ws[a] \in WorkerState
  BY DEF Registry
<1>2. MaxStrikes \in 0..MaxStrikes
  BY ConstantsAssumption
<1>3. /\ w \in WorkerState /\ w.job = ws[a].job /\ w.process = ws[a].process
      /\ w.caps = ws[a].caps /\ w.open = ws[a].open
  BY <1>1, <1>2 DEF WorkerState
<1> QED
  BY <1>3, TouchedFacts

(* Narrowing and keeping jobs compose.                                     *)
LEMMA Transitivity ==
  ASSUME NEW ws, NEW wt, NEW wu
  PROVE  /\ Narrows(ws, wt) /\ Narrows(wt, wu) => Narrows(ws, wu)
         /\ JobsKept(ws, wt) /\ JobsKept(wt, wu) => JobsKept(ws, wu)
BY DEF Narrows, JobsKept

LEMMA DropWorkerStep ==
  ASSUME RegistryInv, NEW r \in Request, handle_drop_worker_of_request(r)
  PROVE  RegistryInv' /\ JobsKept(workers, workers')
<1>1. PICK a \in DOMAIN workers :
        workers' = trim_workers([workers EXCEPT ![a].strikes = MaxStrikes])
  BY DEF handle_drop_worker_of_request, BusyWith
<1> DEFINE wt == [workers EXCEPT ![a].strikes = MaxStrikes]
<1>2. Registry(workers) /\ SoleHolders(workers)
  BY DEF RegistryInv, TypeOK, OneWorkerPerRequest
<1>3. Registry(wt) /\ Narrows(workers, wt) /\ JobsKept(workers, wt)
  BY <1>2, DoomedFacts
<1>4. Registry(workers') /\ Narrows(workers, workers') /\ JobsKept(workers, workers')
  BY <1>1, <1>3, TrimFacts, Transitivity
<1> QED
  BY <1>2, <1>4, JobsKeptFacts, QuietStep
     DEF handle_drop_worker_of_request, RegistryInv, TypeOK

LEMMA StatusRequestStep ==
  ASSUME RegistryInv, NEW p \in Poll, NEW r \in Request,
         handle_proof_status_request(p, r)
  PROVE  RegistryInv' /\ JobsKept(workers, workers')
<1> DEFINE ws == trim_workers(workers)
           Answer == [req : Request \cup {NoRequest}, got : Status \cup {Waiting}]
<1>1. /\ Registry(workers) /\ SoleHolders(workers)
      /\ awaiting \in [Request -> SUBSET Poll] /\ poll \in [Poll -> Answer]
  BY DEF RegistryInv, TypeOK, OneWorkerPerRequest
<1>2. Registry(ws) /\ Narrows(workers, ws) /\ JobsKept(workers, ws)
  BY <1>1, TrimFacts
<1>3. UNCHANGED <<pending, still, loop>>
  BY DEF handle_proof_status_request
<1>4. /\ Registry(workers') /\ Narrows(workers, workers')
      /\ JobsKept(workers, workers')
  <2>1. \/ workers' = ws
        \/ \E a \in DOMAIN ws : workers' = [ws EXCEPT ![a].strikes = MaxStrikes]
    BY DEF handle_proof_status_request, BusyWith
  <2> QED
    BY <1>2, <2>1, DoomedFacts, Transitivity
<1>5. poll' \in [Poll -> Answer]
  <2>1. /\ [req |-> r, got |-> Unexecuted] \in Answer
        /\ [req |-> r, got |-> NoStatus] \in Answer
        /\ [req |-> r, got |-> Waiting] \in Answer
    BY ConstantsAssumption DEF Status, Unexecuted, NoStatus, Waiting
  <2>2. \E ans \in Answer : poll' = [poll EXCEPT ![p] = ans]
    BY <2>1 DEF handle_proof_status_request
  <2> QED
    BY <1>1, <2>2
<1>6. awaiting' \in [Request -> SUBSET Poll]
  <2>1. \/ awaiting' = awaiting
        \/ awaiting' = [awaiting EXCEPT ![r] = awaiting[r] \cup {p}]
    BY DEF handle_proof_status_request
  <2> QED
    BY <1>1, <2>1
<1> QED
  BY <1>1, <1>3, <1>4, <1>5, <1>6, JobsKeptFacts, QuietStep

LEMMA PollEndsStep ==
  ASSUME RegistryInv, NEW p \in Poll, poll_returns(p) \/ poll_timeout(p)
  PROVE  RegistryInv' /\ JobsKept(workers, workers')
<1> DEFINE Answer == [req : Request \cup {NoRequest}, got : Status \cup {Waiting}]
<1>1. /\ Registry(workers) /\ SoleHolders(workers)
      /\ awaiting \in [Request -> SUBSET Poll] /\ poll \in [Poll -> Answer]
  BY DEF RegistryInv, TypeOK, OneWorkerPerRequest
<1>2. /\ UNCHANGED <<pending, still, loop, awaiting>>
      /\ poll' = [poll EXCEPT ![p] = NotPolling]
  BY DEF poll_returns, poll_timeout
<1>3. NotPolling \in Answer
  BY DEF NotPolling
<1>4. poll' \in [Poll -> Answer] /\ awaiting' \in [Request -> SUBSET Poll]
  BY <1>1, <1>2, <1>3
<1>5. /\ Registry(workers') /\ Narrows(workers, workers')
      /\ JobsKept(workers, workers')
  <2>1. CASE UNCHANGED workers
    BY <1>1, <2>1 DEF Narrows, JobsKept
  <2>2. CASE poll_returns(p) /\ poll[p].got # NoStatus
    <3> DEFINE n == poll[p].got.progress
    <3>1. n \in 0..MaxProgress
      BY <1>1, <2>2 DEF Status, Waiting, poll_returns
    <3>2. \A w \in WorkerState :
            /\ Progressed(w, n) \in WorkerState
            /\ Progressed(w, n).job = w.job /\ Progressed(w, n).caps = w.caps
            /\ Progressed(w, n).process = w.process
            /\ Progressed(w, n).open = w.open
      BY <3>1 DEF Progressed, WorkerState
    <3>3. /\ DOMAIN workers' = DOMAIN workers
          /\ workers' = [a \in DOMAIN workers |-> workers'[a]]
          /\ \A a \in DOMAIN workers :
               workers'[a] = workers[a] \/ workers'[a] = Progressed(workers[a], n)
      BY <2>2 DEF poll_returns, handle_proof_progress_update
    <3>4. \A a \in DOMAIN workers : workers[a] \in WorkerState
      BY <1>1 DEF Registry
    <3>5. Registry(workers')
      BY <1>1, <3>2, <3>3, <3>4 DEF Registry
    <3> QED
      BY <3>2, <3>3, <3>4, <3>5 DEF Narrows, JobsKept
  <2> QED
    BY <2>1, <2>2 DEF poll_returns, poll_timeout
<1> QED
  BY <1>1, <1>2, <1>4, <1>5, JobsKeptFacts, QuietStep

LEMMA ExpireStep ==
  ASSUME RegistryInv, NEW i \in 1..Len(pending), Expire(i)
  PROVE  RegistryInv' /\ JobsKept(workers, workers')
<1> USE DEF RegistryInv
<1>1. /\ pending' = [pending EXCEPT ![i].stale = TRUE]
      /\ UNCHANGED <<workers, still, loop, awaiting, poll>>
  BY DEF Expire
<1>2. pending \in Seq(Entry) /\ pending[i] \in Entry
  BY ElementOfSeq DEF TypeOK
<1>3. /\ [pending[i] EXCEPT !.stale = TRUE] \in Entry
      /\ [pending[i] EXCEPT !.stale = TRUE].req = pending[i].req
  BY <1>2 DEF Entry
<1>4. /\ pending' \in Seq(Entry)
      /\ Len(pending') = Len(pending)
      /\ \A j \in 1..Len(pending) : pending'[j].req = pending[j].req
  BY <1>1, <1>2, <1>3, ExceptSeq, LenProperties
<1>5. TypeOK'
  BY <1>1, <1>4 DEF TypeOK
<1>6. Distinct' /\ Unheld(workers', pending') /\ Unheld(workers', still')
  <2>1. Distinct'
    BY <1>1, <1>4 DEF QueueExclusive, Distinct
  <2>2. Unheld(workers', pending')
    BY <1>1, <1>4 DEF QueueExclusive, Unheld
  <2> QED
    BY <1>1, <2>1, <2>2 DEF QueueExclusive, Unheld
<1>7. WorkConserving' /\ DrainInv'
  BY <1>1, <1>4 DEF WorkConserving, DrainInv
<1> QED
  BY <1>1, <1>5, <1>6, <1>7 DEF QueueExclusive, OneWorkerPerRequest, JobsKept

-----------------------------------------------------------------------------
LEMMA InitInv == Init => RegistryInv
<1> SUFFICES ASSUME Init PROVE RegistryInv
  OBVIOUS
<1>1. /\ DOMAIN workers = {} /\ pending = <<>> /\ still = <<>> /\ loop = Receiving
      /\ Len(<<>>) = 0
  BY DEF Init
<1>2. TypeOK
  BY <1>1, EmptySeq, ConstantsAssumption
     DEF Init, TypeOK, Registry, Receiving, Status, NotPolling
<1> QED
  BY <1>1, <1>2 DEF RegistryInv, OneWorkerPerRequest, SoleHolders, QueueExclusive,
                    Distinct, Unheld, WorkConserving, DrainInv

LEMMA NextInv == RegistryInv /\ [Next]_vars => RegistryInv'
<1> SUFFICES ASSUME RegistryInv, [Next]_vars PROVE RegistryInv'
  OBVIOUS
<1>1. CASE UNCHANGED vars
  <2>1. /\ UNCHANGED <<pending, still, loop>> /\ Narrows(workers, workers')
        /\ Registry(workers') /\ SoleHolders(workers')
    BY <1>1 DEF vars, Narrows, RegistryInv, TypeOK, OneWorkerPerRequest
  <2> QED
    BY <1>1, <2>1, QuietStep DEF vars, RegistryInv, TypeOK
<1>2. CASE Next
  BY <1>2, AssignProofStep, WorkerReadyStep, EnvironmentStep, DrainStepStep,
     DrainDoneStep, ProofCompleteStep, StatusResponseStep, DropWorkerStep,
     StatusRequestStep, PollEndsStep, ExpireStep
     DEF Next
<1> QED
  BY <1>1, <1>2

(* Every reachable registry satisfies the inductive invariant: in          *)
(* particular the queue stays within PENDING_QUEUE_CAP, no request is held *)
(* twice or held and queued, and no request waits for a worker that is     *)
(* idle, connected and able to serve it.                                   *)
THEOREM RegistryInvariant == Spec => []RegistryInv
BY InitInv, NextInv, PTL DEF Spec

(* Type correctness; handle_assign_proof never lets the queue, with what a *)
(* drain has put aside, grow past PENDING_QUEUE_CAP.                       *)
THEOREM TypeCorrect == Spec => []TypeOK
<1>1. RegistryInv => TypeOK
  BY DEF RegistryInv
<1> QED
  BY <1>1, RegistryInvariant, PTL

(* At most one worker is ever busy with a request.                         *)
THEOREM OneWorker == Spec => []OneWorkerPerRequest
<1>1. RegistryInv => OneWorkerPerRequest
  BY DEF RegistryInv
<1> QED
  BY <1>1, RegistryInvariant, PTL

(* A request is queued at most once, and not while a worker holds it.      *)
THEOREM ExclusiveQueue == Spec => []QueueExclusive
<1>1. RegistryInv => QueueExclusive
  BY DEF RegistryInv
<1> QED
  BY <1>1, RegistryInvariant, PTL

(* Between commands no request waits that a connected idle worker could    *)
(* serve.                                                                  *)
THEOREM ConservesWork == Spec => []WorkConserving
<1>1. RegistryInv => WorkConserving
  BY DEF RegistryInv
<1> QED
  BY <1>1, RegistryInvariant, PTL

-----------------------------------------------------------------------------
(* Placing a request on a worker respects the order of the queue when the  *)
(* requests ahead of it have no home.                                      *)
LEMMA AssignInTurn ==
  ASSUME RegistryInv, NEW ws, Registry(ws), SoleHolders(ws), Narrows(workers, ws),
         JobsKept(workers, ws), NEW r \in Request, Assign(ws, r),
         \A q \in Ahead(r) : NoHome(ws, q)
  PROVE  InTurn
<1> SUFFICES ASSUME NEW a \in DOMAIN workers \cap DOMAIN workers',
                    workers[a].job = NoRequest, workers'[a].job # NoRequest,
                    BusyWith(workers, workers'[a].job) = {},
                    NEW q \in Ahead(workers'[a].job)
             PROVE  ~can_serve(workers[a], q)
  BY DEF InTurn
<1>1. /\ Registry(workers') /\ Narrows(ws, workers')
      /\ \A x \in Request \ {r} : BusyWith(ws, x) = {} => BusyWith(workers', x) = {}
      /\ BusyWith(ws, r) = {} =>
           \A b \in DOMAIN workers' :
             workers'[b].job = r => ws[b].job = NoRequest /\ ws[b].open
  BY AssignFacts
<1>2. workers'[a].job \in Request
  BY <1>1 DEF Registry, WorkerState
<1>3. BusyWith(ws, workers'[a].job) = {}
  BY <1>2, JobsKeptFacts
<1>4. workers'[a].job = r
  BY <1>1, <1>2, <1>3 DEF BusyWith
<1>5. /\ a \in DOMAIN ws /\ ws[a].job = NoRequest /\ ws[a].open
      /\ ws[a].caps = workers[a].caps
  BY <1>1, <1>3, <1>4 DEF Narrows
<1> QED
  BY <1>4, <1>5 DEF NoHome, Open, Candidates, can_serve

(* A step that gives no request its first holder overtakes nobody.         *)
LEMMA SettledInTurn ==
  ASSUME Registry(workers'),
         \A q \in Request : BusyWith(workers, q) = {} => BusyWith(workers', q) = {}
  PROVE  InTurn
BY DEF InTurn, Registry, WorkerState, BusyWith

LEMMA NextInTurn == RegistryInv /\ [Next]_vars => [InTurn]_vars
<1> SUFFICES ASSUME RegistryInv, Next PROVE InTurn
  OBVIOUS
<1>1. RegistryInv' /\ Registry(workers')
  BY NextInv DEF RegistryInv, TypeOK
<1>2. Registry(workers) /\ SoleHolders(workers)
  BY DEF RegistryInv, TypeOK, OneWorkerPerRequest
<1>3. ASSUME NEW r \in Request, handle_assign_proof(r) PROVE InTurn
  <2> DEFINE ws == trim_workers(workers)
  <2>1. Registry(ws) /\ Narrows(workers, ws) /\ JobsKept(workers, ws) /\ SoleHolders(ws)
    BY <1>2, TrimFacts, JobsKeptFacts
  <2>2. CASE Assign(ws, r)
    <3>1. loop = Receiving /\ still = <<>> /\ Len(<<>>) = 0
      BY <1>3 DEF handle_assign_proof, RegistryInv, DrainInv, Receiving
    <3>2. \A q \in Ahead(r) : NoHome(workers, q)
      BY <3>1 DEF Ahead, RegistryInv, WorkConserving
    <3>3. \A q \in Ahead(r) : NoHome(ws, q)
      BY <2>1, <3>2, NarrowsNoHome
    <3> QED
      BY <2>1, <2>2, <3>3, AssignInTurn
  <2>3. CASE CannotAssign(ws, r)
    BY <1>1, <2>1, <2>3, CannotAssignFacts, JobsKeptFacts, SettledInTurn
  <2> QED
    BY <1>3, <2>2, <2>3 DEF handle_assign_proof
<1>4. ASSUME drain_step PROVE InTurn
  <2> DEFINE e == Head(pending)
  <2>1. pending \in Seq(Entry) /\ pending # <<>> /\ e = pending[1] /\ 1 \in 1..Len(pending)
    <3>1. pending \in Seq(Entry) /\ pending # <<>>
      BY <1>4 DEF drain_step, RegistryInv, TypeOK
    <3> QED
      BY <3>1, EmptySeq
  <2>2. e.req \in Request
    BY <2>1, QueueTyped DEF RegistryInv
  <2>3. Narrows(workers, workers) /\ JobsKept(workers, workers)
    BY DEF Narrows, JobsKept
  <2>4. CASE Assign(workers, e.req)
    <3>1. \A q \in Ahead(e.req) : NoHome(workers, q)
      BY <2>1 DEF Ahead, RegistryInv, DrainInv
    <3> QED
      BY <1>2, <2>2, <2>3, <2>4, <3>1, AssignInTurn
  <2>5. CASE CannotAssign(workers, e.req)
    BY <1>1, <1>2, <2>2, <2>5, CannotAssignFacts, SettledInTurn
  <2>6. CASE UNCHANGED workers
    BY <1>1, <2>6, SettledInTurn
  <2> QED
    BY <1>4, <2>4, <2>5, <2>6 DEF drain_step
<1>5. ASSUME NEW a \in Addr, NEW p \in Process, NEW caps \in Offers[p],
             handle_worker_ready(a, p, caps)
      PROVE  InTurn
  BY <1>1, <1>5, WorkerReadyStep, SettledInTurn
<1>6. ASSUME JobsKept(workers, workers') PROVE InTurn
  BY <1>1, <1>6, JobsKeptFacts, SettledInTurn
<1> QED
  BY <1>3, <1>4, <1>5, <1>6, EnvironmentStep, DrainDoneStep, ProofCompleteStep,
     StatusResponseStep, DropWorkerStep, StatusRequestStep, PollEndsStep, ExpireStep
     DEF Next

(* Assignment respects the queue: try_assign, whether for a new request or *)
(* for one that drain_pending retries, never takes a worker that a request *)
(* further ahead could have used.                                          *)
THEOREM RespectsOrder == Spec => NoOvertaking
BY RegistryInvariant, NextInTurn, PTL DEF Spec, NoOvertaking

-----------------------------------------------------------------------------
LEMMA SameInstanceFacts ==
  ASSUME NEW p, NEW q
  PROVE  /\ SameInstance(p, p)
         /\ SameInstance(p, q) => SameInstance(q, p)
BY DEF SameInstance

(* Where the identity is an equivalence and entries are unique, at most    *)
(* one entry is stale for a registration.                                  *)
LEMMA OneStaleKey ==
  ASSUME RegistryInv, UniqueInstance, IdentityTransitive,
         NEW a, NEW p \in Process, NEW b \in StaleKeys(a, p), NEW c \in StaleKeys(a, p)
  PROVE  b = c
<1>1. /\ b \in DOMAIN workers /\ c \in DOMAIN workers
      /\ workers[b].process \in Process /\ workers[c].process \in Process
  BY DEF StaleKeys, RegistryInv, TypeOK, Registry, WorkerState
<1>2. SameInstance(p, workers[b].process) /\ SameInstance(p, workers[c].process)
  BY DEF StaleKeys
<1>3. SameInstance(workers[b].process, workers[c].process)
  BY <1>1, <1>2, SameInstanceFacts DEF IdentityTransitive
<1> QED
  BY <1>1, <1>3 DEF UniqueInstance

(* What a registration leaves in the registry.                             *)
LEMMA RegisteredEntries ==
  ASSUME RegistryInv, UniqueInstance, IdentityTransitive, NEW a \in Addr,
         NEW p \in Process, NEW caps \in Offers[p], handle_worker_ready(a, p, caps)
  PROVE  /\ DOMAIN workers' = (DOMAIN workers \ StaleKeys(a, p)) \cup {a}
         /\ workers'[a].process = p
         /\ \A b \in DOMAIN workers' \ {a} : workers'[b] = workers[b]
         /\ \A b \in StaleKeys(a, p) :
              workers[b].process = p => workers'[a].job = workers[b].job
<1> DEFINE w == New(p, caps)
<1>1. w \in WorkerState /\ w.job = NoRequest /\ w.process = p
  BY NewFacts
<1>2. CASE StaleKeys(a, p) = {}
  BY <1>1, <1>2 DEF handle_worker_ready, Insert
<1>3. CASE StaleKeys(a, p) # {}
  <2>1. PICK key \in StaleKeys(a, p) :
          workers' = Insert(Remove(workers, key), a, Carried(w, workers[key]))
    BY <1>3 DEF handle_worker_ready
  <2>2. key \in DOMAIN workers /\ StaleKeys(a, p) = {key} /\ key # a
    <3>1. \A d \in StaleKeys(a, p) : d = key
      BY OneStaleKey
    <3>2. StaleKeys(a, p) = {key}
      BY <3>1
    <3>3. key \in DOMAIN workers /\ key # a
      BY DEF StaleKeys
    <3> QED
      BY <3>2, <3>3
  <2>3. workers[key] \in WorkerState
    BY <2>2 DEF RegistryInv, TypeOK, Registry
  <2>4. /\ Carried(w, workers[key]).process = p
        /\ workers[key].process = p => Carried(w, workers[key]).job = workers[key].job
    BY <1>1, <2>3 DEF Carried, WorkerState
  <2> QED
    BY <2>1, <2>2, <2>4 DEF Insert, Remove
<1> QED
  BY <1>2, <1>3

LEMMA WorkerReadyUnique ==
  ASSUME RegistryInv, UniqueInstance, NEW a \in Addr, NEW p \in Process,
         NEW caps \in Offers[p], handle_worker_ready(a, p, caps)
  PROVE  UniqueInstance'
<1> SUFFICES ASSUME IdentityTransitive, NEW b \in DOMAIN workers',
                    NEW c \in DOMAIN workers', b # c
             PROVE  ~SameInstance(workers'[b].process, workers'[c].process)
  BY DEF UniqueInstance
<1>1. /\ DOMAIN workers' = (DOMAIN workers \ StaleKeys(a, p)) \cup {a}
      /\ workers'[a].process = p
      /\ \A d \in DOMAIN workers' \ {a} : workers'[d] = workers[d]
  BY RegisteredEntries
<1>2. \A d \in DOMAIN workers' \ {a} : ~SameInstance(p, workers'[d].process)
  BY <1>1 DEF StaleKeys
<1> QED
  BY <1>1, <1>2, SameInstanceFacts DEF UniqueInstance

(* Steps that add no entry.                                                *)
LEMMA NoEntryUnique ==
  ASSUME UniqueInstance,
         \A a \in DOMAIN workers' :
           a \in DOMAIN workers /\ workers'[a].process = workers[a].process
  PROVE  UniqueInstance'
BY DEF UniqueInstance

(* Only registrations add entries.                                         *)
LEMMA NextEntries ==
  ASSUME RegistryInv, [Next]_vars
  PROVE  \/ \A a \in DOMAIN workers' :
              a \in DOMAIN workers /\ workers'[a].process = workers[a].process
         \/ \E a \in Addr, p \in Process :
              \E caps \in Offers[p] : handle_worker_ready(a, p, caps)
<1> DEFINE Same == \A a \in DOMAIN workers' :
                     a \in DOMAIN workers /\ workers'[a].process = workers[a].process
<1>1. Registry(workers) /\ SoleHolders(workers)
  BY DEF RegistryInv, TypeOK, OneWorkerPerRequest
<1>2. ASSUME JobsKept(workers, workers') PROVE Same
  BY <1>2 DEF JobsKept
<1>3. ASSUME NEW r \in Request, handle_assign_proof(r) PROVE Same
  <2> DEFINE ws == trim_workers(workers)
  <2>1. Registry(ws) /\ Narrows(workers, ws) /\ SoleHolders(ws)
    BY <1>1, TrimFacts, JobsKeptFacts
  <2>2. Narrows(ws, workers')
    BY <1>3, <2>1, AssignFacts, CannotAssignFacts DEF handle_assign_proof
  <2> QED
    BY <2>1, <2>2 DEF Narrows
<1>4. ASSUME drain_step PROVE Same
  <2>1. Head(pending).req \in Request
    <3>1. pending \in Seq(Entry) /\ pending # <<>>
      BY <1>4 DEF drain_step, RegistryInv, TypeOK
    <3>2. Head(pending) \in Entry
      BY <3>1, HeadTailProperties
    <3> QED
      BY <3>2 DEF Entry
  <2>2. Narrows(workers, workers') \/ UNCHANGED workers
    BY <1>1, <1>4, <2>1, AssignFacts, CannotAssignFacts DEF drain_step
  <2> QED
    BY <2>2 DEF Narrows
<1>5. ASSUME UNCHANGED vars PROVE Same
  BY <1>5 DEF vars
<1> QED
  BY <1>2, <1>3, <1>4, <1>5, EnvironmentStep, DrainDoneStep, ProofCompleteStep,
     StatusResponseStep, DropWorkerStep, StatusRequestStep, PollEndsStep, ExpireStep
     DEF Next

(* The registry never holds two entries of one contemplant, provided       *)
(* SameInstance is an equivalence on the processes.                        *)
THEOREM InstancesUnique == Spec => []UniqueInstance
<1>1. Init => UniqueInstance
  BY DEF Init, UniqueInstance
<1>2. RegistryInv /\ UniqueInstance /\ [Next]_vars => UniqueInstance'
  BY NextEntries, NoEntryUnique, WorkerReadyUnique
<1> QED
  BY <1>1, <1>2, RegistryInvariant, PTL DEF Spec

(* Under the same proviso handle_worker_ready carries the assignment of a  *)
(* process over to its new address.                                        *)
THEOREM AssignmentSurvivesReconnect == Spec => ReconnectKeepsAssignment
<1> DEFINE Kept ==
      IdentityTransitive =>
        \A a \in Addr \ DOMAIN workers, b \in DOMAIN workers :
          a \in DOMAIN workers' /\ workers'[a].process = workers[b].process
            => workers'[a].job = workers[b].job
<1>1. RegistryInv /\ UniqueInstance /\ [Next]_vars => [Kept]_vars
  <2> SUFFICES ASSUME RegistryInv, UniqueInstance, [Next]_vars, IdentityTransitive,
                      NEW a \in Addr \ DOMAIN workers, NEW b \in DOMAIN workers,
                      a \in DOMAIN workers', workers'[a].process = workers[b].process
               PROVE  workers'[a].job = workers[b].job
    OBVIOUS
  <2>1. PICK c \in Addr, p \in Process : \E caps \in Offers[p] :
          handle_worker_ready(c, p, caps)
    BY NextEntries
  <2>2. PICK caps \in Offers[p] : handle_worker_ready(c, p, caps)
    BY <2>1
  <2>3. /\ DOMAIN workers' = (DOMAIN workers \ StaleKeys(c, p)) \cup {c}
        /\ workers'[c].process = p
        /\ \A d \in StaleKeys(c, p) :
             workers[d].process = p => workers'[c].job = workers[d].job
    BY <2>2, RegisteredEntries
  <2>4. a = c
    BY <2>3
  <2>5. b \in StaleKeys(c, p)
    BY <2>3, <2>4, SameInstanceFacts DEF StaleKeys
  <2> QED
    BY <2>3, <2>4, <2>5
<1> QED
  BY <1>1, RegistryInvariant, InstancesUnique, PTL DEF Spec, ReconnectKeepsAssignment
-----------------------------------------------------------------------------
(* The polls.                                                              *)

Answer == [req : Request \cup {NoRequest}, got : Status \cup {Waiting}]

LEMMA StatusFacts ==
  /\ Waiting \notin Status /\ NoStatus \in Status /\ Unexecuted \in Status
  /\ Unexecuted # NoStatus /\ Waiting # NoStatus
BY ConstantsAssumption DEF Status, NoStatus, Unexecuted, Waiting

LEMMA PollsTyped ==
  ASSUME TypeOK
  PROVE  /\ awaiting \in [Request -> SUBSET Poll] /\ poll \in [Poll -> Answer]
         /\ loop.req \in Request \cup {NoRequest} /\ loop.status \in Status
BY DEF TypeOK, Answer

(* An answer goes to all that wait for it: the list is emptied.            *)
LEMMA RelayKnown ==
  ASSUME TypeOK, WaitersKnown, NEW r \in Request, NEW st \in Status, Relay(r, st)
  PROVE  WaitersKnown'
<1> SUFFICES ASSUME NEW p \in Poll, poll'[p].req # NoRequest, poll'[p].got = Waiting
             PROVE  p \in awaiting'[poll'[p].req]
  BY DEF WaitersKnown
<1>1. poll[p] \in Answer /\ awaiting \in [Request -> SUBSET Poll]
  BY PollsTyped
<1>2. CASE p \in awaiting[r] /\ poll[p] = [req |-> r, got |-> Waiting]
  <2>1. poll'[p] = [poll[p] EXCEPT !.got = st]
    BY <1>2 DEF Relay
  <2>2. poll'[p].got = st
    BY <1>1, <2>1 DEF Answer
  <2> QED
    BY <2>2, StatusFacts
<1>3. CASE ~(p \in awaiting[r] /\ poll[p] = [req |-> r, got |-> Waiting])
  <2>1. poll'[p] = poll[p]
    BY <1>3 DEF Relay
  <2>2. p \in awaiting[poll[p].req] /\ poll[p].req \in Request
    BY <1>1, <2>1 DEF WaitersKnown, Answer
  <2>3. poll[p].req # r
    BY <1>1, <1>3, <2>1, <2>2 DEF Answer
  <2> QED
    BY <1>1, <2>1, <2>2, <2>3 DEF Relay
<1> QED
  BY <1>2, <1>3

(* A poll that ends or is answered at once waits for nobody; one that      *)
(* waits is entered in the list of its request.                            *)
LEMMA PollKnown ==
  ASSUME TypeOK, WaitersKnown, NEW p \in Poll, NEW ans \in Answer,
         poll' = [poll EXCEPT ![p] = ans],
         \/ awaiting' = awaiting /\ (ans.req = NoRequest \/ ans.got # Waiting)
         \/ \E r \in Request : /\ awaiting' = [awaiting EXCEPT ![r] = @ \cup {p}]
                               /\ ans.req = r
  PROVE  WaitersKnown'
<1> SUFFICES ASSUME NEW q \in Poll, poll'[q].req # NoRequest, poll'[q].got = Waiting
             PROVE  q \in awaiting'[poll'[q].req]
  BY DEF WaitersKnown
<1>1. poll \in [Poll -> Answer] /\ awaiting \in [Request -> SUBSET Poll]
  BY PollsTyped
<1>2. \A r \in Request : awaiting[r] \subseteq awaiting'[r]
  BY <1>1
<1>3. CASE q = p
  BY <1>1, <1>3
<1>4. CASE q # p
  <2>1. poll'[q] = poll[q] /\ poll[q] \in Answer
    BY <1>1, <1>4
  <2> QED
    BY <1>2, <2>1 DEF WaitersKnown, Answer
<1> QED
  BY <1>3, <1>4

LEMMA NextKnown == RegistryInv /\ WaitersKnown /\ [Next]_vars => WaitersKnown'
<1> SUFFICES ASSUME RegistryInv, WaitersKnown, [Next]_vars PROVE WaitersKnown'
  OBVIOUS
<1>1. TypeOK
  BY DEF RegistryInv
<1>2. CASE UNCHANGED <<awaiting, poll>>
  BY <1>2 DEF WaitersKnown
<1>3. CASE drain_done
  <2>1. CASE loop.req = NoRequest
    BY <1>2, <1>3, <2>1 DEF drain_done
  <2>2. CASE loop.req # NoRequest
    BY <1>1, <1>3, <2>2, PollsTyped, RelayKnown DEF drain_done
  <2> QED
    BY <2>1, <2>2
<1>4. ASSUME NEW r \in Request, NEW st \in Status, handle_proof_status_response(r, st)
      PROVE  WaitersKnown'
  <2>1. bridge_startup_race(r, st) \in Status
    BY StatusFacts DEF bridge_startup_race
  <2> QED
    BY <1>1, <1>2, <1>4, <2>1, RelayKnown DEF handle_proof_status_response
<1>5. ASSUME NEW p \in Poll, NEW r \in Request, handle_proof_status_request(p, r)
      PROVE  WaitersKnown'
  <2>1. CASE /\ poll' = [poll EXCEPT ![p] = [req |-> r, got |-> Waiting]]
             /\ awaiting' = [awaiting EXCEPT ![r] = @ \cup {p}]
    <3>1. [req |-> r, got |-> Waiting] \in Answer
      BY DEF Answer
    <3> QED
      BY <1>1, <2>1, <3>1, PollKnown
  <2>2. ASSUME NEW st \in {Unexecuted, NoStatus}, UNCHANGED awaiting,
               poll' = [poll EXCEPT ![p] = [req |-> r, got |-> st]]
        PROVE  WaitersKnown'
    <3>1. [req |-> r, got |-> st] \in Answer /\ st # Waiting
      BY StatusFacts DEF Answer
    <3> QED
      BY <1>1, <2>2, <3>1, PollKnown
  <2> QED
    BY <1>5, <2>1, <2>2 DEF handle_proof_status_request
<1>6. ASSUME NEW p \in Poll, poll_returns(p) \/ poll_timeout(p) PROVE WaitersKnown'
  <2>1. NotPolling \in Answer /\ NotPolling.req = NoRequest
    BY DEF NotPolling, Answer
  <2>2. poll' = [poll EXCEPT ![p] = NotPolling] /\ UNCHANGED awaiting
    BY <1>6 DEF poll_returns, poll_timeout
  <2> QED
    BY <1>1, <2>1, <2>2, PollKnown
<1> QED
  BY <1>2, <1>3, <1>4, <1>5, <1>6
     DEF Next, vars, handle_assign_proof, handle_worker_ready, handle_heartbeat, drain_step,
         handle_proof_complete, handle_drop_worker_of_request, SocketCloses, Elapse, Expire

(* handle_proof_status_response finds every poll that still waits: a sender*)
(* is in awaiting_proof_status_responses under the request it asked about. *)
THEOREM WaitersFound == Spec => []WaitersKnown
<1>1. Init => WaitersKnown
  BY DEF Init, WaitersKnown, NotPolling
<1> QED
  BY <1>1, NextKnown, RegistryInvariant, PTL DEF Spec

(* What the loop holds back while it drains is never the answer "lost".    *)
HeldAnswer == loop.req # NoRequest => loop.status.exec = "unexecutable"

LEMMA NextHeld == HeldAnswer /\ [Next]_vars => HeldAnswer'
<1> SUFFICES ASSUME HeldAnswer, [Next]_vars PROVE HeldAnswer'
  OBVIOUS
<1>1. CASE loop' = loop
  BY <1>1 DEF HeldAnswer
<1>2. CASE loop' \in {Receiving, Draining(NoRequest, NoStatus)}
  BY <1>2 DEF HeldAnswer, Receiving, Draining
<1>3. ASSUME NEW r \in Request, NEW st \in Status, handle_proof_status_response(r, st)
      PROVE  HeldAnswer'
  BY <1>1, <1>3 DEF handle_proof_status_response, HeldAnswer, Draining
<1> QED
  BY <1>1, <1>2, <1>3
     DEF Next, vars, handle_assign_proof, handle_worker_ready, handle_heartbeat, drain_step,
         drain_done, handle_proof_complete, handle_drop_worker_of_request,
         handle_proof_status_request, poll_returns, poll_timeout, SocketCloses, Elapse, Expire

(* Those an answer is relayed to, and what they are told.                  *)
LEMMA RelayTold ==
  ASSUME TypeOK, NEW r \in Request, NEW st \in Status, Relay(r, st),
         NEW p \in Poll, poll'[p] # poll[p]
  PROVE  /\ poll[p].req = r /\ poll[p] # NotPolling
         /\ poll'[p].req = r /\ poll'[p].got = st
<1>1. poll[p] \in Answer
  BY PollsTyped
<1>2. /\ poll[p] = [req |-> r, got |-> Waiting]
      /\ poll'[p] = [poll[p] EXCEPT !.got = st]
  BY DEF Relay
<1> QED
  BY <1>1, <1>2, ConstantsAssumption DEF Answer, NotPolling

(* A worker whose socket is closed is the only one its request has.        *)
LEMMA ClosedGenuine ==
  ASSUME RegistryInv, NEW r \in Request,
         NEW a \in BusyWith(trim_workers(workers), r), ~trim_workers(workers)[a].open,
         workers' = [trim_workers(workers) EXCEPT ![a].strikes = MaxStrikes]
  PROVE  /\ \A b \in BusyWith(workers', r) : ~workers'[b].open
         /\ ~Queued(r)
<1> DEFINE ws == trim_workers(workers)
<1>1. Registry(ws) /\ JobsKept(workers, ws) /\ SoleHolders(ws) /\ a \in DOMAIN ws
  BY TrimFacts, JobsKeptFacts DEF RegistryInv, TypeOK, OneWorkerPerRequest, BusyWith
<1>2. Narrows(ws, workers') /\ JobsKept(ws, workers')
  BY <1>1, DoomedFacts
<1>3. ASSUME NEW b \in BusyWith(workers', r) PROVE ~workers'[b].open
  <2>1. b \in DOMAIN workers' /\ workers'[b].job = r /\ r # NoRequest /\ ws[a].job = r
    BY <1>3, ConstantsAssumption DEF BusyWith
  <2>2. b \in DOMAIN ws /\ ws[b].job = r
    BY <1>2, <2>1 DEF JobsKept
  <2>3. b = a
    BY <1>1, <2>1, <2>2 DEF SoleHolders
  <2> QED
    BY <1>2, <2>1, <2>3 DEF Narrows
<1>4. BusyWith(workers, r) # {}
  BY <1>1, JobsKeptFacts
<1>5. ~Queued(r)
  BY <1>4 DEF Queued, RegistryInv, QueueExclusive, Unheld
<1> QED
  BY <1>3, <1>5

LEMMA NextGenuine == RegistryInv /\ HeldAnswer /\ [Next]_vars => [Genuine]_vars
<1> SUFFICES ASSUME RegistryInv, HeldAnswer, Next,
                    NEW p \in Poll, poll[p] # poll'[p], poll'[p].req # NoRequest,
                    poll'[p].got = NoStatus
             PROVE  /\ \A a \in BusyWith(workers', poll'[p].req) :
                         ~workers'[a].open \/ "grace" \in workers'[a].late
                    /\ poll[p] = NotPolling => ~Queued(poll'[p].req)
  BY DEF Genuine
<1> DEFINE Goal == /\ \A a \in BusyWith(workers', poll'[p].req) :
                        ~workers'[a].open \/ "grace" \in workers'[a].late
                   /\ poll[p] = NotPolling => ~Queued(poll'[p].req)
<1>1. TypeOK /\ poll \in [Poll -> Answer]
  BY PollsTyped DEF RegistryInv
<1>2. poll' # poll
  OBVIOUS
<1>3. ASSUME drain_done PROVE FALSE
  <2>1. loop.req \in Request /\ loop.status \in Status /\ Relay(loop.req, loop.status)
    BY <1>1, <1>2, <1>3, PollsTyped DEF drain_done
  <2>2. loop.status = NoStatus
    BY <1>1, <2>1, RelayTold
  <2> QED
    BY <2>1, <2>2, ConstantsAssumption DEF HeldAnswer, NoStatus
<1>4. ASSUME NEW r \in Request, NEW st \in Status, handle_proof_status_response(r, st)
      PROVE  Goal
  <2> DEFINE relayed == bridge_startup_race(r, st)
  <2>1. relayed \in Status
    BY StatusFacts DEF bridge_startup_race
  <2>2. Relay(r, relayed) /\ UNCHANGED workers
    BY <1>2, <1>4 DEF handle_proof_status_response
  <2>3. poll[p] # NotPolling /\ poll'[p].req = r /\ relayed = NoStatus
    <3> HIDE DEF relayed
    <3> QED
      BY <1>1, <2>1, <2>2, RelayTold
  <2>4. \A a \in BusyWith(workers, r) : "grace" \in workers[a].late
    BY <2>3, StatusFacts DEF bridge_startup_race
  <2> QED
    BY <2>2, <2>3, <2>4
<1>5. ASSUME NEW q \in Poll, NEW r \in Request, handle_proof_status_request(q, r)
      PROVE  Goal
  <2> DEFINE ws == trim_workers(workers)
  <2>1. q = p /\ poll'[p].req = r
    <3>1. PICK st : poll' = [poll EXCEPT ![q] = [req |-> r, got |-> st]]
      BY <1>5 DEF handle_proof_status_request
    <3> QED
      BY <1>1, <3>1
  <2>2. CASE /\ BusyWith(ws, r) = {} /\ workers' = ws
             /\ poll' = [poll EXCEPT ![q] =
                           [req |-> r, got |-> IF Queued(r) THEN Unexecuted ELSE NoStatus]]
    <3>1. poll'[p].got = IF Queued(r) THEN Unexecuted ELSE NoStatus
      BY <1>1, <2>1, <2>2
    <3> QED
      BY <2>1, <2>2, <3>1, StatusFacts
  <2>3. ASSUME NEW a \in BusyWith(ws, r), ~ws[a].open,
               workers' = [ws EXCEPT ![a].strikes = MaxStrikes]
        PROVE  Goal
    BY <2>1, <2>3, ClosedGenuine
  <2>4. CASE poll' = [poll EXCEPT ![q] = [req |-> r, got |-> Waiting]]
    BY <1>1, <2>1, <2>4, StatusFacts
  <2> QED
    BY <1>5, <2>2, <2>3, <2>4 DEF handle_proof_status_request
<1>6. ASSUME NEW q \in Poll, poll_returns(q) \/ poll_timeout(q) PROVE FALSE
  <2>1. poll' = [poll EXCEPT ![q] = NotPolling]
    BY <1>6 DEF poll_returns, poll_timeout
  <2> QED
    BY <1>1, <2>1 DEF NotPolling
<1> QED
  BY <1>2, <1>3, <1>4, <1>5, <1>6
     DEF Next, vars, handle_assign_proof, handle_worker_ready, handle_heartbeat, drain_step,
         handle_proof_complete, handle_drop_worker_of_request, SocketCloses, Elapse, Expire

(* A client is told that its proof is lost, which it takes as final, only  *)
(* when handle_proof_status_request finds the request neither queued nor   *)
(* at a connected worker, or a worker that has had the request for longer  *)
(* than the grace period of bridge_startup_race does not know it.          *)
THEOREM LossesAreGenuine == Spec => LossIsGenuine
<1>1. Init => HeldAnswer
  BY DEF Init, HeldAnswer, Receiving
<1> QED
  BY <1>1, NextHeld, NextGenuine, RegistryInvariant, PTL DEF Spec, LossIsGenuine
=============================================================================
