------------------------- MODULE RegistryViewProofs -------------------------
(***************************************************************************)
(* The worker registry implements RegistryView, for every set of           *)
(* contemplants, requests and polls.                                       *)
(***************************************************************************)
EXTENDS WorkerRegistryProofs

Held(r) == BusyWith(workers, r) # {}

(* q does not come in with this step.                                      *)
StaysOut(q) == (Waits(q)' => Waits(q)) /\ (Held(q)' => Held(q) \/ Waits(q))

NobodyEnters == \A q \in Request : StaysOut(q)

(* The initial states map to the initial state.                            *)
LEMMA InitView == Init => View!ViewInit
  <1> SUFFICES ASSUME Init, NEW r \in Request PROVE StandingOf(r) = "unknown"
    BY DEF View!ViewInit
  <1>1. BusyWith(workers, r) = {}
    BY DEF Init, BusyWith
  <1>2. ~Waits(r)
    BY DEF Init, Waits, Queued
  <1> QED
    BY <1>1, <1>2 DEF StandingOf

(* A request at a worker is not in the queue.                              *)
LEMMA HeldNotWaiting ==
  ASSUME RegistryInv, NEW r \in Request, Held(r)
  PROVE  ~Waits(r)
  BY DEF RegistryInv, QueueExclusive, Unheld, Held, Waits, Queued

LEMMA StandingCases ==
  ASSUME RegistryInv, NEW r \in Request
  PROVE  /\ StandingOf(r) = "busy" <=> Held(r)
         /\ StandingOf(r) = "queued" <=> Waits(r)
         /\ StandingOf(r) = "unknown" <=> ~Held(r) /\ ~Waits(r)
  BY HeldNotWaiting DEF StandingOf, Held

(* Steps after which the same requests wait, and no other is at a worker.  *)
LEMMA LeaveStep ==
  ASSUME RegistryInv, RegistryInv',
         \A r \in Request : Waits(r)' <=> Waits(r),
         \A r \in Request : Held(r)' => Held(r)
  PROVE  View!ViewNext /\ NobodyEnters
  <1> DEFINE lost == {r \in Request : Held(r) /\ ~Held(r)'}
  <1>1. lost \in SUBSET View!Busy
    BY StandingCases DEF View!Busy
  <1>2. \A r \in Request : StandingOf(r)' = (IF r \in lost THEN "unknown" ELSE StandingOf(r))
    BY HeldNotWaiting DEF StandingOf, Held
  <1>3. View!Leave(lost)
    BY <1>2 DEF View!Leave
  <1>4. NobodyEnters
    BY DEF NobodyEnters, StaysOut
  <1> QED
    BY <1>1, <1>3, <1>4 DEF View!ViewNext

LEMMA KeptJobs ==
  ASSUME JobsKept(workers, workers'), NEW r \in Request, Held(r)'
  PROVE  Held(r)
  BY JobsKeptFacts DEF Held

(* Steps that leave the queue alone and start no job.                      *)
LEMMA QuietView ==
  ASSUME RegistryInv, RegistryInv', JobsKept(workers, workers'),
         UNCHANGED <<pending, still>>
  PROVE  View!ViewNext /\ NobodyEnters
  <1>1. \A r \in Request : Waits(r)' <=> Waits(r)
    BY DEF Waits, Queued
  <1> QED
    BY <1>1, KeptJobs, LeaveStep

(* Steps after which one request has come in, that did not wait.           *)
LEMMA MoveStep ==
  ASSUME RegistryInv, NEW r \in Request, NEW to \in {"queued", "busy"},
         ~Waits(r), StandingOf(r)' = to,
         \A q \in Request \ {r} : (Waits(q)' <=> Waits(q)) /\ (Held(q)' => Held(q))
  PROVE  View!ViewNext /\ \A q \in Request \ {r} : StaysOut(q)
  <1> DEFINE lost == {q \in Request : q # r /\ Held(q) /\ ~Held(q)'}
  <1>1. lost \in SUBSET View!Busy
    BY StandingCases DEF View!Busy
  <1>2. \A q \in Request \ {r} :
          StandingOf(q)' = (IF q \in lost THEN "unknown" ELSE StandingOf(q))
    BY HeldNotWaiting DEF StandingOf, Held
  <1>3. View!Move(r, to, lost)
    BY <1>2 DEF View!Move
  <1>4. StandingOf(r) \in {"unknown", "busy"}
    BY DEF StandingOf
  <1>5. to \in View!Standing
    BY DEF View!Standing
  <1>6. View!Submit(r) \/ View!Resubmit(r)
    BY <1>1, <1>3, <1>4, <1>5 DEF View!Submit, View!Resubmit
  <1>7. \A q \in Request \ {r} : StaysOut(q)
    BY DEF StaysOut
  <1> QED
    BY <1>6, <1>7 DEF View!ViewNext

(* The worker that try_assign ends at is busy with the request.            *)
LEMMA PlacedHeld ==
  ASSUME NEW ws, Registry(ws), NEW r \in Request, NEW home \in Homes(ws, r), NEW tried
  PROVE  BusyWith(Place(ws, r, home, tried), r) # {}
  <1>1. home \in DOMAIN ws
    BY DEF Homes, Open, Hot, Candidates
  <1>2. Registry(Strike(ws, tried)) /\ DOMAIN Strike(ws, tried) = DOMAIN ws
    BY StrikeAllFacts
  <1>3. Strike(ws, tried)[home] \in WorkerState
    BY <1>1, <1>2 DEF Registry
  <1>4. Place(ws, r, home, tried)[home].job = r /\ home \in DOMAIN Place(ws, r, home, tried)
    BY <1>1, <1>2, <1>3, AssignedFacts DEF Place, Registry
  <1> QED
    BY <1>4 DEF BusyWith

(* A submission: known already, placed, queued, or refused by the queue.   *)
LEMMA AssignProofView ==
  ASSUME RegistryInv, RegistryInv', NEW r \in Request, handle_assign_proof(r)
  PROVE  View!ViewNext /\ \A q \in Request \ {r} : StaysOut(q)
  <1> DEFINE ws == trim_workers(workers)
  <1>1. loop = Receiving /\ still = <<>> /\ still' = still
    BY DEF handle_assign_proof, RegistryInv, DrainInv, Receiving
  <1>2. Registry(ws) /\ Narrows(workers, ws) /\ JobsKept(workers, ws)
    BY TrimFacts DEF RegistryInv, TypeOK
  <1>3. /\ SoleHolders(ws)
        /\ \A q \in Request : BusyWith(workers, q) = {} => BusyWith(ws, q) = {}
    BY <1>2, JobsKeptFacts DEF RegistryInv, OneWorkerPerRequest
  <1>4. CASE BusyWith(ws, r) # {} /\ workers' = ws /\ UNCHANGED pending
    BY <1>1, <1>2, <1>4, QuietView DEF NobodyEnters
  <1>5. CASE /\ BusyWith(ws, r) = {} /\ UNCHANGED pending
             /\ \E home \in Homes(ws, r) : \E tried \in Tried(ws, r, home) :
                  workers' = Place(ws, r, home, tried)
    <2>1. PICK home \in Homes(ws, r) : \E tried \in Tried(ws, r, home) :
                  workers' = Place(ws, r, home, tried)
      BY <1>5
    <2>2. /\ \A q \in Request \ {r} : BusyWith(ws, q) = {} => BusyWith(workers', q) = {}
          /\ ~NoHome(ws, r) /\ BusyWith(workers', r) # {}
      BY <1>2, <1>3, <1>5, <2>1, PlaceFacts, PlacedHeld
    <2>3. ~Waits(r)
      BY <1>1, <1>2, <2>2, NarrowsNoHome DEF RegistryInv, WorkConserving, Waits, Queued
    <2>4. StandingOf(r)' = "busy"
      BY <2>2 DEF StandingOf
    <2>5. \A q \in Request \ {r} : (Waits(q)' <=> Waits(q)) /\ (Held(q)' => Held(q))
      BY <1>1, <1>3, <1>5, <2>2 DEF Waits, Queued, Held
    <2> QED
      BY <2>3, <2>4, <2>5, MoveStep
  <1>6. CASE CannotAssign(ws, r) /\ Enqueue(r)
    <2>1. /\ \A q \in Request : BusyWith(ws, q) = {} => BusyWith(workers', q) = {}
          /\ BusyWith(ws, r) = {}
      BY <1>2, <1>3, <1>6, CannotAssignFacts
    <2>2. \A q \in Request : Held(q)' => Held(q)
      BY <1>3, <2>1 DEF Held
    <2>3. CASE pending' = pending
      <3>1. \A q \in Request : Waits(q)' <=> Waits(q)
        BY <1>1, <2>3 DEF Waits, Queued
      <3> QED
        BY <2>2, <3>1, LeaveStep DEF NobodyEnters
    <2>4. CASE ~Queued(r) /\ pending' = Append(pending, [req |-> r, stale |-> FALSE])
      <3>1. /\ Len(pending') = Len(pending) + 1
            /\ Len(pending) \in Nat
            /\ \A i \in 1..Len(pending) : pending'[i] = pending[i]
            /\ pending'[Len(pending) + 1].req = r
        BY <2>4, AppendProperties, LenProperties DEF RegistryInv, TypeOK, Entry
      <3>2. ~Waits(r)
        BY <1>1, <2>4 DEF Waits
      <3>3. Waits(r)'
        <4>1. Len(pending) + 1 \in 1..Len(pending')
          BY <3>1
        <4> QED
          BY <3>1, <4>1 DEF Waits, Queued
      <3>4. StandingOf(r)' = "queued"
        BY <2>1, <3>3 DEF StandingOf
      <3>5. ASSUME NEW q \in Request \ {r} PROVE Waits(q)' <=> Waits(q)
        <4>1. Queued(q)' <=> Queued(q)
          <5>1. \A i \in 1..Len(pending') : i \in 1..Len(pending) \/ i = Len(pending) + 1
            BY <3>1
          <5>2. 1..Len(pending) \subseteq 1..Len(pending')
            BY <3>1
          <5> QED
            BY <3>1, <5>1, <5>2 DEF Queued
        <4> QED
          BY <1>1, <4>1 DEF Waits
      <3> QED
        BY <2>2, <3>2, <3>4, <3>5, MoveStep
    <2> QED
      BY <1>6, <2>3, <2>4 DEF Enqueue
  <1> QED
    BY <1>4, <1>5, <1>6 DEF handle_assign_proof, Assign

(* Placing takes an idle worker: nobody loses theirs.                      *)
LEMMA PlaceKeeps ==
  ASSUME NEW ws, Registry(ws), NEW r \in Request, NEW home \in Homes(ws, r), NEW tried,
         NEW q \in Request, BusyWith(ws, q) # {}
  PROVE  BusyWith(Place(ws, r, home, tried), q) # {}
  <1>1. home \in DOMAIN ws /\ ws[home].job = NoRequest
    BY DEF Homes, Open, Hot, Candidates
  <1>2. DOMAIN Strike(ws, tried) = DOMAIN ws /\ Registry(Strike(ws, tried))
    BY StrikeAllFacts
  <1>3. PICK a \in DOMAIN ws : ws[a].job = q
    BY DEF BusyWith
  <1>4. a # home
    BY <1>1, <1>3, ConstantsAssumption
  <1>5. Strike(ws, tried)[a].job = q
    BY <1>3, StrikeFacts DEF Strike, Registry
  <1>6. a \in DOMAIN Place(ws, r, home, tried) /\ Place(ws, r, home, tried)[a].job = q
    BY <1>2, <1>4, <1>5 DEF Place, Registry
  <1> QED
    BY <1>6 DEF BusyWith

(* One entry of the queue is taken: dropped, placed, or left for later.    *)
LEMMA DrainStepView ==
  ASSUME RegistryInv, RegistryInv', drain_step
  PROVE  View!ViewNext /\ NobodyEnters
  <1> DEFINE e == Head(pending)
  <1>1. pending # <<>> /\ pending' = Tail(pending)
    BY DEF drain_step
  <1>2. /\ Len(pending) \in Nat \ {0}
        /\ Len(pending') = Len(pending) - 1
        /\ \A i \in 1..Len(pending') : pending'[i] = pending[i + 1]
        /\ e \in Entry /\ e = pending[1]
    <2>1. pending \in Seq(Entry)
      BY DEF RegistryInv, TypeOK
    <2>2. e = pending[1]
      BY <2>1, <1>1
    <2> QED
      BY <1>1, <2>1, <2>2, HeadTailProperties, EmptySeq
  <1>3. PICK r \in Request : r = e.req
    BY <1>2 DEF Entry
  <1>4. r = pending[1].req /\ Queued(r)
    BY <1>2, <1>3 DEF Queued
  <1>5. Waits(r) /\ ~Held(r) /\ StandingOf(r) = "queued"
    BY <1>4, StandingCases DEF Waits
  <1>6. ASSUME NEW q \in Request PROVE Queued(q) <=> (Queued(q)' \/ q = r)
    <2>1. ASSUME Queued(q) PROVE Queued(q)' \/ q = r
      <3>1. PICK i \in 1..Len(pending) : pending[i].req = q
        BY <2>1 DEF Queued
      <3>2. CASE i = 1
        BY <1>2, <1>4, <3>1, <3>2
      <3>3. CASE i # 1
        <4>1. i - 1 \in 1..Len(pending') /\ (i - 1) + 1 = i
          BY <1>2, <3>3
        <4> QED
          BY <1>2, <3>1, <4>1 DEF Queued
      <3> QED
        BY <3>2, <3>3
    <2>2. ASSUME Queued(q)' PROVE Queued(q)
      <3>1. PICK i \in 1..Len(pending') : pending'[i].req = q
        BY <2>2 DEF Queued
      <3>2. i + 1 \in 1..Len(pending)
        BY <1>2
      <3> QED
        BY <1>2, <3>1, <3>2 DEF Queued
    <2> QED
      BY <1>4, <2>1, <2>2
  <1>7. Registry(workers) /\ SoleHolders(workers)
    BY DEF RegistryInv, TypeOK, OneWorkerPerRequest
  <1>8. ~Queued(r)'
    <2>1. \A i \in 1..Len(pending') : i + 1 \in 1..Len(pending) /\ i + 1 # 1
      BY <1>2
    <2>2. 1 \in 1..Len(pending)
      BY <1>2
    <2> QED
      BY <1>2, <1>4, <2>1, <2>2 DEF RegistryInv, QueueExclusive, Distinct, Queued
  <1>9. \A i \in 1..Len(still) : still[i].req # r
    <2>1. 1 \in 1..Len(pending)
      BY <1>2
    <2> QED
      BY <1>2, <1>4, <2>1 DEF RegistryInv, QueueExclusive, Distinct
  <1>10. CASE UNCHANGED still /\ (UNCHANGED workers \/ Assign(workers, r))
    <2>1. \A q \in Request \ {r} : Waits(q)' <=> Waits(q)
      BY <1>6, <1>10 DEF Waits
    <2>2. ~Waits(r)'
      BY <1>8, <1>9, <1>10 DEF Waits
    <2>3. CASE UNCHANGED workers
      <3>1. \A q \in Request : Held(q)' <=> Held(q)
        BY <2>3 DEF Held
      <3>2. \A q \in Request :
              StandingOf(q)' = (IF q = r THEN "unknown" ELSE StandingOf(q))
        BY <1>5, <2>1, <2>2, <3>1 DEF StandingOf, Held
      <3>3. View!Dropped(r)
        BY <1>4, <1>5, <3>2 DEF View!Dropped, View!Move
      <3>4. NobodyEnters
        BY <2>1, <2>2, <3>1 DEF NobodyEnters, StaysOut
      <3> QED
        BY <1>4, <3>3, <3>4 DEF View!ViewNext
    <2>4. CASE Assign(workers, r)
      <3>1. PICK home \in Homes(workers, r) : \E tried \in Tried(workers, r, home) :
                   workers' = Place(workers, r, home, tried)
        BY <1>5, <2>4 DEF Assign, Held
      <3>2. /\ Held(r)'
            /\ \A q \in Request \ {r} : Held(q)' <=> Held(q)
        BY <1>4, <1>5, <1>7, <3>1, PlaceFacts, PlacedHeld, PlaceKeeps DEF Held
      <3>3. \A q \in Request :
              StandingOf(q)' = (IF q = r THEN "busy" ELSE StandingOf(q))
        BY <2>1, <3>2 DEF StandingOf, Held
      <3>4. View!Placed(r)
        BY <1>4, <1>5, <3>3 DEF View!Placed, View!Move
      <3>5. NobodyEnters
        BY <1>5, <2>1, <2>2, <3>2 DEF NobodyEnters, StaysOut
      <3> QED
        BY <1>4, <3>4, <3>5 DEF View!ViewNext
    <2> QED
      BY <1>10, <2>3, <2>4
  <1>11. CASE CannotAssign(workers, r) /\ still' = Append(still, e)
    <2>1. \A q \in Request : Held(q)' => Held(q)
      BY <1>4, <1>7, <1>11, CannotAssignFacts DEF Held
    <2>2. /\ Len(still) \in Nat
          /\ Len(still') = Len(still) + 1
          /\ \A i \in 1..Len(still) : still'[i] = still[i]
          /\ still'[Len(still) + 1] = e
      BY <1>2, <1>11, AppendProperties, LenProperties DEF RegistryInv, TypeOK
    <2>3. ASSUME NEW q \in Request
          PROVE  (\E i \in 1..Len(still') : still'[i].req = q)
                   <=> (q = r \/ \E i \in 1..Len(still) : still[i].req = q)
      <3>1. \A i \in 1..Len(still') : i \in 1..Len(still) \/ i = Len(still) + 1
        BY <2>2
      <3>2. 1..Len(still) \subseteq 1..Len(still') /\ Len(still) + 1 \in 1..Len(still')
        BY <2>2
      <3> QED
        BY <1>3, <2>2, <3>1, <3>2
    <2>4. \A q \in Request : Waits(q)' <=> Waits(q)
      BY <1>6, <2>3 DEF Waits
    <2> QED
      BY <2>1, <2>4, LeaveStep
  <1> QED
    BY <1>10, <1>11, <1>3 DEF drain_step

(* The drain puts back what it left for later.                             *)
LEMMA DrainDoneView ==
  ASSUME RegistryInv, RegistryInv', drain_done
  PROVE  View!ViewNext /\ NobodyEnters
  <1>1. pending = <<>> /\ pending' = still /\ still' = <<>>
    BY DEF drain_done
  <1>2. \A r \in Request : Waits(r)' <=> Waits(r)
    BY <1>1 DEF Waits, Queued
  <1> QED
    BY <1>2, DrainDoneStep, KeptJobs, LeaveStep

(* Growing too old takes no entry out of the queue.                        *)
LEMMA ExpireView ==
  ASSUME RegistryInv, RegistryInv', NEW i \in 1..Len(pending), Expire(i)
  PROVE  View!ViewNext /\ NobodyEnters
  <1>1. pending' = [pending EXCEPT ![i].stale = TRUE] /\ UNCHANGED still
    BY DEF Expire
  <1>2. pending \in Seq(Entry) /\ pending[i] \in Entry
    BY ElementOfSeq DEF RegistryInv, TypeOK
  <1>3. /\ [pending[i] EXCEPT !.stale = TRUE] \in Entry
        /\ [pending[i] EXCEPT !.stale = TRUE].req = pending[i].req
    BY <1>2 DEF Entry
  <1>4. /\ Len(pending') = Len(pending)
        /\ \A j \in 1..Len(pending) : pending'[j].req = pending[j].req
    BY <1>1, <1>2, <1>3, ExceptSeq, LenProperties
  <1>5. \A r \in Request : Waits(r)' <=> Waits(r)
    BY <1>1, <1>4 DEF Waits, Queued
  <1> QED
    BY <1>5, ExpireStep, KeptJobs, LeaveStep

LEMMA NextView ==
  ASSUME RegistryInv, RegistryInv', Next
  PROVE  View!ViewNext /\ \A r \in Request : handle_assign_proof(r) \/ StaysOut(r)
  <1>1. ASSUME NEW a \in Addr, NEW p \in Process, NEW caps \in Offers[p],
               handle_worker_ready(a, p, caps)
        PROVE  View!ViewNext /\ NobodyEnters
    <2>1. \A r \in Request : Held(r)' => Held(r)
      BY <1>1, WorkerReadyStep DEF Held
    <2>2. \A r \in Request : Waits(r)' <=> Waits(r)
      BY <1>1 DEF handle_worker_ready, Waits, Queued
    <2> QED
      BY <2>1, <2>2, LeaveStep
  <1>2. ASSUME NEW a \in DOMAIN workers,
               \/ handle_heartbeat(a)
               \/ SocketCloses(a)
               \/ \E limit \in Clocks : Elapse(a, limit)
        PROVE  View!ViewNext /\ NobodyEnters
    <2>1. UNCHANGED <<pending, still>>
      BY <1>2 DEF handle_heartbeat, SocketCloses, Elapse
    <2> QED
      BY <1>2, <2>1, EnvironmentStep, QuietView
  <1>3. ASSUME NEW r \in Request, handle_proof_complete(r) PROVE View!ViewNext /\ NobodyEnters
    <2>1. UNCHANGED <<pending, still>>
      BY <1>3 DEF handle_proof_complete
    <2> QED
      BY <1>3, <2>1, ProofCompleteStep, QuietView
  <1>4. ASSUME NEW r \in Request, NEW st \in Status, handle_proof_status_response(r, st)
        PROVE  View!ViewNext /\ NobodyEnters
    <2>1. UNCHANGED <<pending, still>>
      BY <1>4 DEF handle_proof_status_response
    <2> QED
      BY <1>4, <2>1, StatusResponseStep, QuietView
  <1>5. ASSUME NEW r \in Request, handle_drop_worker_of_request(r) PROVE View!ViewNext /\ NobodyEnters
    <2>1. UNCHANGED <<pending, still>>
      BY <1>5 DEF handle_drop_worker_of_request
    <2> QED
      BY <1>5, <2>1, DropWorkerStep, QuietView
  <1>6. ASSUME NEW p \in Poll, NEW r \in Request, handle_proof_status_request(p, r)
        PROVE  View!ViewNext /\ NobodyEnters
    <2>1. UNCHANGED <<pending, still>>
      BY <1>6 DEF handle_proof_status_request
    <2> QED
      BY <1>6, <2>1, StatusRequestStep, QuietView
  <1>7. ASSUME NEW p \in Poll, poll_returns(p) \/ poll_timeout(p) PROVE View!ViewNext /\ NobodyEnters
    <2>1. UNCHANGED <<pending, still>>
      BY <1>7 DEF poll_returns, poll_timeout
    <2> QED
      BY <1>7, <2>1, PollEndsStep, QuietView
  <1>8. ASSUME NEW r \in Request, handle_assign_proof(r)
        PROVE  View!ViewNext /\ \A q \in Request : handle_assign_proof(q) \/ StaysOut(q)
    BY <1>8, AssignProofView
  <1> QED
    BY <1>1, <1>2, <1>3, <1>4, <1>5, <1>6, <1>7, <1>8, DrainStepView, DrainDoneView,
       ExpireView
       DEF Next, NobodyEnters

LEMMA StutterView ==
  ASSUME UNCHANGED vars
  PROVE  UNCHANGED [r \in Request |-> StandingOf(r)]
  <1>1. UNCHANGED <<workers, pending, still>>
    BY DEF vars
  <1>2. \A r \in Request : StandingOf(r)' = StandingOf(r)
    BY <1>1 DEF StandingOf, Waits, Queued
  <1> QED
    BY <1>2

(* The registry implements the view its front ends have of it: a step      *)
(* brings in, places or drops one request at most, what it takes away      *)
(* besides was at a worker, and a queued request is lost by no eviction.   *)
THEOREM Refinement == Spec => ImplementsView
  <1>1. RegistryInv /\ RegistryInv' /\ [Next]_vars
          => [View!ViewNext]_([r \in Request |-> StandingOf(r)])
    BY NextView, StutterView
  <1> QED
    BY <1>1, InitView, RegistryInvariant, PTL DEF Spec, ImplementsView, View!ViewSpec

(* The part the view cannot say: a request gets into the queue, or to a    *)
(* worker without having waited, by handle_assign_proof of that request.   *)
(* trim_workers, handle_drop_worker_of_request and a reconnection never    *)
(* put back the request of the worker they remove.                         *)
THEOREM SubmissionOnly == Spec => EntersBySubmission
  <1>1. RegistryInv /\ RegistryInv' /\ [Next]_vars
          => [\A r \in Request : Enters(r) => handle_assign_proof(r)]_vars
    <2>1. SUFFICES ASSUME RegistryInv, RegistryInv', Next, NEW r \in Request, Enters(r)
                   PROVE  handle_assign_proof(r)
      OBVIOUS
    <2>2. ~StaysOut(r)
      BY <2>1 DEF Enters, StaysOut, Held
    <2> QED
      BY <2>1, <2>2, NextView
  <1> QED
    BY <1>1, RegistryInvariant, PTL DEF Spec, EntersBySubmission
=============================================================================
