------------------------- MODULE ContemplantProofs -------------------------
(***************************************************************************)
(* Proofs about a contemplant, for any requests of the three zkVMs, any    *)
(* size of the status ring and any number of deaths of the backends.       *)
(***************************************************************************)
EXTENDS Contemplant, TLAPS

Place ==
  {"none", "start", "rebuild", "take", "prove", "report", "respawn", "over", "panicked"}

TaskRecord ==
  [at : Place,
   got : {"none", "alive", "dead", "cold", "proof", "error", "death"},
   size : {"unknown", "known", "reported"}]

Tasks == [Request -> TaskRecord]

(* The status ring has no request twice; tasks are well-formed.            *)
Shape ==
  /\ proofs \in [Slot -> ProofStatus]
  /\ current_proof_index \in Slot
  /\ \A i, j \in Slot : i # j /\ proofs[i].req # NoRequest => proofs[i].req # proofs[j].req
  /\ task \in Tasks /\ sp1 \in {"alive", "dead", "cold"}
  /\ assigned \in Request \cup {NoRequest} /\ inflight \in Request \cup {NoRequest}

(* A request on its way is new to the contemplant, and the registry has    *)
(* assigned it no other since.                                             *)
SentFresh ==
  inflight # NoRequest => task[inflight].at = "none" /\ assigned \in {NoRequest, inflight}

(* Only requests that were taken up are stored.                            *)
StoredStarted ==
  \A i \in Slot : proofs[i].req # NoRequest => task[proofs[i].req].at # "none"

KnownInv == Shape /\ SentFresh /\ StoredStarted /\ AssignedKnown

-----------------------------------------------------------------------------
(* The ring.                                                               *)

(* A stored request has one slot.                                          *)
LEMMA FirstSlot ==
  ASSUME Shape, NEW r \in Request, Stored(r)
  PROVE  First(r) \in Slot /\ proofs[First(r)].req = r /\ SlotsOf(r) = {First(r)}
  <1>1. PICK i \in Slot : proofs[i].req = r
    BY DEF Stored, SlotsOf
  <1>2. SlotsOf(r) = {i}
    BY <1>1, ProofStoreAssumption DEF SlotsOf, Shape
  <1>3. i <= i
    BY <1>1, ProofStoreAssumption DEF Slot
  <1>4. First(r) \in SlotsOf(r)
    BY <1>2, <1>3 DEF First
  <1> QED
    BY <1>1, <1>2, <1>4

(* A new status of a slot that keeps its request.                          *)
LEMMA UpdateRing ==
  ASSUME Shape, NEW r \in Request, NEW new \in ProofStatus,
         Stored(r) => new.req = r,
         proofs' = (IF Stored(r) THEN [proofs EXCEPT ![First(r)] = new] ELSE proofs)
  PROVE  /\ proofs' \in [Slot -> ProofStatus]
         /\ \A i \in Slot : proofs'[i].req = proofs[i].req
         /\ \A i \in Slot : proofs[i].req # r => proofs'[i] = proofs[i]
  <1>1. CASE Stored(r)
    BY <1>1, FirstSlot DEF Shape
  <1>2. CASE ~Stored(r)
    BY <1>2 DEF Shape
  <1> QED
    BY <1>1, <1>2

LEMMA StatusRing ==
  ASSUME Shape, NEW r \in Request, NEW exec \in {"unexecuted", "executed", "unexecutable"},
         NEW proof \in BOOLEAN, ProofStatusUpdate(r, exec, proof)
  PROVE  /\ proofs' \in [Slot -> ProofStatus]
         /\ \A i \in Slot : proofs'[i].req = proofs[i].req
         /\ \A i \in Slot : proofs[i].req # r => proofs'[i] = proofs[i]
  <1> DEFINE old == proofs[First(r)]
             new == status_update(old, exec, proof)
  <1>1. CASE Stored(r)
    <2>1. old \in ProofStatus /\ old.req = r /\ First(r) \in Slot
      BY <1>1, FirstSlot DEF Shape
    <2>2. new \in ProofStatus /\ new.req = r
      <3> DEFINE p == IF proof THEN Done ELSE old.progress
      <3>1. p \in 0..Done
        BY <2>1 DEF ProofStatus, Done
      <3>2. new = [old EXCEPT !.exec = exec, !.proof = proof, !.progress = p]
        BY DEF status_update
      <3> HIDE DEF p, new, old
      <3> QED
        BY <2>1, <3>1, <3>2 DEF ProofStatus
    <2>3. proofs' = [proofs EXCEPT ![First(r)] = new]
      BY <1>1 DEF ProofStatusUpdate
    <2> HIDE DEF new
    <2> QED
      BY <1>1, <2>1, <2>2, <2>3, UpdateRing
  <1>2. CASE ~Stored(r)
    BY <1>2 DEF ProofStatusUpdate, Shape
  <1> QED
    BY <1>1, <1>2

LEMMA ProgressRing ==
  ASSUME Shape, NEW r \in Request, NEW update \in {NoHistory, Proving},
         ProofProgressUpdate(r, update)
  PROVE  /\ proofs' \in [Slot -> ProofStatus]
         /\ \A i \in Slot : proofs'[i].req = proofs[i].req
         /\ \A i \in Slot : proofs'[i].exec = proofs[i].exec
  <1> DEFINE old == proofs[First(r)]
             new == progress_update(old, update)
  <1>1. CASE Stored(r)
    <2>1. old \in ProofStatus /\ old.req = r /\ First(r) \in Slot
      BY <1>1, FirstSlot DEF Shape
    <2>2. new \in ProofStatus /\ new.req = r /\ new.exec = old.exec
      BY <2>1 DEF progress_update, ProofStatus, Done, NoHistory, Proving
    <2>3. proofs' = [proofs EXCEPT ![First(r)] = new]
      BY <1>1 DEF ProofProgressUpdate
    <2> HIDE DEF new
    <2> QED
      BY <2>1, <2>2, <2>3 DEF Shape
  <1>2. CASE ~Stored(r)
    BY <1>2 DEF ProofProgressUpdate, Shape
  <1> QED
    BY <1>1, <1>2

(* A request that is taken up has a slot, whichever it pushes out.         *)
LEMMA InsertRing ==
  ASSUME Shape, NEW r \in Request,
         InsertProof(r, progress_update(Unexecuted(r), Executing))
  PROVE  /\ proofs' \in [Slot -> ProofStatus] /\ current_proof_index' \in Slot
         /\ \A i, j \in Slot : i # j /\ proofs'[i].req # NoRequest =>
              proofs'[i].req # proofs'[j].req
         /\ \E i \in Slot : proofs'[i].req = r
         /\ \A i \in Slot : proofs'[i].req = r \/ proofs'[i] = proofs[i]
         /\ \A i \in Slot : proofs'[i].req = r => proofs'[i].exec = "unexecuted"
  <1> DEFINE new == progress_update(Unexecuted(r), Executing)
  <1>1. new \in ProofStatus /\ new.req = r /\ new.exec = "unexecuted"
    <2> DEFINE u == Unexecuted(r)
    <2>1. 0 \in 0..Done /\ Executing \in 0..Done
      BY DEF Executing, Done
    <2>2. u \in ProofStatus /\ u.req = r /\ u.exec = "unexecuted" /\ u.progress = 0
      BY <2>1 DEF Unexecuted, ProofStatus
    <2>3. new = [u EXCEPT !.progress = Executing]
      BY <2>2 DEF progress_update, Executing
    <2> HIDE DEF u, new
    <2> QED
      BY <2>1, <2>2, <2>3 DEF ProofStatus
  <1>2. CASE Stored(r)
    <2>1. /\ proofs' = [proofs EXCEPT ![First(r)] = new]
          /\ current_proof_index' = current_proof_index
      BY <1>2 DEF InsertProof
    <2>2. /\ First(r) \in Slot /\ proofs[First(r)].req = r
          /\ \A i \in Slot \ {First(r)} : proofs[i].req # r
      BY <1>2, FirstSlot DEF SlotsOf
    <2> HIDE DEF new
    <2> QED
      BY <1>1, <2>1, <2>2 DEF Shape
  <1>3. CASE ~Stored(r)
    <2>1. /\ proofs' = [proofs EXCEPT ![current_proof_index] = new]
          /\ current_proof_index' = (current_proof_index + 1) % MaxProofsStored
      BY <1>3 DEF InsertProof
    <2>2. \A i \in Slot : proofs[i].req # r
      BY <1>3 DEF Stored, SlotsOf
    <2>3. current_proof_index' \in Slot
      <3>1. current_proof_index \in Nat /\ MaxProofsStored \in Nat \ {0}
        BY ProofStoreAssumption DEF Shape, Slot
      <3> QED
        BY <2>1, <3>1 DEF Slot
    <2> HIDE DEF new
    <2>4. r # NoRequest
      BY ProofStoreAssumption
    <2> QED
      BY <1>1, <2>1, <2>2, <2>3, <2>4 DEF Shape
  <1> QED
    BY <1>2, <1>3

-----------------------------------------------------------------------------
(* The tasks.                                                              *)

Outcome == {"none", "alive", "dead", "cold", "proof", "error", "death"}

(* A task is moved, with or without a new result.                          *)
LEMMA MoveTask ==
  ASSUME NEW tasks \in Tasks, NEW r \in Request, NEW at \in Place
  PROVE  LET next == [tasks EXCEPT ![r].at = at] IN
         /\ next \in Tasks /\ next[r].at = at
         /\ \A q \in Request \ {r} : next[q] = tasks[q]
  <1>1. tasks[r] \in TaskRecord
    BY DEF Tasks
  <1>2. /\ [tasks[r] EXCEPT !.at = at] \in TaskRecord
        /\ [tasks[r] EXCEPT !.at = at].at = at
    BY <1>1 DEF TaskRecord
  <1>3. [tasks EXCEPT ![r].at = at] = [tasks EXCEPT ![r] = [tasks[r] EXCEPT !.at = at]]
    BY DEF Tasks
  <1> QED
    BY <1>2, <1>3 DEF Tasks

Moved(tasks, r, at, got) == [tasks EXCEPT ![r].at = at, ![r].got = got]

LEMMA MoveTaskGot ==
  ASSUME NEW tasks \in Tasks, NEW r \in Request, NEW at \in Place, NEW got \in Outcome
  PROVE  LET next == Moved(tasks, r, at, got) IN
         /\ next \in Tasks /\ next[r].at = at
         /\ \A q \in Request \ {r} : next[q] = tasks[q]
  <1>1. tasks[r] \in TaskRecord
    BY DEF Tasks
  <1>2. /\ [tasks[r] EXCEPT !.at = at, !.got = got] \in TaskRecord
        /\ [tasks[r] EXCEPT !.at = at, !.got = got].at = at
    BY <1>1 DEF TaskRecord, Outcome
  <1>3. Moved(tasks, r, at, got)
          = [tasks EXCEPT ![r] = [tasks[r] EXCEPT !.at = at, !.got = got]]
    BY <1>1 DEF Moved, Tasks, TaskRecord
  <1> QED
    BY <1>2, <1>3 DEF Tasks

(* The death of the openvm-worker leaves every task where it is.           *)
LEMMA SeveredTasks ==
  ASSUME task \in Tasks
  PROVE  Severed(task) \in Tasks /\ \A q \in Request : Severed(task)[q].at = task[q].at
  <1>1. ASSUME NEW q \in Request
        PROVE  Severed(task)[q] \in TaskRecord /\ Severed(task)[q].at = task[q].at
    <2>1. task[q] \in TaskRecord
      BY DEF Tasks
    <2>2. Severed(task)[q] = IF VmOf[q] = "openvm" /\ task[q].at = "prove"
                             THEN [task[q] EXCEPT !.got = "dead"] ELSE task[q]
      BY DEF Severed
    <2>3. [task[q] EXCEPT !.got = "dead"] \in TaskRecord
          /\ [task[q] EXCEPT !.got = "dead"].at = task[q].at
      BY <2>1 DEF TaskRecord
    <2> QED
      BY <2>1, <2>2, <2>3
  <1> QED
    BY <1>1 DEF Tasks, Severed

(* What a step of a task does to its task: it goes on, with no other task  *)
(* moved.  Severed tasks stay where they are.                              *)
TaskMoves(r) ==
  /\ task' \in Tasks
  /\ task[r].at # "none" /\ task'[r].at # "none"
  /\ \A q \in Request \ {r} : task'[q].at = task[q].at

LEMMA TaskStepMoves ==
  ASSUME Shape, NEW r \in Request, TaskStep(r)
  PROVE  TaskMoves(r)
  <1>a. task \in Tasks /\ Severed(task) \in Tasks
        /\ \A q \in Request : Severed(task)[q].at = task[q].at
    BY SeveredTasks DEF Shape
  <1>b. Place \ {"none"}
          = {"start", "rebuild", "take", "prove", "report", "respawn", "over", "panicked"}
    BY DEF Place
  <1>1. ASSUME NEW at \in Place \ {"none"}, Goto(r, at), task[r].at # "none"
        PROVE  TaskMoves(r)
    <2>1. at \in Place /\ at # "none" /\ "none" \in Outcome
      BY DEF Outcome
    <2>2. task' = Moved(task, r, at, "none")
      BY <1>1 DEF Goto, Moved
    <2>3. /\ task' \in Tasks /\ task'[r].at = at
          /\ \A q \in Request \ {r} : task'[q] = task[q]
      BY <1>a, <2>1, <2>2, MoveTaskGot
    <2> QED
      BY <1>1, <2>1, <2>3 DEF TaskMoves
  <1>2. ASSUME NEW at \in Place \ {"none"},
               NEW got \in Outcome, NEW tasks \in {task, Severed(task)},
               task' = Moved(tasks, r, at, got), task[r].at # "none"
        PROVE  TaskMoves(r)
    <2>1. tasks \in Tasks /\ \A q \in Request : tasks[q].at = task[q].at
      BY <1>a
    <2>2. at \in Place /\ at # "none"
      OBVIOUS
    <2>3. /\ task' \in Tasks /\ task'[r].at = at
          /\ \A q \in Request \ {r} : task'[q] = tasks[q]
      BY <1>2, <2>1, <2>2, MoveTaskGot
    <2> QED
      BY <1>2, <2>1, <2>2, <2>3 DEF TaskMoves
  <1>3. CASE start_sp1(r) \/ build_sp1_active(r)
    BY <1>3, <1>1, <1>b DEF start_sp1, build_sp1_active
  <1>4. CASE take_handle(r)
    <2>1. sp1 \in Outcome
      BY DEF Shape, Outcome
    <2> QED
      BY <1>4, <1>1, <1>2, <1>b, <2>1 DEF take_handle, Moved
  <1>5. CASE start_risc0(r)
    BY <1>5, <1>1, <1>b DEF start_risc0
  <1>6. CASE start_openvm(r)
    BY <1>6, <1>2, <1>b DEF start_openvm, Outcome, Moved
  <1>7. CASE prove(r)
    <2>1. PICK got \in {"proof", "error", "death"} :
            task' = Moved(IF child' = "none" THEN Severed(task) ELSE task, r, "report", got)
      BY <1>7 DEF prove, Moved
    <2>2. task[r].at # "none"
      BY <1>7 DEF prove
    <2>3. CASE child' = "none"
      BY <1>2, <1>b, <2>1, <2>2, <2>3 DEF Outcome
    <2>4. CASE child' # "none"
      BY <1>2, <1>b, <2>1, <2>2, <2>4 DEF Outcome
    <2> QED
      BY <2>3, <2>4
  <1>8. CASE report_proof(r) \/ report_error(r)
    BY <1>8, <1>1, <1>b DEF report_proof, report_error
  <1>9. CASE report_death(r)
    <2>1. PICK at \in {"respawn", "over"} : Goto(r, at)
      BY <1>9 DEF report_death, CountDeath
    <2> QED
      BY <1>9, <1>1, <1>b, <2>1 DEF report_death
  <1> QED
    BY <1>3, <1>4, <1>5, <1>6, <1>7, <1>8, <1>9 DEF TaskStep

LEMMA SizeMoves ==
  ASSUME Shape, NEW r \in Request, size_known(r) \/ report_size(r)
  PROVE  task' \in Tasks /\ \A q \in Request : task'[q].at = task[q].at
  <1>1. PICK size \in {"known", "reported"} : task' = [task EXCEPT ![r].size = size]
    BY DEF size_known, report_size
  <1>2. task[r] \in TaskRecord /\ task \in Tasks
    BY DEF Shape, Tasks
  <1>3. /\ [task[r] EXCEPT !.size = size] \in TaskRecord
        /\ [task[r] EXCEPT !.size = size].at = task[r].at
    BY <1>2 DEF TaskRecord
  <1>4. task' = [task EXCEPT ![r] = [task[r] EXCEPT !.size = size]]
    BY <1>1, <1>2 DEF Tasks
  <1> QED
    BY <1>2, <1>3, <1>4 DEF Tasks

-----------------------------------------------------------------------------
(* What the contemplant knows.                                             *)

(* The registry may forget, a request on its way may get lost; what is     *)
(* stored and which tasks have started stays.                              *)
LEMMA KeepsKnown ==
  ASSUME KnownInv,
         proofs' \in [Slot -> ProofStatus], current_proof_index' = current_proof_index,
         \A i \in Slot : proofs'[i].req = proofs[i].req,
         task' \in Tasks, sp1' \in {"alive", "dead", "cold"},
         \A q \in Request : task'[q].at = "none" <=> task[q].at = "none",
         inflight' \in {inflight, NoRequest}, assigned' \in {assigned, NoRequest}
  PROVE  KnownInv'
  <1>1. Shape'
    BY DEF KnownInv, Shape
  <1>2. SentFresh'
    BY DEF KnownInv, Shape, SentFresh
  <1>3. StoredStarted'
    <2>1. \A i \in Slot : proofs[i].req \in Request \cup {NoRequest}
      BY DEF KnownInv, Shape, ProofStatus
    <2> QED
      BY <2>1 DEF KnownInv, StoredStarted
  <1>4. AssignedKnown'
    BY ProofStoreAssumption DEF KnownInv, AssignedKnown, Stored, SlotsOf
  <1> QED
    BY <1>1, <1>2, <1>3, <1>4 DEF KnownInv

(* The store as a step of a task leaves it.                                *)
LEMMA TaskStepRing ==
  ASSUME Shape, NEW r \in Request, TaskStep(r) \/ size_known(r) \/ report_size(r)
  PROVE  /\ proofs' \in [Slot -> ProofStatus] /\ current_proof_index' = current_proof_index
         /\ \A i \in Slot : proofs'[i].req = proofs[i].req
         /\ sp1' \in {"alive", "dead", "cold"}
         /\ inflight' = inflight /\ assigned' = assigned
  <1>a. proofs \in [Slot -> ProofStatus] /\ sp1 \in {"alive", "dead", "cold"}
    BY DEF Shape
  <1>1. CASE start_sp1(r) \/ build_sp1_active(r) \/ take_handle(r) \/ start_risc0(r)
             \/ start_openvm(r) \/ size_known(r)
    BY <1>1, <1>a DEF start_sp1, build_sp1_active, take_handle, start_risc0, start_openvm, size_known,
       storeVars, others, hierophant
  <1>2. CASE prove(r)
    <2>1. sp1' \in {sp1, "dead"}
      BY <1>2 DEF prove
    <2> QED
      BY <1>2, <1>a, <2>1 DEF prove, storeVars, others, hierophant
  <1>3. CASE report_proof(r)
    BY <1>3, <1>a, StatusRing DEF report_proof, ProofStatusUpdate, others, hierophant
  <1>4. CASE report_error(r)
    BY <1>4, <1>a, StatusRing DEF report_error, ProofStatusUpdate, others, hierophant
  <1>5. CASE report_death(r)
    BY <1>5, <1>a, StatusRing DEF report_death, ProofStatusUpdate, hierophant
  <1>6. CASE report_size(r)
    BY <1>6, <1>a, ProgressRing DEF report_size, ProofProgressUpdate, others, hierophant
  <1> QED
    BY <1>1, <1>2, <1>3, <1>4, <1>5, <1>6 DEF TaskStep

LEMMA StepKnown == KnownInv /\ [Next]_vars => KnownInv'
  <1> SUFFICES ASSUME KnownInv, [Next]_vars PROVE KnownInv'
    OBVIOUS
  <1>a. /\ Shape
        /\ proofs \in [Slot -> ProofStatus] /\ task \in Tasks
        /\ sp1 \in {"alive", "dead", "cold"}
    BY DEF KnownInv, Shape
  <1>1. CASE \/ Connection \/ evict \/ UNCHANGED vars
             \/ \E r \in Request : get_proof_request_status(r)
    <2>1. /\ UNCHANGED <<storeVars, task, sp1>>
          /\ inflight' \in {inflight, NoRequest} /\ assigned' \in {assigned, NoRequest}
      BY <1>1 DEF Connection, register, verify_with_magister, verify_fails, connection_lost,
         reconnect, main_returns, Disconnect, evict, get_proof_request_status, vars, backends,
         hierophant, storeVars
    <2> QED
      BY <1>a, <2>1, KeepsKnown DEF storeVars
  <1>2. ASSUME NEW r \in Request, TaskStep(r) PROVE KnownInv'
    BY <1>2, <1>a, TaskStepMoves, TaskStepRing, KeepsKnown DEF TaskMoves
  <1>3. ASSUME NEW r \in Request, size_known(r) \/ report_size(r) PROVE KnownInv'
    BY <1>3, <1>a, SizeMoves, TaskStepRing, KeepsKnown
  <1>4. ASSUME NEW r \in Request, try_assign(r) PROVE KnownInv'
    <2>1. /\ assigned' = r /\ inflight' \in {r, NoRequest} /\ task[r].at = "none"
          /\ UNCHANGED <<proofs, current_proof_index, task, sp1>>
      BY <1>4 DEF try_assign, storeVars, backends, NoTask
    <2>2. Shape'
      BY <1>a, <2>1 DEF Shape
    <2>3. SentFresh' /\ StoredStarted'
      BY <2>1 DEF SentFresh, StoredStarted, KnownInv
    <2>4. AssignedKnown'
      BY <2>1 DEF AssignedKnown
    <2> QED
      BY <2>2, <2>3, <2>4 DEF KnownInv
  <1>5. ASSUME NEW r \in Request, execute_proof(r) PROVE KnownInv'
    <2>1. /\ inflight = r /\ inflight' = NoRequest /\ assigned' = assigned
          /\ InsertProof(r, progress_update(Unexecuted(r), Executing))
          /\ task' = Started(r)
      BY <1>5 DEF execute_proof
    <2>2. sp1' \in {sp1, "cold"}
      BY <1>5 DEF execute_proof, release_gpu
    <2>3. r # NoRequest
      BY ProofStoreAssumption
    <2>4. /\ task' \in Tasks /\ task'[r].at = "start"
          /\ \A q \in Request \ {r} : task'[q].at = task[q].at
      <3> DEFINE tasks == IF child' = "none" THEN Severed(task) ELSE task
      <3>1. tasks \in Tasks /\ \A q \in Request : tasks[q].at = task[q].at
        BY <1>a, SeveredTasks
      <3>2. task' = [tasks EXCEPT ![r].at = "start"]
        BY <2>1 DEF Started
      <3>3. "start" \in Place
        BY DEF Place
      <3> HIDE DEF tasks
      <3> QED
        BY <3>1, <3>2, <3>3, MoveTask DEF Tasks, TaskRecord
    <2>5. Shape'
      BY <1>a, <2>1, <2>2, <2>4, InsertRing DEF Shape
    <2>6. assigned \in {NoRequest, r}
      BY <2>1, <2>3 DEF KnownInv, SentFresh
    <2>7. SentFresh'
      BY <2>1 DEF SentFresh
    <2>8. StoredStarted'
      <3>1. \A i \in Slot : proofs'[i].req = r \/ proofs'[i] = proofs[i]
        BY <1>a, <2>1, InsertRing
      <3>2. \A i \in Slot : proofs[i].req \in Request \cup {NoRequest}
        BY <1>a DEF ProofStatus
      <3> QED
        BY <2>4, <3>1, <3>2 DEF KnownInv, StoredStarted
    <2>9. AssignedKnown'
      <3>1. Stored(r)'
        BY <1>a, <2>1, InsertRing DEF Stored, SlotsOf
      <3> QED
        BY <2>1, <2>6, <3>1, ProofStoreAssumption DEF AssignedKnown
    <2> QED
      BY <2>5, <2>7, <2>8, <2>9 DEF KnownInv
  <1> QED
    BY <1>1, <1>2, <1>3, <1>4, <1>5 DEF Next

LEMMA InitKnown == Init => KnownInv
  <1> SUFFICES ASSUME Init PROVE KnownInv
    OBVIOUS
  <1>1. Unused \in ProofStatus /\ Unused.req = NoRequest
    <2>1. 0 \in 0..Done
      BY DEF Done
    <2> QED
      BY <2>1 DEF Unused, ProofStatus
  <1>2. NoTask \in TaskRecord /\ NoTask.at = "none"
    BY DEF NoTask, TaskRecord, Place
  <1>3. 0 \in Slot
    BY ProofStoreAssumption DEF Slot
  <1>4. /\ proofs \in [Slot -> ProofStatus] /\ \A i \in Slot : proofs[i].req = NoRequest
        /\ current_proof_index \in Slot
    BY <1>1, <1>3 DEF Init, StoreInit
  <1>5. task \in Tasks /\ \A r \in Request : task[r].at = "none"
    BY <1>2 DEF Init, Tasks
  <1>6. Shape
    BY <1>4, <1>5 DEF Init, Shape
  <1>7. SentFresh /\ StoredStarted /\ AssignedKnown
    BY <1>4, <1>5 DEF Init, SentFresh, StoredStarted, AssignedKnown
  <1> QED
    BY <1>6, <1>7 DEF KnownInv

(* The inductive invariant: the ring has no request twice, a request on    *)
(* its way is new, what is stored was taken up.                            *)
THEOREM ContemplantInvariant == Spec => []KnownInv
  BY InitKnown, StepKnown, PTL DEF Spec

(* Whatever the registry evicts and however often the link breaks, a       *)
(* contemplant that took up the request it is assigned still has it in its *)
(* ring, of any size: handle_proof_status_request never answers that it    *)
(* does not know it.                                                       *)
THEOREM KnowsItsRequest == Spec => []AssignedKnown
  <1>1. KnownInv => AssignedKnown
    BY DEF KnownInv
  <1> QED
    BY <1>1, ContemplantInvariant, PTL

-----------------------------------------------------------------------------
(* Proofs are serial as long as the registry does not evict a contemplant  *)
(* that is proving.                                                        *)

Working == {"start", "rebuild", "take", "prove", "report"}

(* The entry is busy with the request that is proved, or is on its way,    *)
(* and the status of that request is not final.                            *)
SerialInv ==
  /\ inflight # NoRequest => assigned = inflight
  /\ \A r \in Request : task[r].at \in Working =>
       /\ assigned = r
       /\ \A i \in Slot : proofs[i].req = r => proofs[i].exec = "unexecuted"

(* Steps that start nothing, and leave the status of what is proved.       *)
LEMMA KeepsSerial ==
  ASSUME SerialInv,
         inflight' \in {inflight, NoRequest}, assigned' = assigned,
         \A q \in Request : task'[q].at \in Working =>
           /\ task[q].at \in Working
           /\ \A i \in Slot : proofs'[i].req = q =>
                proofs[i].req = q /\ proofs'[i].exec = proofs[i].exec
  PROVE  SerialInv'
  BY DEF SerialInv

LEMMA StepSerial ==
  ASSUME ~Evictions, KnownInv, SerialInv, [Next]_vars
  PROVE  SerialInv'
  <1>a. /\ Shape
        /\ proofs \in [Slot -> ProofStatus] /\ task \in Tasks
        /\ \A i \in Slot : proofs[i].req \in Request \cup {NoRequest}
    BY DEF KnownInv, Shape, ProofStatus
  <1>1. CASE Connection \/ UNCHANGED vars
    <2>1. /\ UNCHANGED <<proofs, task, assigned>> /\ inflight' \in {inflight, NoRequest}
      BY <1>1 DEF Connection, register, verify_with_magister, verify_fails, connection_lost,
         reconnect, main_returns, Disconnect, vars, backends, hierophant, storeVars
    <2> QED
      BY <2>1, KeepsSerial
  <1>2. CASE evict
    <2>1. /\ inflight = NoRequest /\ inflight' = inflight
          /\ \A r \in Request : task[r].at \notin Working
          /\ UNCHANGED task
      BY <1>2 DEF evict, Unfinished, Working
    <2> QED
      BY <2>1 DEF SerialInv
  <1>3. ASSUME NEW r \in Request, get_proof_request_status(r) PROVE SerialInv'
    <2>1. /\ assigned = r /\ Stored(r) /\ GetProofStatus(r).exec # "unexecuted"
          /\ assigned' = NoRequest /\ UNCHANGED <<proofs, task, inflight>>
      BY <1>3 DEF get_proof_request_status, storeVars
    <2>2. First(r) \in Slot /\ proofs[First(r)].req = r /\ r # NoRequest
      BY <1>a, <2>1, FirstSlot, ProofStoreAssumption
    <2>3. task[r].at \notin Working
      BY <2>1, <2>2 DEF SerialInv, GetProofStatus
    <2>4. \A q \in Request : task[q].at \notin Working
      BY <2>1, <2>3 DEF SerialInv
    <2>5. task[r].at # "none"
      BY <2>2 DEF KnownInv, StoredStarted
    <2>6. inflight = NoRequest
      BY <2>1, <2>5 DEF SerialInv, KnownInv, SentFresh
    <2> QED
      BY <2>1, <2>4, <2>6 DEF SerialInv
  <1>4. ASSUME NEW r \in Request, try_assign(r) PROVE SerialInv'
    <2>1. /\ assigned = NoRequest /\ assigned' = r /\ inflight' \in {r, NoRequest}
          /\ UNCHANGED task
      BY <1>4 DEF try_assign
    <2>2. \A q \in Request : task[q].at \notin Working
      BY <2>1, ProofStoreAssumption DEF SerialInv
    <2> QED
      BY <2>1, <2>2 DEF SerialInv
  <1>5. ASSUME NEW r \in Request, execute_proof(r) PROVE SerialInv'
    <2>1. /\ inflight = r /\ inflight' = NoRequest /\ assigned' = assigned
          /\ InsertProof(r, progress_update(Unexecuted(r), Executing))
          /\ task' = Started(r)
      BY <1>5 DEF execute_proof
    <2>2. assigned = r /\ task[r].at = "none"
      BY <2>1, ProofStoreAssumption DEF SerialInv, KnownInv, SentFresh
    <2>3. \A q \in Request : task[q].at \notin Working
      BY <2>2 DEF SerialInv, Working
    <2>4. \A q \in Request \ {r} : task'[q].at = task[q].at
      <3> DEFINE tasks == IF child' = "none" THEN Severed(task) ELSE task
      <3>1. tasks \in Tasks /\ \A q \in Request : tasks[q].at = task[q].at
        BY <1>a, SeveredTasks
      <3>2. task' = [tasks EXCEPT ![r].at = "start"]
        BY <2>1 DEF Started
      <3>3. "start" \in Place
        BY DEF Place
      <3> HIDE DEF tasks
      <3> QED
        BY <3>1, <3>2, <3>3, MoveTask DEF Tasks, TaskRecord
    <2>5. \A i \in Slot : proofs'[i].req = r => proofs'[i].exec = "unexecuted"
      BY <1>a, <2>1, InsertRing
    <2> QED
      BY <2>1, <2>2, <2>3, <2>4, <2>5 DEF SerialInv
  <1>6. ASSUME NEW r \in Request, size_known(r) \/ report_size(r) PROVE SerialInv'
    <2>1. \A q \in Request : task'[q].at = task[q].at
      BY <1>6, <1>a, SizeMoves
    <2>2. inflight' = inflight /\ assigned' = assigned
          /\ \A i \in Slot : proofs'[i].req = proofs[i].req
      BY <1>6, <1>a, TaskStepRing
    <2>3. \A i \in Slot : proofs'[i].exec = proofs[i].exec
      BY <1>6, <1>a, ProgressRing DEF size_known, report_size, storeVars
    <2> QED
      BY <2>1, <2>2, <2>3, KeepsSerial
  <1>7. ASSUME NEW r \in Request, TaskStep(r) PROVE SerialInv'
    <2>1. TaskMoves(r) /\ inflight' = inflight /\ assigned' = assigned
          /\ \A i \in Slot : proofs'[i].req = proofs[i].req
      BY <1>7, <1>a, TaskStepMoves, TaskStepRing
    <2>2. CASE \/ start_sp1(r) \/ take_handle(r) \/ start_risc0(r) \/ start_openvm(r)
               \/ prove(r) \/ (build_sp1_active(r) /\ task[r].at = "rebuild")
      <3>1. task[r].at \in Working /\ proofs' = proofs
        BY <2>2 DEF start_sp1, take_handle, start_risc0, start_openvm, prove,
           build_sp1_active, storeVars, Working
      <3> QED
        BY <2>1, <3>1, KeepsSerial DEF TaskMoves
    <2>3. ASSUME task'[r].at \notin Working,
                 \A i \in Slot : proofs[i].req # r => proofs'[i] = proofs[i]
          PROVE  SerialInv'
      BY <2>1, <2>3, KeepsSerial DEF TaskMoves
    <2>4. CASE build_sp1_active(r) /\ task[r].at # "rebuild"
      <3>1. PICK at \in {"over", "panicked"} : Goto(r, at)
        BY <2>4 DEF build_sp1_active
      <3>2. proofs' = proofs
        BY <2>4 DEF build_sp1_active, storeVars
      <3> QED
        BY <1>a, <2>3, <3>1, <3>2 DEF Goto, Tasks, TaskRecord, Working
    <2>5. CASE report_proof(r)
      <3>1. Goto(r, "over") /\ \A i \in Slot : proofs[i].req # r => proofs'[i] = proofs[i]
        BY <2>5, <1>a, StatusRing DEF report_proof
      <3> QED
        BY <1>a, <2>3, <3>1 DEF Goto, Tasks, TaskRecord, Working
    <2>6. CASE report_error(r)
      <3>1. Goto(r, "over") /\ \A i \in Slot : proofs[i].req # r => proofs'[i] = proofs[i]
        BY <2>6, <1>a, StatusRing DEF report_error
      <3> QED
        BY <1>a, <2>3, <3>1 DEF Goto, Tasks, TaskRecord, Working
    <2>7. CASE report_death(r)
      <3>1. PICK at \in {"respawn", "over"} : Goto(r, at)
        BY <2>7 DEF report_death, CountDeath
      <3>2. \A i \in Slot : proofs[i].req # r => proofs'[i] = proofs[i]
        BY <2>7, <1>a, StatusRing DEF report_death
      <3> QED
        BY <1>a, <2>3, <3>1, <3>2 DEF Goto, Tasks, TaskRecord, Working
    <2> QED
      BY <1>7, <2>2, <2>4, <2>5, <2>6, <2>7 DEF TaskStep
  <1> QED
    BY <1>1, <1>2, <1>3, <1>4, <1>5, <1>6, <1>7 DEF Next

(* Without evictions in the middle of a proof, a contemplant is never      *)
(* given a proof while another is on its backends (execute_proof of        *)
(* proof_executor/mod.rs): reconnects, lost requests, dying backends and   *)
(* their restarts do not matter.                                           *)
THEOREM OneProofAtATime ==
  ASSUME ~Evictions
  PROVE  Spec => []SerialProofs
  <1>1. Init => SerialInv
    BY DEF Init, SerialInv, Working, NoTask
  <1>2. KnownInv /\ SerialInv /\ [Next]_vars => SerialInv'
    BY StepSerial
  <1>3. SerialInv => SerialProofs
    BY DEF SerialInv, SerialProofs, Working
  <1> QED
    BY <1>1, <1>2, <1>3, ContemplantInvariant, PTL DEF Spec

-----------------------------------------------------------------------------
(* What the ring says of a request.                                        *)

(* A status says executed exactly when it has the proof.                   *)
Sane == \A i \in Slot : proofs[i].exec = "executed" <=> proofs[i].proof

(* No slot that keeps its request goes back.                               *)
Forward ==
  \A i \in Slot :
    proofs'[i].req = proofs[i].req => proofs'[i].progress >= proofs[i].progress

LEMMA SettledForward ==
  ASSUME Shape, Sane, proofs' = proofs
  PROVE  Sane' /\ Forward
BY DEF Shape, Sane, Forward, ProofStatus, Done

LEMMA StatusForward ==
  ASSUME Shape, Sane, NEW r \in Request,
         NEW exec \in {"executed", "unexecutable"}, NEW proof \in BOOLEAN,
         exec = "executed" <=> proof, ProofStatusUpdate(r, exec, proof)
  PROVE  Sane' /\ Forward
  <1> DEFINE old == proofs[First(r)]
             new == status_update(old, exec, proof)
  <1>1. CASE Stored(r)
    <2>1. old \in ProofStatus /\ First(r) \in Slot
      BY <1>1, FirstSlot DEF Shape
    <2>2. new.exec = exec /\ new.proof = proof /\ new.progress >= old.progress
      <3> DEFINE p == IF proof THEN Done ELSE old.progress
      <3>1. p \in 0..Done /\ p >= old.progress
        BY <2>1 DEF ProofStatus, Done
      <3>2. new = [old EXCEPT !.exec = exec, !.proof = proof, !.progress = p]
        BY DEF status_update
      <3> HIDE DEF p, new, old
      <3> QED
        BY <2>1, <3>1, <3>2 DEF ProofStatus
    <2>3. proofs' = [proofs EXCEPT ![First(r)] = new]
      BY <1>1 DEF ProofStatusUpdate
    <2>4. \A i \in Slot : proofs[i].progress >= proofs[i].progress
      BY DEF Shape, ProofStatus, Done
    <2> HIDE DEF new
    <2> QED
      BY <2>1, <2>2, <2>3, <2>4 DEF Shape, Sane, Forward
  <1>2. CASE ~Stored(r)
    BY <1>2, SettledForward DEF ProofStatusUpdate
  <1> QED
    BY <1>1, <1>2

LEMMA ProgressForward ==
  ASSUME Shape, Sane, NEW r \in Request, NEW update \in {NoHistory, Proving},
         ProofProgressUpdate(r, update)
  PROVE  Sane' /\ Forward
  <1> DEFINE old == proofs[First(r)]
             new == progress_update(old, update)
  <1>1. CASE Stored(r)
    <2>1. old \in ProofStatus /\ First(r) \in Slot
      BY <1>1, FirstSlot DEF Shape
    <2>2. new.exec = old.exec /\ new.proof = old.proof /\ new.progress >= old.progress
      BY <2>1 DEF progress_update, ProofStatus, Done, NoHistory, Proving
    <2>3. proofs' = [proofs EXCEPT ![First(r)] = new]
      BY <1>1 DEF ProofProgressUpdate
    <2>4. \A i \in Slot : proofs[i].progress >= proofs[i].progress
      BY DEF Shape, ProofStatus, Done
    <2> HIDE DEF new
    <2> QED
      BY <2>1, <2>2, <2>3, <2>4 DEF Shape, Sane, Forward
  <1>2. CASE ~Stored(r)
    BY <1>2, SettledForward DEF ProofProgressUpdate
  <1> QED
    BY <1>1, <1>2

(* A request that is taken up is new: it takes the slot of another one.    *)
LEMMA InsertForward ==
  ASSUME KnownInv, Sane, NEW r \in Request, execute_proof(r)
  PROVE  Sane' /\ Forward
  <1> DEFINE new == progress_update(Unexecuted(r), Executing)
  <1>1. new.req = r /\ new.exec = "unexecuted" /\ new.proof = FALSE
    BY DEF progress_update, Unexecuted, Executing
  <1>2. ~Stored(r)
    <2>1. task[r].at = "none" /\ r # NoRequest
      BY ProofStoreAssumption DEF execute_proof, KnownInv, SentFresh
    <2> QED
      BY <2>1 DEF KnownInv, StoredStarted, Stored, SlotsOf
  <1>3. /\ proofs' = [proofs EXCEPT ![current_proof_index] = new]
        /\ current_proof_index \in Slot /\ proofs \in [Slot -> ProofStatus]
    BY <1>2 DEF execute_proof, InsertProof, KnownInv, Shape
  <1>4. \A i \in Slot : proofs[i].req # r /\ proofs[i].progress >= proofs[i].progress
    BY <1>2, <1>3 DEF Stored, SlotsOf, ProofStatus, Done
  <1> HIDE DEF new
  <1> QED
    BY <1>1, <1>3, <1>4 DEF Sane, Forward

LEMMA StepForward ==
  ASSUME KnownInv, Sane, [Next]_vars
  PROVE  Sane' /\ Forward
  <1>a. Shape
    BY DEF KnownInv
  <1>1. CASE proofs' = proofs
    BY <1>1, <1>a, SettledForward
  <1>2. ASSUME NEW r \in Request, report_proof(r) PROVE Sane' /\ Forward
    BY <1>2, <1>a, StatusForward DEF report_proof
  <1>3. ASSUME NEW r \in Request, report_error(r) \/ report_death(r)
        PROVE  Sane' /\ Forward
    BY <1>3, <1>a, StatusForward DEF report_error, report_death
  <1>4. ASSUME NEW r \in Request, report_size(r) PROVE Sane' /\ Forward
    BY <1>4, <1>a, ProgressForward DEF report_size
  <1>5. ASSUME NEW r \in Request, execute_proof(r) PROVE Sane' /\ Forward
    BY <1>5, InsertForward
  <1> QED
    BY <1>1, <1>2, <1>3, <1>4, <1>5
       DEF Next, Connection, TaskStep, vars, storeVars, register, verify_with_magister,
           verify_fails, connection_lost, reconnect, Disconnect, main_returns, try_assign,
           get_proof_request_status, evict, start_sp1, build_sp1_active, take_handle, start_risc0,
           start_openvm, prove, size_known

LEMMA AlwaysSane == Spec => []Sane
  <1>1. Init => Sane
    BY DEF Init, StoreInit, Sane, Unused
  <1>2. KnownInv /\ Sane /\ [Next]_vars => Sane'
    BY StepForward
  <1> QED
    BY <1>1, <1>2, ContemplantInvariant, PTL DEF Spec

(* ProgressUpdate only grows: neither a late size report of OpenVM nor the *)
(* final status takes the progress of a request back, and InsertProof      *)
(* never resets a request that is in the ring.                             *)
THEOREM ProgressGrows == Spec => ProgressMonotone
  <1>1. KnownInv /\ Sane /\ [Next]_vars => [Forward]_vars
    BY StepForward
  <1> QED
    BY <1>1, ContemplantInvariant, AlwaysSane, PTL DEF Spec, ProgressMonotone, Forward

-----------------------------------------------------------------------------
(* The rest of the process, and the entry in the registry: only requests   *)
(* of a zkVM that is served are on their way.                              *)
Configured ==
  /\ link \in {"down", "stray", "registering", "up", "over"}
  /\ serves \in Configs /\ running \in BOOLEAN /\ permit \in BOOLEAN
  /\ resident_vm \in serves \cup {"none"}
  /\ child \in {"none", "idle", "loaded"}
  /\ deaths \in [{"sp1", "openvm"} -> 0..MaxDeaths]
  /\ advertised \subseteq serves
  /\ inflight # NoRequest => VmOf[inflight] \in serves

LEMMA ResetCount ==
  ASSUME Configured, NEW vm, Reset(vm)
  PROVE  deaths' \in [{"sp1", "openvm"} -> 0..MaxDeaths]
  <1>1. 0 \in 0..MaxDeaths
    BY ContemplantAssumption
  <1> QED
    BY <1>1 DEF Configured, Reset

LEMMA DeathCount ==
  ASSUME Configured, NEW r \in Request, CountDeath(r)
  PROVE  deaths' \in [{"sp1", "openvm"} -> 0..MaxDeaths] /\ permit' \in BOOLEAN
  <1> DEFINE vm == VmOf[r]
             new == IF permanently_dead(vm) THEN deaths[vm] ELSE deaths[vm] + 1
  <1>1. deaths' = [deaths EXCEPT ![vm] = new]
    BY DEF CountDeath
  <1>2. vm \in {"sp1", "openvm"} => new \in 0..MaxDeaths
    BY ContemplantAssumption DEF Configured, permanently_dead
  <1>3. permit' \in BOOLEAN
    BY DEF Configured, CountDeath, notify_one
  <1> HIDE DEF new, vm
  <1> QED
    BY <1>1, <1>2, <1>3 DEF Configured

LEMMA TaskConfigured ==
  ASSUME Configured, NEW r \in Request, TaskStep(r) \/ size_known(r) \/ report_size(r)
  PROVE  Configured'
  <1>1. UNCHANGED <<link, serves, running, resident_vm, advertised, inflight>>
    BY DEF TaskStep, start_sp1, build_sp1_active, take_handle, start_risc0, start_openvm, prove,
       report_proof, report_error, report_death, size_known, report_size, others, process,
       hierophant
  <1>2. child' \in {"none", "idle", "loaded"}
    <2>1. child' \in {child, "none", "loaded"}
      BY DEF TaskStep, start_sp1, build_sp1_active, take_handle, start_risc0, start_openvm, prove,
         report_proof, report_error, report_death, size_known, report_size
    <2> QED
      BY <2>1 DEF Configured
  <1>3. deaths' \in [{"sp1", "openvm"} -> 0..MaxDeaths] /\ permit' \in BOOLEAN
    <2>1. CASE UNCHANGED <<deaths, permit>>
      BY <2>1 DEF Configured
    <2>2. CASE report_proof(r) \/ report_error(r)
      BY <2>2, ResetCount DEF Configured, report_proof, report_error, others
    <2>3. CASE report_death(r)
      BY <2>3, DeathCount DEF report_death
    <2> QED
      BY <2>1, <2>2, <2>3 DEF TaskStep, start_sp1, build_sp1_active, take_handle, start_risc0,
         start_openvm, prove, size_known, report_size, others
  <1> QED
    BY <1>1, <1>2, <1>3 DEF Configured

LEMMA StepConfigured == Configured /\ [Next]_vars => Configured'
  <1> SUFFICES ASSUME Configured, [Next]_vars PROVE Configured'
    OBVIOUS
  <1>1. CASE \/ Connection \/ evict \/ UNCHANGED vars
             \/ \E r \in Request : get_proof_request_status(r)
    <2>1. /\ UNCHANGED <<serves, resident_vm, child, deaths>>
          /\ inflight' \in {inflight, NoRequest}
      BY <1>1 DEF Connection, register, verify_with_magister, verify_fails, connection_lost,
         reconnect, main_returns, Disconnect, evict, get_proof_request_status, vars, backends,
         hierophant, process
    <2>2. /\ link' \in {link, "down", "stray", "registering", "up", "over"}
          /\ running' \in {running, FALSE} /\ permit' \in {permit, FALSE}
      BY <1>1 DEF Connection, register, verify_with_magister, verify_fails, connection_lost,
         reconnect, main_returns, Disconnect, Ended, evict, get_proof_request_status, vars,
         process
    <2>3. advertised' \in {advertised, supported_vms, {}}
      BY <1>1 DEF Connection, register, verify_with_magister, verify_fails, connection_lost,
         reconnect, main_returns, Disconnect, evict, get_proof_request_status, vars, hierophant
    <2> QED
      BY <2>1, <2>2, <2>3 DEF Configured, supported_vms
  <1>2. ASSUME NEW r \in Request, try_assign(r) PROVE Configured'
    BY <1>2 DEF try_assign, Configured, process, backends
  <1>3. ASSUME NEW r \in Request, execute_proof(r) PROVE Configured'
    <2>1. /\ VmOf[r] \in serves /\ inflight' = NoRequest /\ resident_vm' = VmOf[r]
          /\ child' \in {child, "none"}
          /\ UNCHANGED <<link, serves, running, permit, deaths, advertised>>
      BY <1>3, ProofStoreAssumption DEF execute_proof, release_gpu, Configured, process
    <2> QED
      BY <2>1 DEF Configured
  <1> QED
    BY <1>1, <1>2, <1>3, TaskConfigured DEF Next

(* Type correctness; in particular a status in the ring says executed      *)
(* exactly when it carries the proof, as ContemplantProofStatus is read on *)
(* the other side, no request has two slots, and only backends that the    *)
(* contemplant is configured with are made resident.                       *)
THEOREM TypeCorrect == Spec => []TypeOK
  <1>1. Init => Configured
    <2> SUFFICES ASSUME Init PROVE Configured
      OBVIOUS
    <2>1. 0 \in 0..MaxDeaths
      BY ContemplantAssumption
    <2> QED
      BY <2>1 DEF Init, Configured
  <1>2. KnownInv /\ Sane /\ Configured => TypeOK
    BY DEF KnownInv, Shape, Sane, Configured, TypeOK, Tasks, TaskRecord, Place
  <1> QED
    BY <1>1, <1>2, StepConfigured, ContemplantInvariant, AlwaysSane, PTL DEF Spec

-----------------------------------------------------------------------------
(* While proofs are serial the backend of the task that works is resident. *)
HotInv ==
  /\ KeysOnlyWhenHot
  /\ \A r \in Request : task[r].at \in Working => resident_vm = VmOf[r]

LEMMA StepHot ==
  ASSUME KnownInv, SerialInv, HotInv, [Next]_vars
  PROVE  HotInv'
  <1>a. Shape /\ task \in Tasks
    BY DEF KnownInv, Shape
  <1>1. CASE UNCHANGED <<task, resident_vm, child>>
    BY <1>1 DEF HotInv, KeysOnlyWhenHot
  <1>2. ASSUME NEW r \in Request, execute_proof(r) PROVE HotInv'
    <2>1. /\ inflight = r /\ task' = Started(r) /\ resident_vm' = VmOf[r]
          /\ IF resident_vm \in {"none", VmOf[r]} THEN child' = child
                ELSE child' = IF resident_vm = "openvm" THEN "none" ELSE child
      BY <1>2 DEF execute_proof, release_gpu
    <2>2. assigned = r /\ task[r].at = "none"
      BY <2>1, ProofStoreAssumption DEF SerialInv, KnownInv, SentFresh
    <2>3. \A q \in Request : task[q].at \notin Working
      BY <2>2 DEF SerialInv, Working
    <2>4. \A q \in Request \ {r} : task'[q].at = task[q].at
      <3> DEFINE tasks == IF child' = "none" THEN Severed(task) ELSE task
      <3>1. tasks \in Tasks /\ \A q \in Request : tasks[q].at = task[q].at
        BY <1>a, SeveredTasks
      <3>2. task' = [tasks EXCEPT ![r].at = "start"]
        BY <2>1 DEF Started
      <3>3. "start" \in Place
        BY DEF Place
      <3> HIDE DEF tasks
      <3> QED
        BY <3>1, <3>2, <3>3, MoveTask DEF Tasks, TaskRecord
    <2>5. KeysOnlyWhenHot'
      BY <2>1 DEF HotInv, KeysOnlyWhenHot
    <2> QED
      BY <2>1, <2>3, <2>4, <2>5 DEF HotInv
  <1>3. ASSUME NEW r \in Request, size_known(r) \/ report_size(r) PROVE HotInv'
    <2>1. \A q \in Request : task'[q].at = task[q].at
      BY <1>3, <1>a, SizeMoves
    <2>2. UNCHANGED <<resident_vm, child>>
      BY <1>3 DEF size_known, report_size, others
    <2> QED
      BY <2>1, <2>2 DEF HotInv, KeysOnlyWhenHot
  <1>4. ASSUME NEW r \in Request, TaskStep(r) PROVE HotInv'
    <2>1. TaskMoves(r) /\ resident_vm' = resident_vm
      BY <1>4, <1>a, TaskStepMoves DEF TaskStep, start_sp1, build_sp1_active, take_handle, start_risc0,
         start_openvm, prove, report_proof, report_error, report_death, others
    <2>2. task'[r].at \in Working => task[r].at \in Working
      <3>1. CASE task[r].at \in Working
        BY <3>1
      <3>2. CASE task[r].at \notin Working
        <4>1. PICK at \in {"over", "panicked"} : task' = Moved(task, r, at, "none")
          BY <1>4, <3>2 DEF TaskStep, start_sp1, build_sp1_active, take_handle, start_risc0,
             start_openvm, prove, report_proof, report_error, report_death, Working, Goto, Moved
        <4>2. at \in Place /\ "none" \in Outcome
          BY DEF Place, Outcome
        <4> QED
          BY <1>a, <4>1, <4>2, MoveTaskGot DEF Working
      <3> QED
        BY <3>1, <3>2
    <2>3. child' \in {child, "none"}
          \/ (task[r].at = "start" /\ VmOf[r] = "openvm")
      BY <1>4 DEF TaskStep, start_sp1, build_sp1_active, take_handle, start_risc0, start_openvm, prove,
         report_proof, report_error, report_death
    <2>4. KeysOnlyWhenHot'
      BY <2>1, <2>3 DEF HotInv, KeysOnlyWhenHot, Working
    <2> QED
      BY <2>1, <2>2, <2>4 DEF HotInv, TaskMoves
  <1> QED
    BY <1>1, <1>2, <1>3, <1>4
       DEF Next, Connection, vars, backends, register, verify_with_magister,
           verify_fails, connection_lost, reconnect, Disconnect, main_returns, try_assign,
           get_proof_request_status, evict

(* Without evictions in the middle of a proof, the keys that OpenVM holds  *)
(* in GPU memory are gone before another zkVM proves: release_gpu is       *)
(* called for the backend that was hot whenever resident_vm changes.       *)
THEOREM KeysEvicted ==
  ASSUME ~Evictions
  PROVE  Spec => []KeysOnlyWhenHot
  <1>1. Init => SerialInv /\ HotInv
    BY DEF Init, SerialInv, HotInv, KeysOnlyWhenHot, Working, NoTask
  <1>2. KnownInv /\ SerialInv /\ [Next]_vars => SerialInv'
    BY StepSerial
  <1>3. KnownInv /\ SerialInv /\ HotInv /\ [Next]_vars => HotInv'
    BY StepHot
  <1>4. HotInv => KeysOnlyWhenHot
    BY DEF HotInv
  <1> QED
    BY <1>1, <1>2, <1>3, <1>4, ContemplantInvariant, PTL DEF Spec

-----------------------------------------------------------------------------
LEMMA StepWarm ==
  ASSUME ~Evictions, KnownInv, SerialInv, ProverWarm, [Next]_vars
  PROVE  ProverWarm'
  <1>a. Shape /\ task \in Tasks
    BY DEF KnownInv, Shape
  <1>1. CASE UNCHANGED <<task, sp1>>
    BY <1>1 DEF ProverWarm
  <1>2. ASSUME NEW r \in Request, execute_proof(r) PROVE ProverWarm'
    <2>1. inflight = r /\ task' = Started(r)
      BY <1>2 DEF execute_proof
    <2>2. assigned = r /\ task[r].at = "none"
      BY <2>1, ProofStoreAssumption DEF SerialInv, KnownInv, SentFresh
    <2>3. \A q \in Request : task[q].at # "take"
      BY <2>2 DEF SerialInv, Working
    <2>4. \A q \in Request : task'[q].at # "take"
      <3> DEFINE tasks == IF child' = "none" THEN Severed(task) ELSE task
      <3>1. tasks \in Tasks /\ \A q \in Request : tasks[q].at = task[q].at
        BY <1>a, SeveredTasks
      <3>2. task' = [tasks EXCEPT ![r].at = "start"]
        BY <2>1 DEF Started
      <3>3. "start" \in Place
        BY DEF Place
      <3> HIDE DEF tasks
      <3> QED
        BY <2>3, <3>1, <3>2, <3>3, MoveTask DEF Tasks, TaskRecord
    <2> QED
      BY <2>4 DEF ProverWarm
  <1>3. ASSUME NEW r \in Request, size_known(r) \/ report_size(r) PROVE ProverWarm'
    <2>1. \A q \in Request : task'[q].at = task[q].at
      BY <1>3, <1>a, SizeMoves
    <2> QED
      BY <1>3, <2>1 DEF ProverWarm, size_known, report_size
  <1>4. ASSUME NEW r \in Request, TaskStep(r) PROVE ProverWarm'
    <2>1. \A q \in Request \ {r} : task'[q].at = task[q].at
      BY <1>4, <1>a, TaskStepMoves DEF TaskMoves
    <2>2. sp1' = "cold" => sp1 = "cold"
      BY <1>4 DEF TaskStep, start_sp1, build_sp1_active, take_handle, start_risc0,
         start_openvm, prove, report_proof, report_error, report_death
    <2>3. task'[r].at = "take" /\ sp1' = "cold" => r \in Mock
      <3>1. CASE start_sp1(r)
        BY <1>a, <3>1 DEF start_sp1, Goto, Tasks, TaskRecord
      <3>2. CASE build_sp1_active(r)
        BY <1>a, <3>2 DEF build_sp1_active, Goto, Tasks, TaskRecord
      <3>3. CASE take_handle(r)
        BY <1>a, <3>3 DEF take_handle, Goto, Tasks, TaskRecord
      <3>4. CASE start_risc0(r) \/ start_openvm(r) \/ prove(r)
        <4>1. PICK at \in {"prove", "report"}, got \in Outcome,
                   tasks \in {task, Severed(task)} : task' = Moved(tasks, r, at, got)
          BY <3>4 DEF start_risc0, start_openvm, prove, Goto, Moved, Outcome
        <4>2. tasks \in Tasks /\ at \in Place
          BY <1>a, SeveredTasks DEF Place
        <4> QED
          BY <4>1, <4>2, MoveTaskGot
      <3>5. CASE report_proof(r) \/ report_error(r) \/ report_death(r)
        <4>1. PICK at \in {"respawn", "over"} : Goto(r, at)
          BY <3>5 DEF report_proof, report_error, report_death, CountDeath
        <4> QED
          BY <1>a, <4>1 DEF Goto, Tasks, TaskRecord
      <3> QED
        BY <1>4, <3>1, <3>2, <3>3, <3>4, <3>5 DEF TaskStep
    <2> QED
      BY <2>1, <2>2, <2>3 DEF ProverWarm
  <1> QED
    BY <1>1, <1>2, <1>3, <1>4
       DEF Next, Connection, vars, backends, register, verify_with_magister,
           verify_fails, connection_lost, reconnect, Disconnect, main_returns, try_assign,
           get_proof_request_status, evict

(* Without evictions in the middle of a proof, no request for another zkVM *)
(* evicts the SP1 prover between the write of a prover that was built      *)
(* again, or the look that found it warm, and the clone of its handle      *)
(* (sp1_executor.rs): the arms marked unreachable are, because the         *)
(* registry dispatches one proof at a time.                                *)
THEOREM NeverCold ==
  ASSUME ~Evictions
  PROVE  Spec => []ProverWarm
  <1>1. Init => SerialInv /\ ProverWarm
    BY DEF Init, SerialInv, ProverWarm, Working, NoTask
  <1>2. KnownInv /\ SerialInv /\ [Next]_vars => SerialInv'
    BY StepSerial
  <1>3. KnownInv /\ SerialInv /\ ProverWarm /\ [Next]_vars => ProverWarm'
    BY StepWarm
  <1> QED
    BY <1>1, <1>2, <1>3, ContemplantInvariant, PTL DEF Spec
=============================================================================
