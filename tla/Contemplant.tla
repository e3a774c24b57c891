---------------------------- MODULE Contemplant ----------------------------
(***************************************************************************)
(* A contemplant (src/contemplant): its connection to the Hierophant, the  *)
(* dispatch of proof requests to the zkVM executors, the proving tasks,    *)
(* the GPU backends and the demotion of a backend that keeps dying; with   *)
(* what the registry knows of this one contemplant.  A step of a proving   *)
(* task ends where it waits: for a backend, a blocking thread or the lock  *)
(* of the SP1 prover, or for the status store once the status is set.      *)
(***************************************************************************)
EXTENDS ProofStore

CONSTANTS
  VmOf,        \* [Request -> "sp1", "risc0" or "openvm"]
  Mock,        \* the SP1 requests that ask for a mock proof
  Configs,     \* possible [[provers]] entries: sets of zkVMs, sp1 on CUDA
  MaxDeaths,   \* MAX_CONSECUTIVE_CUDA_DEATHS, MAX_CONSECUTIVE_WORKER_DEATHS
  Evictions    \* whether the registry evicts a contemplant that is proving

ASSUME ContemplantAssumption ==
  /\ VmOf \in [Request -> UNION Configs]
  /\ \A r \in Mock : r \in Request /\ VmOf[r] = "sp1"
  /\ Configs \subseteq SUBSET {"sp1", "risc0", "openvm"} \ {{}}
  /\ MaxDeaths \in Nat \ {0}
  /\ Evictions \in BOOLEAN

VARIABLES
  serves,       \* the zkVMs this contemplant is configured with
  link,         \* the connection loop: down, stray, registering, up, over
  running,      \* main has not returned
  permit,       \* a notification stored in WorkerState.reconnect
  resident_vm,
  sp1,          \* ActiveSp1Prover: cold, or its server alive or dead
  child,        \* the openvm-worker process: none, idle, loaded with keys
  deaths,       \* cuda_deaths and worker_deaths
  task,         \* the proving task of each request
  advertised,   \* the registry: zkVMs of the entry, {} when there is none
  assigned,     \* the registry: what the entry is busy with
  inflight      \* a ProofRequest on its way

backends == <<resident_vm, sp1, child, deaths>>
hierophant == <<advertised, assigned, inflight>>
process == <<serves, running>>
vars == <<proofs, current_proof_index, link, process, permit, backends, task,
          hierophant>>

NoTask == [at |-> "none", got |-> "none", size |-> "unknown"]

(* Messages are read: by the tasks of the connection, or by those a failed *)
(* verify_with_magister has left behind.                                   *)
Live == link \in {"stray", "registering", "up"}

Unfinished(r) == task[r].at \notin {"none", "over", "panicked"}

Init ==
  /\ StoreInit
  /\ serves \in Configs
  /\ link = "down" /\ running = TRUE /\ permit = FALSE
  /\ resident_vm = "none"
  /\ sp1 = IF "sp1" \in serves THEN "alive" ELSE "cold"
  /\ child = IF "openvm" \in serves THEN "idle" ELSE "none"
  /\ deaths = [vm \in {"sp1", "openvm"} |-> 0]
  /\ task = [r \in Request |-> NoTask]
  /\ advertised = {} /\ assigned = NoRequest /\ inflight = NoRequest

permanently_dead(vm) == vm \in {"sp1", "openvm"} /\ deaths[vm] >= MaxDeaths

supported_vms == {vm \in serves : ~permanently_dead(vm)}

-----------------------------------------------------------------------------
(* The connection loop.  The entry of the same process keeps its job.      *)
register ==
  /\ link \in {"down", "stray"}
  /\ link' = "registering"
  /\ advertised' = supported_vms
  /\ UNCHANGED <<storeVars, process, permit, backends, task, assigned, inflight>>

verify_with_magister ==
  /\ link = "registering"
  /\ link' = "up"
  /\ UNCHANGED <<storeVars, process, permit, backends, task, hierophant>>

(* With nothing left to offer there is no other connection.                *)
Ended == IF supported_vms = {} THEN "over" ELSE "down"

(* A connection ends, and what was on its way is lost with its tasks.      *)
Disconnect(to) ==
  /\ link' = to
  /\ inflight' = IF to = "stray" THEN inflight ELSE NoRequest
  /\ UNCHANGED <<storeVars, process, backends, task, advertised, assigned>>

connection_lost ==
  /\ Live
  /\ Disconnect(IF link = "stray" THEN "down" ELSE Ended)
  /\ UNCHANGED permit

(* The early return: the tasks of the connection are not aborted.          *)
verify_fails ==
  /\ link = "registering"
  /\ Disconnect(IF Ended = "down" THEN "stray" ELSE Ended)
  /\ UNCHANGED permit

(* The stored notification of a capability change.                         *)
reconnect == link = "up" /\ permit /\ permit' = FALSE /\ Disconnect(Ended)

(* The end of the connection thread ends main.                             *)
main_returns ==
  /\ link = "over"
  /\ running
  /\ running' = FALSE
  /\ UNCHANGED <<storeVars, serves, link, permit, backends, task, hierophant>>

-----------------------------------------------------------------------------
(* The registry.  A request sent to a dead connection is lost.             *)
try_assign(r) ==
  /\ assigned = NoRequest
  /\ task[r] = NoTask
  /\ VmOf[r] \in advertised
  /\ assigned' = r
  /\ inflight' = IF Live THEN r ELSE NoRequest
  /\ UNCHANGED <<storeVars, link, process, permit, backends, task, advertised>>

(* Faulty variant: any answer frees the entry.                             *)
free_on_any_answer(r) ==
  /\ Live
  /\ assigned = r
  /\ Stored(r)
  /\ assigned' = NoRequest
  /\ UNCHANGED <<storeVars, link, process, permit, backends, task,
                 advertised, inflight>>

(* A poll reaches the contemplant and finds the proof, or that there is    *)
(* none: the entry is free again.                                          *)
get_proof_request_status(r) ==
  /\ Live
  /\ assigned = r
  /\ Stored(r)
  /\ GetProofStatus(r).exec # "unexecuted"
  /\ assigned' = NoRequest
  /\ UNCHANGED <<storeVars, link, process, permit, backends, task,
                 advertised, inflight>>

(* Heartbeat, progress or proof timeout.                                   *)
evict ==
  /\ advertised # {} \/ assigned # NoRequest
  /\ Evictions \/ (inflight = NoRequest /\ \A r \in Request : ~Unfinished(r))
  /\ advertised' = {}
  /\ assigned' = NoRequest
  /\ UNCHANGED <<storeVars, link, process, permit, backends, task, inflight>>

-----------------------------------------------------------------------------
(* Faulty variant: the backend that was hot is left alone.                 *)
release_nothing(vm) == UNCHANGED <<sp1, child>>

(* Dropping the CUDA prover, killing the openvm-worker, or nothing.  A     *)
(* task that proves on the CUDA prover keeps its own handle on it.         *)
release_gpu(vm) ==
  /\ sp1' = IF vm = "sp1" THEN "cold" ELSE sp1
  /\ child' = IF vm = "openvm" THEN "none" ELSE child

(* The calls to an openvm-worker that is killed fail.                      *)
Severed(tasks) ==
  [q \in Request |-> IF VmOf[q] = "openvm" /\ tasks[q].at = "prove"
                     THEN [tasks[q] EXCEPT !.got = "dead"] ELSE tasks[q]]

Started(r) ==
  [(IF child' = "none" THEN Severed(task) ELSE task) EXCEPT ![r].at = "start"]

(* Faulty variant: the request is left to its task to store.               *)
execute_proof_unstored(r) ==
  /\ Live
  /\ inflight = r
  /\ inflight' = NoRequest
  /\ IF resident_vm \in {"none", VmOf[r]} THEN UNCHANGED <<sp1, child>>
                                         ELSE release_gpu(resident_vm)
  /\ resident_vm' = VmOf[r]
  /\ task' = Started(r)
  /\ UNCHANGED <<storeVars, link, process, permit, deaths, advertised, assigned>>

(* A request for another zkVM than the hot one evicts that first.          *)
execute_proof(r) ==
  /\ Live
  /\ inflight = r
  /\ inflight' = NoRequest
  /\ IF resident_vm \in {"none", VmOf[r]} THEN UNCHANGED <<sp1, child>>
                                         ELSE release_gpu(resident_vm)
  /\ resident_vm' = VmOf[r]
  /\ InsertProof(r, progress_update(Unexecuted(r), Executing))
  /\ task' = Started(r)
  /\ UNCHANGED <<link, process, permit, deaths, advertised, assigned>>

others == <<link, process, permit, resident_vm, hierophant>>

Goto(r, at) == task' = [task EXCEPT ![r].at = at, ![r].got = "none"]

(* The SP1 task builds a backend that is cold; the mock prover needs none. *)
start_sp1(r) ==
  /\ task[r].at = "start"
  /\ VmOf[r] = "sp1"
  /\ Goto(r, IF sp1 = "cold" /\ r \notin Mock THEN "rebuild" ELSE "take")
  /\ UNCHANGED <<storeVars, sp1, child, deaths, others>>

(* build_sp1_active before a proof, or after the backend died, and the     *)
(* write of what was built; the SDK may panic instead and end the task.    *)
build_sp1_active(r) ==
  /\ task[r].at \in {"rebuild", "respawn"}
  /\ \/ sp1' = "alive" /\ Goto(r, IF task[r].at = "rebuild" THEN "take" ELSE "over")
     \/ sp1' = sp1 /\ Goto(r, "panicked")
  /\ UNCHANGED <<storeVars, child, deaths, others>>

(* The handle is cloned under the lock; with an evicted prover the task    *)
(* panics.                                                                 *)
take_handle(r) ==
  /\ task[r].at = "take"
  /\ IF sp1 = "cold" /\ r \notin Mock
     THEN Goto(r, "panicked")
     ELSE task' = [task EXCEPT ![r].at = "prove", ![r].got = sp1]
  /\ UNCHANGED <<storeVars, sp1, child, deaths, others>>

start_risc0(r) ==
  /\ task[r].at = "start"
  /\ VmOf[r] = "risc0"
  /\ Goto(r, "prove")
  /\ UNCHANGED <<storeVars, sp1, child, deaths, others>>

(* call_blocking starts the openvm-worker when it does not run; proving    *)
(* makes it load its keys.  It may fail to start.                          *)
start_openvm(r) ==
  /\ task[r].at = "start"
  /\ VmOf[r] = "openvm"
  /\ \/ child' = "loaded" /\ task' = [task EXCEPT ![r].at = "prove", ![r].got = "alive"]
     \/ child' = "none" /\ task' = [Severed(task) EXCEPT ![r].at = "report", ![r].got = "death"]
  /\ UNCHANGED <<storeVars, sp1, deaths, others>>

(* The size of the proof becomes known, where it is computed.  SP1 and     *)
(* RISC Zero report it before they prove, OpenVM from a task of its own.   *)
size_known(r) ==
  /\ task[r].at = "prove"
  /\ task[r].size = "unknown"
  /\ r \notin Mock
  /\ task' = [task EXCEPT ![r].size = "known"]
  /\ UNCHANGED <<storeVars, sp1, child, deaths, others>>

report_size(r) ==
  /\ task[r].size = "known"
  /\ task' = [task EXCEPT ![r].size = "reported"]
  /\ \E update \in {NoHistory, Proving} : ProofProgressUpdate(r, update)
  /\ UNCHANGED <<sp1, child, deaths, others>>

(* Proving ends: a proof, an error of the request, or the backend dies.    *)
(* A backend that is dead already leaves only the last.                    *)
prove(r) ==
  /\ task[r].at = "prove"
  /\ VmOf[r] = "openvm" \/ task[r].size # "known"
  /\ \E got \in {"proof", "error", "death"} :
       /\ VmOf[r] = "risc0" \/ r \in Mock => got # "death"
       /\ task[r].got = "dead" /\ r \notin Mock => got = "death"
       /\ sp1' = IF VmOf[r] = "sp1" /\ got = "death" /\ sp1 # "cold" THEN "dead" ELSE sp1
       /\ child' = IF VmOf[r] = "openvm" /\ got = "death" THEN "none" ELSE child
       /\ task' = [(IF child' = "none" THEN Severed(task) ELSE task)
                     EXCEPT ![r].at = "report", ![r].got = got]
  /\ UNCHANGED <<storeVars, deaths, others>>

Reset(vm) == deaths' = [v \in DOMAIN deaths |-> IF v = vm THEN 0 ELSE deaths[v]]

report_proof(r) ==
  /\ task[r].at = "report" /\ task[r].got = "proof"
  /\ Reset(VmOf[r])
  /\ ProofStatusUpdate(r, "executed", TRUE)
  /\ Goto(r, "over")
  /\ UNCHANGED <<sp1, child, others>>

(* An answer from a live openvm-worker counts as a sign of life.           *)
report_error(r) ==
  /\ task[r].at = "report" /\ task[r].got = "error"
  /\ IF VmOf[r] = "openvm" THEN Reset("openvm") ELSE UNCHANGED deaths
  /\ ProofStatusUpdate(r, "unexecutable", FALSE)
  /\ Goto(r, "over")
  /\ UNCHANGED <<sp1, child, others>>

(* Faulty variant: only a connection that waits is told.                   *)
notify_waiters == permit' = (permit \/ link = "up")

(* Notify: the notification is kept until a connection takes it.           *)
notify_one == permit' = TRUE

(* The count saturates: only reaching the cap is ever tested.  SP1 tells   *)
(* the connection of every death past the cap, OpenVM of the first.        *)
CountDeath(r) ==
  LET vm == VmOf[r]
      n == deaths[vm] + 1
  IN
  /\ deaths' = [deaths EXCEPT ![vm] = IF permanently_dead(vm) THEN @ ELSE n]
  /\ IF n >= MaxDeaths /\ (vm = "sp1" \/ ~permanently_dead(vm))
     THEN notify_one ELSE UNCHANGED permit
  /\ Goto(r, IF vm = "sp1" /\ n < MaxDeaths THEN "respawn" ELSE "over")

(* Faulty variant: a death is counted, the request's status is not set.    *)
report_death_nowhere(r) ==
  /\ task[r].at = "report" /\ task[r].got = "death"
  /\ CountDeath(r)
  /\ UNCHANGED <<storeVars, sp1, child, link, process, resident_vm, hierophant>>

(* The status is set before the backend is built again: the next request   *)
(* may come in between.                                                    *)
report_death(r) ==
  /\ task[r].at = "report" /\ task[r].got = "death"
  /\ ProofStatusUpdate(r, "unexecutable", FALSE)
  /\ CountDeath(r)
  /\ UNCHANGED <<sp1, child, link, process, resident_vm, hierophant>>

TaskStep(r) ==
  \/ start_sp1(r) \/ build_sp1_active(r) \/ take_handle(r)
  \/ start_risc0(r) \/ start_openvm(r)
  \/ prove(r) \/ report_proof(r) \/ report_error(r) \/ report_death(r)

Connection ==
  \/ register \/ verify_with_magister \/ verify_fails \/ connection_lost
  \/ reconnect \/ main_returns

Next ==
  \/ running /\ Connection
  \/ \E r \in Request : try_assign(r)
  \/ running /\ \E r \in Request : get_proof_request_status(r) \/ execute_proof(r)
  \/ evict
  \/ running /\ \E r \in Request : TaskStep(r) \/ size_known(r) \/ report_size(r)

Spec == Init /\ [][Next]_vars

(* Tasks are scheduled, proving ends, the Hierophant can be reached.       *)
FairSpec ==
  /\ Spec
  /\ WF_vars(running /\ register)
  /\ WF_vars(running /\ verify_with_magister)
  /\ WF_vars(running /\ reconnect) /\ WF_vars(main_returns)
  /\ \A r \in Request :
       WF_vars(running /\ TaskStep(r)) /\ WF_vars(running /\ report_size(r))

-----------------------------------------------------------------------------
(* Type invariant; a status says executed exactly when it has the proof,   *)
(* as the conversion on the Hierophant's side takes for granted, and no    *)
(* request has two slots.                                                  *)
TypeOK ==
  /\ proofs \in [Slot -> ProofStatus]
  /\ current_proof_index \in Slot
  /\ \A i \in Slot : proofs[i].exec = "executed" <=> proofs[i].proof
  /\ \A i, j \in Slot : i # j /\ proofs[i].req # NoRequest => proofs[i].req # proofs[j].req
  /\ link \in {"down", "stray", "registering", "up", "over"}
  /\ serves \in Configs /\ running \in BOOLEAN /\ permit \in BOOLEAN
  /\ resident_vm \in serves \cup {"none"}
  /\ sp1 \in {"alive", "dead", "cold"} /\ child \in {"none", "idle", "loaded"}
  /\ deaths \in [{"sp1", "openvm"} -> 0..MaxDeaths]
  /\ task \in [Request ->
       [at : {"none", "start", "rebuild", "take", "prove", "report", "respawn",
              "over", "panicked"},
        got : {"none", "alive", "dead", "cold", "proof", "error", "death"},
        size : {"unknown", "known", "reported"}]]
  /\ advertised \subseteq serves
  /\ assigned \in Request \cup {NoRequest} /\ inflight \in Request \cup {NoRequest}

(* Whatever reconnects and evictions come in between, a contemplant that   *)
(* has taken up the request it is assigned never answers that it does not  *)
(* know it, even with room for one proof: the Hierophant would give it up. *)
AssignedKnown ==
  \A r \in Request : assigned = r /\ task[r].at # "none" => Stored(r)

(* The progress reported of a request never goes back, although a late     *)
(* size report of OpenVM may come after the proof.                         *)
ProgressMonotone ==
  [][\A i \in Slot :
       proofs'[i].req = proofs[i].req => proofs'[i].progress >= proofs[i].progress]_vars

(* Proofs are serial: the Hierophant never has a contemplant prove two at  *)
(* a time.                                                                 *)
SerialProofs ==
  \A r, q \in Request :
    task[r].at = "prove" /\ task[q].at = "prove" => r = q

(* Between the moment a task finds or makes the SP1 prover warm and the    *)
(* moment it clones its handle, under a second lock, no request for        *)
(* another zkVM evicts it: the arms marked unreachable stay so.  Nothing   *)
(* but the serial dispatch of the registry keeps execute_proof from coming *)
(* in between.                                                             *)
ProverWarm ==
  \A r \in Request : task[r].at = "take" /\ sp1 = "cold" => r \in Mock

(* The proving keys of OpenVM are in GPU memory only while OpenVM is the   *)
(* resident zkVM.                                                          *)
KeysOnlyWhenHot == child = "loaded" => resident_vm = "openvm"

(* With nothing left to offer the process stays, without a connection.     *)
Parks == link = "over" => running

(* A zkVM whose backend is given up is withdrawn from the registry, also   *)
(* when its last death comes while the contemplant is reconnecting.        *)
DemotionAdvertised ==
  \A vm \in {"sp1", "openvm"} :
    permanently_dead(vm) ~> vm \notin advertised \/ ~permanently_dead(vm) \/ ~running

(* Every request that is taken up gets a final status in the store, unless *)
(* younger ones have pushed it out or its task panicked in the SDK.        *)
TaskSettles ==
  \A r \in Request :
    task[r].at = "start" ~>
      \/ ~running \/ task[r].at = "panicked"
      \/ ~Stored(r) \/ GetProofStatus(r).exec # "unexecuted"
=============================================================================
