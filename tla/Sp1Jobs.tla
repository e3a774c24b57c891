------------------------------ MODULE Sp1Jobs ------------------------------
(***************************************************************************)
(* The SP1 front end of the Hierophant                                     *)
(* (src/hierophant/src/api/grpc/prover_network_service.rs): request_proof, *)
(* the task that first downloads circuit artifacts where the proof mode    *)
(* needs them, and get_proof_request_status.  Every lock, channel or disk  *)
(* access that a handler awaits is a step of its own.                      *)
(***************************************************************************)
EXTENDS ProofRouter

CONSTANTS
  CircuitOf,  \* the circuit artifacts the mode of each request needs
  Call,       \* status calls that are served at the same time
  NoRequest

Circuit == {"groth16", "plonk"}

ASSUME Sp1Assumption ==
  CircuitOf \in [Request -> Circuit \cup {"none"}] /\ NoRequest \notin Request

VARIABLES
  intake,   \* where request_proof is with each request
  task,     \* where its download task is
  marked,   \* proofs_pending_artifacts
  ready,    \* the circuits whose artifacts are complete on disk
  saved,    \* the requests whose proof has a file in the artifact store
  call,     \* where each status call is
  faulted   \* the status calls during which the disk has failed

vars == <<reg, result, intake, task, marked, ready, saved, call, faulted>>

Intake == {"new", "route", "record", "accepted", "refused"}
Task == {"none", "download", "route", "unmark", "over"}
At == {"idle", "marked?", "saved?", "ask", "asked", "verdict", "save", "answered"}
NoCall == [job |-> NoRequest, at |-> "idle", got |-> "none"]

(* Circuits may have been installed by an earlier run of the program.      *)
Init ==
  /\ RouterInit
  /\ intake = [r \in Request |-> "new"]
  /\ task = [r \in Request |-> "none"]
  /\ marked = {}
  /\ ready \in SUBSET Circuit
  /\ saved = {}
  /\ call = [c \in Call |-> NoCall]
  /\ faulted = {}

-----------------------------------------------------------------------------
(* Faulty variant: the artifacts of either circuit will do.                *)
check_any_ready(r) == CircuitOf[r] = "none" \/ ready # {}

(* The directory of the mode's own circuit is looked at.                   *)
check_artifacts_ready(r) == CircuitOf[r] \in ready \cup {"none"}

(* request_proof for a known program: route now, or mark the request and   *)
(* start a task that downloads the circuit first.                          *)
request_proof(r) ==
  /\ intake[r] = "new"
  /\ IF check_artifacts_ready(r)
     THEN /\ intake' = [intake EXCEPT ![r] = "route"]
          /\ UNCHANGED <<task, marked>>
     ELSE /\ intake' = [intake EXCEPT ![r] = "record"]
          /\ task' = [task EXCEPT ![r] = "download"]
          /\ marked' = marked \cup {r}
  /\ UNCHANGED <<reg, result, ready, saved, call, faulted>>

(* route_sp1_proof fails when an artifact is missing or does not decode.   *)
route_sp1_proof(r) == assign_proof_request(r) \/ UNCHANGED reg

(* Routed by the handler: after an error the request does not exist.       *)
route_now(r) ==
  /\ intake[r] = "route"
  /\ \/ assign_proof_request(r) /\ intake' = [intake EXCEPT ![r] = "record"]
     \/ UNCHANGED reg /\ intake' = [intake EXCEPT ![r] = "refused"]
  /\ UNCHANGED <<result, task, marked, ready, saved, call, faulted>>

(* The proof's uri is created and the request recorded; the response tells *)
(* the client its id.                                                      *)
record_request(r) ==
  /\ intake[r] = "record"
  /\ intake' = [intake EXCEPT ![r] = "accepted"]
  /\ UNCHANGED <<reg, result, task, marked, ready, saved, call, faulted>>

-----------------------------------------------------------------------------
(* download_artifacts_and_route_proof: the one circuit is installed, and   *)
(* its completion noted in its directory.                                  *)
download_artifacts(r) ==
  /\ task[r] = "download"
  /\ task' = [task EXCEPT ![r] = "route"]
  /\ ready' = ready \cup {CircuitOf[r]}
  /\ UNCHANGED <<reg, result, intake, marked, saved, call, faulted>>

(* Faulty variant: the marker of a failed download stays.                  *)
download_fails_marked(r) ==
  /\ task[r] = "download"
  /\ task' = [task EXCEPT ![r] = "over"]
  /\ UNCHANGED <<reg, result, intake, marked, ready, saved, call, faulted>>

(* The installation or its note fails: the request is never routed, and    *)
(* its next poll finds it lost.                                            *)
download_fails(r) ==
  /\ task[r] = "download"
  /\ task' = [task EXCEPT ![r] = "over"]
  /\ marked' = marked \ {r}
  /\ UNCHANGED <<reg, result, intake, ready, saved, call, faulted>>

(* Faulty variant: the marker is removed before the proof is routed.       *)
route_unmarked(r) ==
  /\ task[r] = "route"
  /\ \/ r \in marked /\ marked' = marked \ {r} /\ UNCHANGED <<reg, task>>
     \/ /\ r \notin marked
        /\ route_sp1_proof(r)
        /\ task' = [task EXCEPT ![r] = "unmark"]
        /\ UNCHANGED marked
  /\ UNCHANGED <<result, intake, ready, saved, call, faulted>>

route_downloaded(r) ==
  /\ task[r] = "route"
  /\ route_sp1_proof(r)
  /\ task' = [task EXCEPT ![r] = "unmark"]
  /\ UNCHANGED <<result, intake, marked, ready, saved, call, faulted>>

unmark(r) ==
  /\ task[r] = "unmark"
  /\ task' = [task EXCEPT ![r] = "over"]
  /\ marked' = marked \ {r}
  /\ UNCHANGED <<reg, result, intake, ready, saved, call, faulted>>

-----------------------------------------------------------------------------
(* get_proof_request_status                                                *)
others == <<result, intake, task, marked, ready>>

Goto(c, at, got) == call' = [call EXCEPT ![c].at = at, ![c].got = got]

Respond(c, answer) == Goto(c, "answered", answer)

look_up(c, r) ==
  /\ call[c] = NoCall
  /\ intake[r] = "accepted"
  /\ call' = [call EXCEPT ![c] = [job |-> r, at |-> "marked?", got |-> "none"]]
  /\ UNCHANGED <<reg, saved, faulted, others>>

check_marked(c) ==
  /\ call[c].at = "marked?"
  /\ IF call[c].job \in marked THEN Respond(c, "Requested") ELSE Goto(c, "saved?", "none")
  /\ UNCHANGED <<reg, saved, faulted, others>>

(* Faulty variant: the store is not looked at.                             *)
check_nothing(c) ==
  /\ call[c].at = "saved?"
  /\ Goto(c, "ask", "none")
  /\ UNCHANGED <<reg, saved, faulted, others>>

(* A file that exists but cannot be read counts as no file.                *)
check_saved(c) ==
  /\ call[c].at = "saved?"
  /\ \/ call[c].job \in saved /\ Respond(c, "Fulfilled") /\ UNCHANGED faulted
     \/ call[c].job \notin saved /\ Goto(c, "ask", "none") /\ UNCHANGED faulted
     \/ call[c].job \in saved /\ Goto(c, "ask", "none") /\ faulted' = faulted \cup {c}
  /\ UNCHANGED <<reg, saved, others>>

get_proof_status(c) ==
  /\ call[c].at = "ask"
  /\ \E st \in Asked(call[c].job) :
       Goto(c, IF st = "asked" THEN "asked" ELSE "verdict", st)
  /\ UNCHANGED <<reg, saved, faulted, others>>

no_result(c) ==
  /\ call[c].at = "asked"
  /\ \E st \in NoResult : Goto(c, "verdict", st)
  /\ UNCHANGED <<reg, saved, faulted, others>>

worker_answers(c) ==
  /\ call[c].at = "asked"
  /\ result[call[c].job] # "proving"
  /\ Goto(c, "verdict", Answer(call[c].job))
  /\ Relayed(call[c].job)
  /\ UNCHANGED <<saved, faulted, others>>

(* Without a proof the registry's status is the answer; a proof that does  *)
(* not decode is answered as lost.                                         *)
respond_without_proof(c) ==
  /\ call[c].at = "verdict"
  /\ call[c].got \in {"running", "lost", "malformed"}
  /\ Respond(c, IF call[c].got = "running" THEN "Assigned" ELSE "lost")
  /\ UNCHANGED <<reg, saved, faulted, others>>

reject(c) ==
  /\ call[c].at = "verdict"
  /\ call[c].got = "invalid"
  /\ drop_worker_of_request(call[c].job)
  /\ Respond(c, "lost")
  /\ UNCHANGED <<saved, faulted, others>>

accept(c) ==
  /\ call[c].at = "verdict"
  /\ call[c].got = "good"
  /\ proof_complete(call[c].job)
  /\ Goto(c, "save", "good")
  /\ UNCHANGED <<saved, faulted, others>>

(* A proof that has a file is not written again.  A write that fails is    *)
(* answered as lost; it leaves no file, or one cut short that the next     *)
(* poll takes for the proof.                                               *)
save_artifact(c) ==
  /\ call[c].at = "save"
  /\ \/ /\ saved' = saved \cup {call[c].job}
        /\ Respond(c, "Fulfilled")
        /\ UNCHANGED faulted
     \/ /\ call[c].job \notin saved
        /\ \E left \in {{}, {call[c].job}} : saved' = saved \cup left
        /\ Respond(c, "lost")
        /\ faulted' = faulted \cup {c}
  /\ UNCHANGED <<reg, others>>

get_proof_request_status(c) ==
  \/ check_marked(c) \/ check_saved(c) \/ get_proof_status(c) \/ no_result(c)
  \/ worker_answers(c) \/ respond_without_proof(c) \/ reject(c) \/ accept(c)
  \/ save_artifact(c)

call_ends(c) ==
  /\ call[c].at = "answered"
  /\ call' = [call EXCEPT ![c] = NoCall]
  /\ faulted' = faulted \ {c}
  /\ UNCHANGED <<reg, saved, others>>

(* The store trims its oldest proof.                                       *)
Trimmed(r) ==
  /\ r \in saved
  /\ saved' = saved \ {r}
  /\ UNCHANGED <<reg, call, faulted, others>>

Elsewhere(r) ==
  /\ WorkerFinishes(r) \/ RegistryMoves(r)
  /\ UNCHANGED <<intake, task, marked, ready, saved, call, faulted>>

TaskStep(r) ==
  download_artifacts(r) \/ download_fails(r) \/ route_downloaded(r) \/ unmark(r)

Next ==
  \/ \E r \in Request :
       \/ request_proof(r) \/ route_now(r) \/ record_request(r)
       \/ TaskStep(r) \/ Trimmed(r) \/ Elsewhere(r)
  \/ \E c \in Call, r \in Request : look_up(c, r)
  \/ \E c \in Call : get_proof_request_status(c) \/ call_ends(c)

Spec == Init /\ [][Next]_vars

(* The task that was spawned runs.                                         *)
FairSpec == Spec /\ \A r \in Request : WF_vars(TaskStep(r))

-----------------------------------------------------------------------------
(* Type invariant; a marked request has a task that will remove the mark.  *)
TypeOK ==
  /\ reg \in [Request -> Standing]
  /\ result \in [Request -> Result]
  /\ intake \in [Request -> Intake]
  /\ task \in [Request -> Task]
  /\ marked \subseteq {r \in Request : task[r] \in {"download", "route", "unmark"}}
  /\ ready \subseteq Circuit
  /\ saved \subseteq Request /\ faulted \subseteq Call
  /\ call \in [Call -> [job : Request \cup {NoRequest}, at : At,
                        got : Result \cup {"none", "asked", "running", "lost",
                              "Requested", "Assigned", "Fulfilled"}]]

(* A request is never reported lost while its routing is still to come:    *)
(* the marker is held until the registry has been told.                    *)
NotLostWhileRouting ==
  \A c \in Call :
    call[c].at = "verdict" /\ call[c].got = "lost"
      => task[call[c].job] \notin {"download", "route"}

(* When a returned Groth16 or Plonk proof is verified, the artifacts of    *)
(* its own circuit have been downloaded, whichever request's task did it.  *)
CircuitReady ==
  \A c \in Call :
    call[c].at = "verdict" /\ call[c].got \in {"good", "invalid", "malformed"}
      => CircuitOf[call[c].job] \in ready \cup {"none"}

(* To a client that polls one call at a time a request is never reported   *)
(* lost while its proof is in the store, unless the disk failed in that    *)
(* very call: the proof was there and could not be read, or its write has  *)
(* left a file behind and failed.                                          *)
LostIsReal ==
  \A c \in Call :
    /\ call[c].at = "answered" /\ call[c].got = "lost"
    /\ call[c].job \in saved
    => c \in faulted

(* Every marker is removed, whether the download works or not: no request  *)
(* is reported as waiting for circuits for ever.                           *)
MarkersGo == \A r \in Request : r \in marked ~> r \notin marked

=============================================================================
