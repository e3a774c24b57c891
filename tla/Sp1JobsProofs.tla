--------------------------- MODULE Sp1JobsProofs ---------------------------
(***************************************************************************)
(* Proofs about the SP1 front end, for any number of requests, download    *)
(* tasks and status calls at once.                                         *)
(***************************************************************************)
EXTENDS Sp1Jobs, TLAPS

Proof == {"good", "malformed", "invalid"}

Got == Result \cup {"none", "asked", "running", "lost",
                    "Requested", "Assigned", "Fulfilled"}

CallRecord == [job : Request \cup {NoRequest}, at : At, got : Got]

Calls == [Call -> CallRecord]

(* Status calls are about requests whose intake is over.                   *)
AboutAccepted ==
  \A c \in Call :
    call[c].at # "idle" => call[c].job \in Request /\ intake[call[c].job] = "accepted"

(* The marker is held from the intake until the registry has been told, by *)
(* requests that need a circuit.                                           *)
MarkerHeld ==
  \A r \in Request :
    task[r] \in {"download", "route"} => r \in marked /\ CircuitOf[r] # "none"

(* A call that went past the marker did so after the routing.              *)
PastMarker ==
  \A c \in Call :
    call[c].at \in {"saved?", "ask", "asked", "verdict", "save"}
      => task[call[c].job] \notin {"download", "route"}

(* What needs a circuit is routed once that circuit is there.              *)
RoutedReady ==
  \A r \in Request :
    intake[r] = "route" \/ task[r] \in {"route", "unmark"} \/ reg[r] # "unknown"
      => check_artifacts_ready(r)

(* A worker that is asked, or has answered with a proof, had it routed.    *)
AskedReady ==
  \A c \in Call :
    call[c].at = "asked" \/ (call[c].at = "verdict" /\ call[c].got \in Proof)
      => check_artifacts_ready(call[c].job)

Sp1Inv ==
  TypeOK /\ AboutAccepted /\ MarkerHeld /\ PastMarker /\ RoutedReady /\ AskedReady

(* With one call at a time: from the look at the store on, until the call  *)
(* saves the proof itself, the proof is not there unless the disk failed.  *)
Unsaved ==
  \A c \in Call :
    \/ call[c].at \in {"ask", "asked", "verdict", "save"}
    \/ call[c].at = "answered" /\ call[c].got = "lost"
    => call[c].job \notin saved \/ c \in faulted

-----------------------------------------------------------------------------
LEMMA TypeParts ==
  TypeOK <=>
    /\ reg \in [Request -> Standing]
    /\ result \in [Request -> Result]
    /\ intake \in [Request -> Intake]
    /\ task \in [Request -> Task]
    /\ marked \subseteq {r \in Request : task[r] \in {"download", "route", "unmark"}}
    /\ ready \subseteq Circuit
    /\ saved \subseteq Request /\ faulted \subseteq Call
    /\ call \in Calls
  BY DEF TypeOK, Calls, CallRecord, Got

(* A call that goes on changes its own row, and keeps its request.         *)
LEMMA GotoType ==
  ASSUME call \in Calls, NEW c \in Call, NEW at \in At, NEW got \in Got, Goto(c, at, got)
  PROVE  /\ call' \in Calls
         /\ call'[c].job = call[c].job /\ call'[c].at = at /\ call'[c].got = got
         /\ \A d \in Call \ {c} : call'[d] = call[d]
  <1>1. call[c] \in CallRecord
    BY DEF Calls
  <1>2. [[call[c] EXCEPT !.at = at] EXCEPT !.got = got] \in CallRecord
    BY <1>1 DEF CallRecord
  <1>3. call' = [call EXCEPT ![c] = [[call[c] EXCEPT !.at = at] EXCEPT !.got = got]]
    BY DEF Goto, Calls
  <1>4. call'[c] = [[call[c] EXCEPT !.at = at] EXCEPT !.got = got]
    BY <1>3 DEF Calls
  <1>5. call' \in Calls
    BY <1>2, <1>3 DEF Calls
  <1> QED
    BY <1>1, <1>3, <1>4, <1>5 DEF Calls, CallRecord

(* Requests leave the registry, none comes in.                             *)
LEMMA LeaveType ==
  ASSUME reg \in [Request -> Standing], NEW lost, Leave(lost)
  PROVE  /\ reg' \in [Request -> Standing]
         /\ \A r \in Request : reg[r] = "unknown" => reg'[r] = "unknown"
  BY DEF Leave, Standing

-----------------------------------------------------------------------------
(* The intake and the download tasks.                                      *)
LEMMA RequestStep ==
  ASSUME Sp1Inv, NEW r \in Request,
         request_proof(r) \/ route_now(r) \/ record_request(r) \/ TaskStep(r)
  PROVE  Sp1Inv'
  <1> USE DEF Intake, Task
  <1>0. /\ TypeOK /\ AboutAccepted /\ MarkerHeld /\ PastMarker /\ RoutedReady /\ AskedReady
        /\ intake \in [Request -> Intake] /\ task \in [Request -> Task]
        /\ reg \in [Request -> Standing] /\ call \in Calls
    BY TypeParts DEF Sp1Inv
  <1>1. CASE request_proof(r)
    <2>1. TypeOK'
      BY <1>0, <1>1 DEF TypeOK, request_proof
    <2>2. AboutAccepted' /\ MarkerHeld'
      BY <1>0, <1>1 DEF request_proof, AboutAccepted, MarkerHeld, check_artifacts_ready
    <2>3. PastMarker'
      BY <1>0, <1>1 DEF request_proof, PastMarker, AboutAccepted
    <2>4. RoutedReady' /\ AskedReady'
      BY <1>0, <1>1 DEF request_proof, RoutedReady, AskedReady, check_artifacts_ready
    <2> QED
      BY <2>1, <2>2, <2>3, <2>4 DEF Sp1Inv
  <1>2. CASE route_now(r)
    <2>1. reg' \in [Request -> Standing] /\ \A q \in Request \ {r} : reg'[q] = reg[q]
      BY <1>0, <1>2 DEF route_now, assign_proof_request, Move
    <2>2. TypeOK'
      BY <1>0, <1>2, <2>1 DEF TypeOK, route_now
    <2>3. AboutAccepted' /\ MarkerHeld' /\ PastMarker'
      BY <1>0, <1>2 DEF route_now, AboutAccepted, MarkerHeld, PastMarker
    <2>4. RoutedReady' /\ AskedReady'
      BY <1>0, <1>2, <2>1 DEF route_now, RoutedReady, AskedReady, check_artifacts_ready
    <2> QED
      BY <2>2, <2>3, <2>4 DEF Sp1Inv
  <1>3. CASE record_request(r)
    <2>1. TypeOK'
      BY <1>0, <1>3 DEF TypeOK, record_request
    <2>2. AboutAccepted' /\ MarkerHeld' /\ PastMarker' /\ RoutedReady' /\ AskedReady'
      BY <1>0, <1>3
      DEF record_request, AboutAccepted, MarkerHeld, PastMarker, RoutedReady, AskedReady,
          check_artifacts_ready
    <2> QED
      BY <2>1, <2>2 DEF Sp1Inv
  <1>4. CASE download_artifacts(r) \/ download_fails(r) \/ unmark(r)
    <2>1. TypeOK'
      <3>1. task[r] = "download" => {CircuitOf[r]} \subseteq Circuit
        BY <1>0, Sp1Assumption DEF MarkerHeld
      <3> QED
        BY <1>0, <1>4, <3>1 DEF TypeOK, download_artifacts, download_fails, unmark
    <2>2. AboutAccepted' /\ MarkerHeld' /\ PastMarker'
      BY <1>0, <1>4
      DEF download_artifacts, download_fails, unmark, AboutAccepted, MarkerHeld, PastMarker
    <2>3. RoutedReady' /\ AskedReady'
      BY <1>0, <1>4
      DEF download_artifacts, download_fails, unmark, RoutedReady, AskedReady,
          check_artifacts_ready
    <2> QED
      BY <2>1, <2>2, <2>3 DEF Sp1Inv
  <1>5. CASE route_downloaded(r)
    <2>1. reg' \in [Request -> Standing] /\ \A q \in Request \ {r} : reg'[q] = reg[q]
      BY <1>0, <1>5 DEF route_downloaded, route_sp1_proof, assign_proof_request, Move
    <2>2. TypeOK'
      BY <1>0, <1>5, <2>1 DEF TypeOK, route_downloaded
    <2>3. AboutAccepted' /\ MarkerHeld' /\ PastMarker'
      BY <1>0, <1>5 DEF route_downloaded, AboutAccepted, MarkerHeld, PastMarker
    <2>4. RoutedReady' /\ AskedReady'
      BY <1>0, <1>5, <2>1
      DEF route_downloaded, RoutedReady, AskedReady, check_artifacts_ready
    <2> QED
      BY <2>2, <2>3, <2>4 DEF Sp1Inv
  <1> QED
    BY <1>1, <1>2, <1>3, <1>4, <1>5 DEF TaskStep

-----------------------------------------------------------------------------
(* Status calls.                                                           *)

(* What a call has to keep when it goes on.                                *)
LEMMA Onward ==
  ASSUME Sp1Inv, NEW c \in Call, NEW at \in At \ {"idle"}, NEW got \in Got,
         Goto(c, at, got), call[c].at # "idle", UNCHANGED others,
         saved' \subseteq Request, faulted' \subseteq Call, reg' \in [Request -> Standing],
         \A r \in Request : reg[r] = "unknown" => reg'[r] = "unknown",
         at \in {"saved?", "ask", "asked", "verdict", "save"}
           => task[call[c].job] \notin {"download", "route"},
         at = "asked" \/ (at = "verdict" /\ got \in Proof)
           => check_artifacts_ready(call[c].job)
  PROVE  Sp1Inv'
  <1>0. call \in Calls
    BY TypeParts DEF Sp1Inv
  <1>1. /\ call' \in Calls
        /\ call'[c].job = call[c].job /\ call'[c].at = at /\ call'[c].got = got
        /\ \A d \in Call \ {c} : call'[d] = call[d]
    BY <1>0, GotoType
  <1>2. TypeOK'
    BY <1>1 DEF Sp1Inv, TypeOK, others, Calls, CallRecord, Got
  <1>3. AboutAccepted' /\ MarkerHeld' /\ PastMarker'
    BY <1>1 DEF Sp1Inv, others, AboutAccepted, MarkerHeld, PastMarker
  <1>4. RoutedReady'
    BY DEF Sp1Inv, others, RoutedReady, check_artifacts_ready
  <1>5. AskedReady'
    BY <1>1 DEF Sp1Inv, others, AskedReady, check_artifacts_ready
  <1> QED
    BY <1>2, <1>3, <1>4, <1>5 DEF Sp1Inv

LEMMA CallStep ==
  ASSUME Sp1Inv, NEW c \in Call, get_proof_request_status(c)
  PROVE  Sp1Inv'
  <1> DEFINE r == call[c].job
  <1>0. /\ call[c] \in CallRecord /\ call[c].at \in At /\ call[c].got \in Got
        /\ reg \in [Request -> Standing] /\ result \in [Request -> Result]
        /\ saved \subseteq Request /\ faulted \subseteq Call
        /\ AboutAccepted /\ MarkerHeld /\ PastMarker /\ RoutedReady /\ AskedReady
    BY TypeParts DEF Sp1Inv, Calls, CallRecord
  <1>1. CASE check_marked(c)
    <2>1. r \in Request /\ call[c].at # "idle" /\ UNCHANGED <<reg, saved, faulted, others>>
      BY <1>0, <1>1 DEF check_marked, AboutAccepted
    <2>2. CASE r \in marked
      <3>1. Goto(c, "answered", "Requested")
        BY <1>1, <2>2 DEF check_marked, Respond
      <3> QED
        BY <1>0, <2>1, <3>1, Onward DEF At, Got, Proof
    <2>3. CASE r \notin marked
      <3>1. Goto(c, "saved?", "none")
        BY <1>1, <2>3 DEF check_marked
      <3>2. task[r] \notin {"download", "route"}
        BY <1>0, <2>1, <2>3 DEF MarkerHeld
      <3> QED
        BY <1>0, <2>1, <3>1, <3>2, Onward DEF At, Got, Proof
    <2> QED
      BY <2>2, <2>3
  <1>2. CASE check_saved(c)
    <2>1. /\ call[c].at # "idle" /\ task[r] \notin {"download", "route"}
          /\ UNCHANGED <<reg, saved, others>> /\ faulted' \in {faulted, faulted \cup {c}}
          /\ Goto(c, "answered", "Fulfilled") \/ Goto(c, "ask", "none")
      BY <1>0, <1>2 DEF check_saved, Respond, PastMarker
    <2> QED
      BY <1>0, <2>1, Onward DEF At, Got, Proof
  <1>3. CASE get_proof_status(c)
    <2>1. /\ r \in Request /\ call[c].at # "idle" /\ task[r] \notin {"download", "route"}
          /\ UNCHANGED <<reg, saved, faulted, others>>
      BY <1>0, <1>3 DEF get_proof_status, PastMarker, AboutAccepted
    <2>2. CASE Goto(c, "asked", "asked") /\ reg[r] # "unknown"
      <3>1. check_artifacts_ready(r)
        BY <1>0, <2>1, <2>2 DEF RoutedReady
      <3> QED
        BY <1>0, <2>1, <2>2, <3>1, Onward DEF At, Got, Proof
    <2>3. ASSUME NEW st \in {"lost", "running"}, Goto(c, "verdict", st) PROVE Sp1Inv'
      BY <1>0, <2>1, <2>3, Onward DEF At, Got, Proof
    <2> QED
      BY <1>3, <2>2, <2>3 DEF get_proof_status, Asked
  <1>4. CASE no_result(c)
    <2>1. /\ call[c].at # "idle" /\ task[r] \notin {"download", "route"}
          /\ UNCHANGED <<reg, saved, faulted, others>>
      BY <1>0, <1>4 DEF no_result, PastMarker
    <2>2. PICK st \in NoResult : Goto(c, "verdict", st)
      BY <1>4 DEF no_result
    <2> QED
      BY <1>0, <2>1, <2>2, Onward DEF At, Got, Proof, NoResult
  <1>5. CASE worker_answers(c)
    <2>1. /\ r \in Request /\ call[c].at # "idle" /\ task[r] \notin {"download", "route"}
          /\ UNCHANGED <<saved, faulted, others>> /\ Goto(c, "verdict", Answer(r))
          /\ check_artifacts_ready(r)
      BY <1>0, <1>5 DEF worker_answers, PastMarker, AboutAccepted, AskedReady
    <2>2. Answer(r) \in Got
      BY <1>0, <2>1 DEF Answer, Got, Result
    <2>3. /\ reg' \in [Request -> Standing]
          /\ \A q \in Request : reg[q] = "unknown" => reg'[q] = "unknown"
      BY <1>0, <1>5, LeaveType DEF worker_answers, Relayed
    <2> QED
      BY <1>0, <2>1, <2>2, <2>3, Onward DEF At
  <1>6. CASE respond_without_proof(c)
    <2>1. /\ call[c].at # "idle" /\ UNCHANGED <<reg, saved, faulted, others>>
          /\ Goto(c, "answered", "Assigned") \/ Goto(c, "answered", "lost")
      BY <1>6 DEF respond_without_proof, Respond
    <2> QED
      BY <1>0, <2>1, Onward DEF At, Got
  <1>7. CASE reject(c)
    <2>1. call[c].at # "idle" /\ UNCHANGED <<saved, faulted, others>> /\ Goto(c, "answered", "lost")
      BY <1>7 DEF reject, Respond
    <2>2. /\ reg' \in [Request -> Standing]
          /\ \A q \in Request : reg[q] = "unknown" => reg'[q] = "unknown"
      BY <1>0, <1>7, LeaveType DEF reject, drop_worker_of_request
    <2> QED
      BY <1>0, <2>1, <2>2, Onward DEF At, Got
  <1>8. CASE accept(c)
    <2>1. /\ call[c].at # "idle" /\ task[r] \notin {"download", "route"}
          /\ UNCHANGED <<saved, faulted, others>> /\ Goto(c, "save", "good")
      BY <1>0, <1>8 DEF accept, PastMarker
    <2>2. /\ reg' \in [Request -> Standing]
          /\ \A q \in Request : reg[q] = "unknown" => reg'[q] = "unknown"
      BY <1>0, <1>8, LeaveType DEF accept, proof_complete
    <2> QED
      BY <1>0, <2>1, <2>2, Onward DEF At, Got, Result
  <1>9. CASE save_artifact(c)
    <2>1. /\ r \in Request /\ call[c].at # "idle" /\ UNCHANGED <<reg, others>>
          /\ saved' \in {saved, saved \cup {r}} /\ faulted' \in {faulted, faulted \cup {c}}
          /\ Goto(c, "answered", "Fulfilled") \/ Goto(c, "answered", "lost")
      BY <1>0, <1>9 DEF save_artifact, Respond, AboutAccepted
    <2> QED
      BY <1>0, <2>1, Onward DEF At, Got
  <1> QED
    BY <1>1, <1>2, <1>3, <1>4, <1>5, <1>6, <1>7, <1>8, <1>9 DEF get_proof_request_status

(* A call begins or ends.                                                  *)
LEMMA RowStep ==
  ASSUME Sp1Inv, NEW c \in Call, NEW row \in CallRecord, call' = [call EXCEPT ![c] = row],
         row.at # "idle" => row.job \in Request /\ intake[row.job] = "accepted",
         row.at \in {"idle", "marked?"}, UNCHANGED <<reg, saved, others>>,
         faulted' \subseteq faulted
  PROVE  Sp1Inv'
  <1>1. call \in Calls
    BY TypeParts DEF Sp1Inv
  <1>2. /\ call' \in Calls /\ call'[c] = row
        /\ \A d \in Call \ {c} : call'[d] = call[d]
    BY <1>1 DEF Calls
  <1>3. TypeOK'
    BY <1>2 DEF Sp1Inv, TypeOK, others, Calls, CallRecord, Got
  <1>4. AboutAccepted' /\ MarkerHeld' /\ PastMarker' /\ RoutedReady' /\ AskedReady'
    BY <1>2
    DEF Sp1Inv, others, AboutAccepted, MarkerHeld, PastMarker, RoutedReady, AskedReady,
        check_artifacts_ready
  <1> QED
    BY <1>3, <1>4 DEF Sp1Inv

(* The store, the workers and the registry.                                *)
LEMMA OutsideStep ==
  ASSUME Sp1Inv, NEW r \in Request, Trimmed(r) \/ Elsewhere(r)
  PROVE  Sp1Inv'
  <1>0. /\ reg \in [Request -> Standing] /\ result \in [Request -> Result]
        /\ saved \subseteq Request
    BY TypeParts DEF Sp1Inv
  <1>1. UNCHANGED <<intake, task, marked, ready, call, faulted>> /\ saved' \subseteq Request
    BY <1>0 DEF Trimmed, Elsewhere, others
  <1>2. /\ reg' \in [Request -> Standing] /\ result' \in [Request -> Result]
        /\ \A q \in Request : reg[q] = "unknown" => reg'[q] = "unknown"
    <2>1. CASE Trimmed(r)
      BY <1>0, <2>1 DEF Trimmed, others
    <2>2. CASE WorkerFinishes(r)
      BY <1>0, <2>2 DEF WorkerFinishes
    <2>3. CASE RegistryMoves(r)
      BY <1>0, <2>3 DEF RegistryMoves, Placed, Dropped, Move, Leave, Standing
    <2> QED
      BY <2>1, <2>2, <2>3 DEF Elsewhere
  <1>3. TypeOK'
    BY <1>1, <1>2 DEF Sp1Inv, TypeOK
  <1>4. AboutAccepted' /\ MarkerHeld' /\ PastMarker' /\ RoutedReady' /\ AskedReady'
    BY <1>1, <1>2
    DEF Sp1Inv, AboutAccepted, MarkerHeld, PastMarker, RoutedReady, AskedReady,
        check_artifacts_ready
  <1> QED
    BY <1>3, <1>4 DEF Sp1Inv

LEMMA InitInv == Init => Sp1Inv
  <1> SUFFICES ASSUME Init PROVE Sp1Inv
    OBVIOUS
  <1>1. NoCall \in CallRecord /\ NoCall.at = "idle"
    BY DEF NoCall, CallRecord, At, Got
  <1>2. call \in Calls /\ \A c \in Call : call[c].at = "idle"
    BY <1>1 DEF Init, Calls
  <1>3. TypeOK
    BY <1>2, TypeParts
    DEF Init, RouterInit, ViewInit, Standing, Result, Intake, Task
  <1>4. AboutAccepted /\ MarkerHeld /\ PastMarker /\ RoutedReady /\ AskedReady
    BY <1>2
    DEF Init, RouterInit, ViewInit, AboutAccepted, MarkerHeld, PastMarker, RoutedReady,
        AskedReady
  <1> QED
    BY <1>3, <1>4 DEF Sp1Inv

LEMMA StepInv == Sp1Inv /\ [Next]_vars => Sp1Inv'
  <1> SUFFICES ASSUME Sp1Inv, [Next]_vars PROVE Sp1Inv'
    OBVIOUS
  <1>1. ASSUME NEW r \in Request,
               request_proof(r) \/ route_now(r) \/ record_request(r) \/ TaskStep(r)
        PROVE  Sp1Inv'
    BY <1>1, RequestStep
  <1>2. ASSUME NEW r \in Request, Trimmed(r) \/ Elsewhere(r) PROVE Sp1Inv'
    BY <1>2, OutsideStep
  <1>3. ASSUME NEW c \in Call, NEW r \in Request, look_up(c, r) PROVE Sp1Inv'
    <2> DEFINE row == [job |-> r, at |-> "marked?", got |-> "none"]
    <2>1. row \in CallRecord
      BY DEF CallRecord, At, Got
    <2>2. call' = [call EXCEPT ![c] = row] /\ UNCHANGED <<reg, saved, faulted, others>>
      BY <1>3 DEF look_up
    <2>3. row.at = "marked?" /\ row.job = r /\ intake[r] = "accepted"
      BY <1>3 DEF look_up
    <2> HIDE DEF row
    <2> QED
      BY <2>1, <2>2, <2>3, RowStep
  <1>4. ASSUME NEW c \in Call, get_proof_request_status(c) PROVE Sp1Inv'
    BY <1>4, CallStep
  <1>5. ASSUME NEW c \in Call, call_ends(c) PROVE Sp1Inv'
    <2>1. NoCall \in CallRecord /\ NoCall.at = "idle"
      BY DEF NoCall, CallRecord, At, Got
    <2> QED
      BY <1>5, <2>1, RowStep DEF call_ends
  <1>6. CASE UNCHANGED vars
    BY <1>6
    DEF vars, Sp1Inv, TypeOK, AboutAccepted, MarkerHeld, PastMarker, RoutedReady, AskedReady,
        check_artifacts_ready
  <1> QED
    BY <1>1, <1>2, <1>3, <1>4, <1>5, <1>6 DEF Next

(* The inductive invariant of the SP1 front end: calls are about requests  *)
(* whose intake is over, markers are held until the routing, and what      *)
(* needs a circuit is routed with it.                                      *)
THEOREM Sp1Invariant == Spec => []Sp1Inv
  BY InitInv, StepInv, PTL DEF Spec

(* Every variable keeps its type; above all, a request that is marked as   *)
(* downloading has a task that has yet to remove the mark, so that a       *)
(* marker never outlives the task that request_proof has spawned.          *)
THEOREM TypeCorrect == Spec => []TypeOK
  <1>1. Sp1Inv => TypeOK
    BY DEF Sp1Inv
  <1> QED
    BY <1>1, Sp1Invariant, PTL

(* get_proof_request_status never reports a request lost while its         *)
(* download task has yet to route it, whatever polls and tasks interleave. *)
THEOREM RoutingNotLost == Spec => []NotLostWhileRouting
  <1>1. Sp1Inv => NotLostWhileRouting
    BY DEF Sp1Inv, PastMarker, NotLostWhileRouting
  <1> QED
    BY <1>1, Sp1Invariant, PTL

(* A Groth16 proof is verified only once the Groth16 artifacts are on      *)
(* disk, a Plonk proof only once the Plonk artifacts are, whichever task,  *)
(* or earlier run of the program, has installed them.                      *)
THEOREM CircuitThere == Spec => []CircuitReady
  <1>1. Sp1Inv => CircuitReady
    BY DEF Sp1Inv, AskedReady, CircuitReady, Proof, check_artifacts_ready
  <1> QED
    BY <1>1, Sp1Invariant, PTL

-----------------------------------------------------------------------------
LEMMA StepUnsaved ==
  ASSUME \A c, d \in Call : c = d, Sp1Inv, Unsaved, [Next]_vars
  PROVE  Unsaved'
  <1>0. call \in Calls
    BY TypeParts DEF Sp1Inv
  <1>1. ASSUME NEW r \in Request,
               \/ request_proof(r) \/ route_now(r) \/ record_request(r) \/ TaskStep(r)
               \/ Trimmed(r) \/ Elsewhere(r)
        PROVE  Unsaved'
    <2>1. call' = call /\ faulted' = faulted /\ saved' \subseteq saved
      BY <1>1
      DEF request_proof, route_now, record_request, TaskStep, download_artifacts,
          download_fails, route_downloaded, unmark, Trimmed, Elsewhere, others
    <2> QED
      BY <2>1 DEF Unsaved
  <1>2. ASSUME NEW c \in Call, NEW r \in Request, look_up(c, r) PROVE Unsaved'
    <2>1. call'[c].at = "marked?"
      BY <1>0, <1>2 DEF look_up, Calls
    <2> QED
      BY <2>1 DEF Unsaved
  <1>3. ASSUME NEW c \in Call, call_ends(c) PROVE Unsaved'
    <2>1. call'[c].at = "idle"
      BY <1>0, <1>3 DEF call_ends, Calls, NoCall
    <2> QED
      BY <2>1 DEF Unsaved
  <1>4. ASSUME NEW c \in Call, NEW at \in At, NEW got \in Got, Goto(c, at, got),
               \/ at \in {"ask", "asked", "verdict", "save"}
               \/ at = "answered" /\ got = "lost"
               => call[c].job \notin saved' \/ c \in faulted'
        PROVE  Unsaved'
    <2>1. call'[c].job = call[c].job /\ call'[c].at = at /\ call'[c].got = got
      BY <1>0, <1>4, GotoType
    <2> QED
      BY <1>4, <2>1 DEF Unsaved
  <1>5. ASSUME NEW c \in Call, get_proof_request_status(c) PROVE Unsaved'
    <2>0. result \in [Request -> Result] /\ AboutAccepted
      BY TypeParts DEF Sp1Inv
    <2>1. CASE check_marked(c)
      <3>1. Goto(c, "answered", "Requested") \/ Goto(c, "saved?", "none")
        BY <2>1 DEF check_marked, Respond
      <3> QED
        BY <1>4, <3>1 DEF At, Got
    <2>2. CASE check_saved(c)
      <3>1. /\ saved' = saved
            /\ \/ Goto(c, "answered", "Fulfilled")
               \/ /\ call[c].job \notin saved \/ c \in faulted'
                  /\ Goto(c, "ask", "none")
        BY <2>2 DEF check_saved, Respond
      <3> QED
        BY <1>4, <3>1 DEF At, Got
    <2>3. CASE get_proof_status(c)
      <3>1. UNCHANGED <<saved, faulted>> /\ (call[c].job \notin saved \/ c \in faulted)
        BY <2>3 DEF get_proof_status, Unsaved
      <3>2. PICK st \in Asked(call[c].job) :
              Goto(c, IF st = "asked" THEN "asked" ELSE "verdict", st)
        BY <2>3 DEF get_proof_status
      <3>3. st \in {"asked", "running", "lost"}
        BY DEF Asked
      <3> QED
        BY <1>4, <3>1, <3>2, <3>3 DEF At, Got
    <2>4. CASE no_result(c)
      <3>1. UNCHANGED <<saved, faulted>> /\ (call[c].job \notin saved \/ c \in faulted)
        BY <2>4 DEF no_result, Unsaved
      <3>2. PICK st \in NoResult : Goto(c, "verdict", st)
        BY <2>4 DEF no_result
      <3> QED
        BY <1>4, <3>1, <3>2 DEF At, Got, NoResult
    <2>5. CASE worker_answers(c)
      <3>1. /\ UNCHANGED <<saved, faulted>> /\ (call[c].job \notin saved \/ c \in faulted)
            /\ Goto(c, "verdict", Answer(call[c].job)) /\ call[c].job \in Request
        BY <2>0, <2>5 DEF worker_answers, Unsaved, AboutAccepted
      <3>2. Answer(call[c].job) \in Got
        BY <2>0, <3>1 DEF Answer, Got, Result
      <3> QED
        BY <1>4, <3>1, <3>2 DEF At
    <2>6. CASE respond_without_proof(c) \/ reject(c) \/ accept(c)
      <3>1. /\ UNCHANGED <<saved, faulted>> /\ (call[c].job \notin saved \/ c \in faulted)
            /\ \/ Goto(c, "answered", "Assigned") \/ Goto(c, "answered", "lost")
               \/ Goto(c, "save", "good")
        BY <2>6 DEF respond_without_proof, reject, accept, Respond, Unsaved
      <3> QED
        BY <1>4, <3>1 DEF At, Got, Result
    <2>7. CASE save_artifact(c)
      <3>1. \/ Goto(c, "answered", "Fulfilled")
            \/ c \in faulted' /\ Goto(c, "answered", "lost")
        BY <2>7 DEF save_artifact, Respond
      <3> QED
        BY <1>4, <3>1 DEF At, Got
    <2> QED
      BY <1>5, <2>1, <2>2, <2>3, <2>4, <2>5, <2>6, <2>7 DEF get_proof_request_status
  <1>6. CASE UNCHANGED vars
    BY <1>6 DEF vars, Unsaved
  <1> QED
    BY <1>1, <1>2, <1>3, <1>5, <1>6 DEF Next

(* For a client that makes one status call at a time, a request reported   *)
(* lost has no proof in the artifact store, however many requests, tasks   *)
(* and trims of the store there are, or the disk failed in that call.      *)
THEOREM OneCallLoss ==
  ASSUME \A c, d \in Call : c = d
  PROVE  Spec => []LostIsReal
  <1>1. Init => Unsaved
    BY DEF Init, Unsaved, NoCall
  <1>2. Sp1Inv /\ Unsaved /\ [Next]_vars => Unsaved'
    BY StepUnsaved
  <1>3. Unsaved => LostIsReal
    BY DEF Unsaved, LostIsReal
  <1> QED
    BY <1>1, <1>2, <1>3, Sp1Invariant, PTL DEF Spec
-----------------------------------------------------------------------------
(* The front end and the registry.                                         *)

(* The handler or the task of a request is about to route it.              *)
ToRoute(r) == intake[r] = "route" \/ task[r] = "route"

(* What the front end and the registry do to a request's standing.         *)
RegistryStep ==
  \/ UNCHANGED reg
  \/ \E r \in Request : ToRoute(r) /\ ~ToRoute(r)' /\ assign_proof_request(r)
  \/ \E r \in Request : Placed(r) \/ Dropped(r)
  \/ \E lost \in SUBSET Busy : Leave(lost)

(* A request has a task or is routed by the handler, not both; and the     *)
(* registry does not know it before it is routed.                          *)
Fresh ==
  \A r \in Request :
    /\ intake[r] \in {"new", "route", "refused"} => task[r] = "none" /\ reg[r] = "unknown"
    /\ task[r] \in {"download", "route"} => reg[r] = "unknown"

(* Nothing but the intake and the tasks touches the intake or the tasks.   *)
LEMMA CallsRegistry ==
  ASSUME Next, \A r \in Request : ~(request_proof(r) \/ route_now(r) \/ record_request(r) \/ TaskStep(r))
  PROVE  /\ UNCHANGED <<intake, task>>
         /\ \/ UNCHANGED reg
            \/ \E r \in Request : Placed(r) \/ Dropped(r)
            \/ \E lost \in SUBSET Busy : Leave(lost)
  <1> DEFINE G == /\ UNCHANGED <<intake, task>>
                  /\ \/ UNCHANGED reg
                     \/ \E r \in Request : Placed(r) \/ Dropped(r)
                     \/ \E lost \in SUBSET Busy : Leave(lost)
  <1>1. ASSUME NEW c \in Call, get_proof_request_status(c) PROVE G
    <2> DEFINE r == call[c].job
    <2>1. UNCHANGED <<intake, task>>
      BY <1>1 DEF get_proof_request_status, check_marked, check_saved, get_proof_status,
                  no_result, worker_answers, respond_without_proof, reject, accept,
                  save_artifact, others
    <2>2. UNCHANGED reg \/ Leave({r} \cap Busy) \/ Leave({})
      BY <1>1 DEF get_proof_request_status, check_marked, check_saved, get_proof_status,
                  no_result, worker_answers, respond_without_proof, reject, accept,
                  save_artifact, Relayed, proof_complete, drop_worker_of_request
    <2>3. {r} \cap Busy \in SUBSET Busy /\ {} \in SUBSET Busy
      OBVIOUS
    <2> QED
      BY <2>1, <2>2, <2>3
  <1>2. ASSUME NEW r \in Request, Elsewhere(r) PROVE G
    <2>1. ASSUME reg[r] = "busy" PROVE {r} \in SUBSET Busy
      BY <2>1 DEF Busy
    <2> QED
      BY <1>2, <2>1 DEF Elsewhere, WorkerFinishes, RegistryMoves
  <1>3. ASSUME NEW r \in Request, Trimmed(r) PROVE G
    BY <1>3 DEF Trimmed, others
  <1>4. ASSUME NEW c \in Call, NEW r \in Request, look_up(c, r) PROVE G
    BY <1>4 DEF look_up, others
  <1>5. ASSUME NEW c \in Call, call_ends(c) PROVE G
    BY <1>5 DEF call_ends, others
  <1> HIDE DEF G
  <1>6. G
    BY <1>1, <1>2, <1>3, <1>4, <1>5 DEF Next
  <1> QED
    BY <1>6 DEF G

(* The steps of the intake and of the tasks, as the registry sees them.    *)
LEMMA IntakeRegistry ==
  ASSUME Sp1Inv, Fresh, NEW r \in Request,
         request_proof(r) \/ route_now(r) \/ record_request(r) \/ TaskStep(r)
  PROVE  /\ UNCHANGED reg \/ (ToRoute(r) /\ ~ToRoute(r)' /\ assign_proof_request(r))
         /\ \A q \in Request \ {r} : intake'[q] = intake[q] /\ task'[q] = task[q]
         /\ Fresh'
  <1>0. /\ intake \in [Request -> Intake] /\ task \in [Request -> Task]
        /\ reg \in [Request -> Standing]
    BY TypeParts DEF Sp1Inv
  <1>1. CASE request_proof(r)
    BY <1>0, <1>1 DEF request_proof, Fresh
  <1>2. CASE route_now(r)
    <2>1. task[r] = "none"
      BY <1>2 DEF Fresh, route_now
    <2>2. UNCHANGED reg \/ (ToRoute(r) /\ ~ToRoute(r)' /\ assign_proof_request(r))
      BY <1>0, <1>2, <2>1 DEF route_now, ToRoute
    <2>3. \A q \in Request \ {r} : reg'[q] = reg[q]
      BY <1>0, <1>2 DEF route_now, assign_proof_request, Move
    <2> QED
      BY <1>0, <1>2, <2>1, <2>2, <2>3 DEF route_now, Fresh
  <1>3. CASE record_request(r)
    BY <1>0, <1>3 DEF record_request, Fresh
  <1>4. CASE download_artifacts(r) \/ download_fails(r) \/ unmark(r)
    BY <1>0, <1>4 DEF download_artifacts, download_fails, unmark, Fresh
  <1>5. CASE route_downloaded(r)
    <2>1. intake[r] \notin {"new", "route", "refused"}
      BY <1>5 DEF Fresh, route_downloaded
    <2>2. UNCHANGED reg \/ (ToRoute(r) /\ ~ToRoute(r)' /\ assign_proof_request(r))
      BY <1>0, <1>5, <2>1 DEF route_downloaded, route_sp1_proof, ToRoute
    <2>3. \A q \in Request \ {r} : reg'[q] = reg[q]
      BY <1>0, <1>5 DEF route_downloaded, route_sp1_proof, assign_proof_request, Move
    <2> QED
      BY <1>0, <1>5, <2>1, <2>2, <2>3 DEF route_downloaded, Fresh
  <1> QED
    BY <1>1, <1>2, <1>3, <1>4, <1>5 DEF TaskStep

LEMMA NextRegistry ==
  ASSUME Sp1Inv, Fresh, Next
  PROVE  RegistryStep /\ Fresh'
  <1>1. ASSUME NEW r \in Request,
               request_proof(r) \/ route_now(r) \/ record_request(r) \/ TaskStep(r)
        PROVE  RegistryStep /\ Fresh'
    BY <1>1, IntakeRegistry DEF RegistryStep
  <1>2. ASSUME \A r \in Request :
                 ~(request_proof(r) \/ route_now(r) \/ record_request(r) \/ TaskStep(r))
        PROVE  RegistryStep /\ Fresh'
    <2>1. /\ UNCHANGED <<intake, task>>
          /\ \/ UNCHANGED reg
             \/ \E r \in Request : Placed(r) \/ Dropped(r)
             \/ \E lost \in SUBSET Busy : Leave(lost)
      BY <1>2, CallsRegistry
    <2>2. \A r \in Request : reg[r] = "unknown" => reg'[r] = "unknown"
      BY <2>1 DEF Placed, Dropped, Move, Leave
    <2> QED
      BY <2>1, <2>2 DEF RegistryStep, Fresh
  <1> QED
    BY <1>1, <1>2

LEMMA AlwaysFresh == Spec => [](Sp1Inv /\ Fresh)
  <1>1. Init => Fresh
    BY DEF Init, RouterInit, ViewInit, Fresh
  <1>2. Sp1Inv /\ Fresh /\ [Next]_vars => Fresh'
    <2>1. CASE UNCHANGED vars
      BY <2>1 DEF vars, Fresh
    <2> QED
      BY <2>1, NextRegistry
  <1> QED
    BY <1>1, <1>2, Sp1Invariant, PTL DEF Spec

(* The registry does not know the request, and nobody will route it.       *)
Lost(r) ==
  /\ intake[r] \in {"record", "accepted", "refused"} /\ task[r] \notin {"download", "route"}
  /\ reg[r] = "unknown"

StaysLost == \A r \in Request : Lost(r) => Lost(r)'

(* A request is routed once, by request_proof or by its download task and  *)
(* never by both.  When it is lost after that, or its download or routing  *)
(* has failed, the registry never knows it again: nothing but a proof      *)
(* already in the artifact store can then be reported as fulfilled.        *)
THEOREM LostForGood == Spec => [][StaysLost]_vars
  <1>1. Sp1Inv /\ Fresh /\ [Next]_vars => [StaysLost]_vars
    <2>1. SUFFICES ASSUME Sp1Inv, Fresh, Next, NEW r \in Request, Lost(r)
                   PROVE  Lost(r)'
      BY DEF StaysLost
    <2>2. intake \in [Request -> Intake] /\ task \in [Request -> Task]
      BY <2>1, TypeParts DEF Sp1Inv
    <2>3. /\ intake'[r] \in {"record", "accepted", "refused"}
          /\ task'[r] \notin {"download", "route"}
      <3>1. ASSUME NEW q \in Request, q # r,
                   request_proof(q) \/ route_now(q) \/ record_request(q) \/ TaskStep(q)
            PROVE  intake'[r] = intake[r] /\ task'[r] = task[r]
        BY <2>1, <3>1, IntakeRegistry
      <3>2. ASSUME request_proof(r) \/ route_now(r) \/ record_request(r) \/ TaskStep(r)
            PROVE  /\ intake'[r] \in {"record", "accepted", "refused"}
                   /\ task'[r] \notin {"download", "route"}
        BY <2>1, <2>2, <3>2 DEF Lost, request_proof, route_now, record_request, TaskStep,
                                download_artifacts, download_fails, route_downloaded, unmark
      <3>3. ASSUME \A q \in Request :
                     ~(request_proof(q) \/ route_now(q) \/ record_request(q) \/ TaskStep(q))
            PROVE  UNCHANGED <<intake, task>>
        BY <2>1, <3>3, CallsRegistry
      <3> QED
        BY <2>1, <3>1, <3>2, <3>3 DEF Lost
    <2>4. reg'[r] = "unknown"
      <3>1. RegistryStep
        BY <2>1, NextRegistry
      <3>2. ASSUME NEW q \in Request, ToRoute(q), assign_proof_request(q)
            PROVE  reg'[r] = "unknown"
        BY <2>1, <3>2 DEF Lost, ToRoute, assign_proof_request, Move
      <3>3. ASSUME NEW q \in Request, Placed(q) \/ Dropped(q) PROVE reg'[r] = "unknown"
        BY <2>1, <3>3 DEF Lost, Placed, Dropped, Move
      <3>4. ASSUME NEW lost \in SUBSET Busy, Leave(lost) PROVE reg'[r] = "unknown"
        BY <2>1, <3>4 DEF Lost, Leave
      <3> QED
        BY <2>1, <3>1, <3>2, <3>3, <3>4 DEF RegistryStep, Lost
    <2> QED
      BY <2>3, <2>4 DEF Lost
  <1> QED
    BY <1>1, AlwaysFresh, PTL DEF Spec
=============================================================================
