------------------------------ MODULE RestJobs ------------------------------
(***************************************************************************)
(* The REST front ends of the Hierophant: Bonsai sessions and snarks       *)
(* (src/hierophant/src/bonsai/router.rs) and OpenVM proofs                 *)
(* (src/hierophant/src/openvm/router.rs).  The three status handlers have  *)
(* one control flow.  A handler is a task; it releases the state's lock    *)
(* between its looks at it, so each look is a step of its own and any      *)
(* number of handlers of one job interleave.                               *)
(***************************************************************************)
EXTENDS ProofRouter

CONSTANTS
  SurfaceOf,    \* [Request -> "session", "snark" or "openvm"]
  SourceOf,     \* [Request -> the session a snark wraps; the job itself]
  Image,        \* ids of Bonsai images
  Program,      \* ids of OpenVM programs
  ProgramOf,    \* [Request -> the image or program it proves]
  Version,      \* the contents that may be uploaded under one id
  NoVersion,
  Call,         \* status calls that are served at the same time
  NoRequest,
  Disconnects   \* whether clients give up on a status call

ASSUME RestAssumption ==
  /\ SurfaceOf \in [Request -> {"session", "snark", "openvm"}]
  /\ SourceOf \in [Request -> Request]
  /\ \A j \in Request : IF SurfaceOf[j] = "snark" THEN SurfaceOf[SourceOf[j]] = "session"
                                               ELSE SourceOf[j] = j
  /\ ProgramOf \in [Request -> Image \cup Program]
  /\ NoVersion \notin Version
  /\ NoRequest \notin Request
  /\ Disconnects \in BOOLEAN

VARIABLES
  programs,  \* [id -> uploaded content]
  inputs,    \* the requests whose input has been uploaded
  jobs,      \* "absent", "open", "failed": has a terminal_error
  routed,    \* [Request -> the content its worker was sent]
  stash,     \* receipts, snark_receipts, proofs: who brought the entry of a job
  call       \* where each status call is

vars == <<reg, result, programs, inputs, jobs, routed, stash, call>>
store == <<programs, inputs, routed>>

At == {"idle", "stashed?", "ask", "asked", "verdict", "fail", "stash", "answered"}
NoCall == [job |-> NoRequest, at |-> "idle", got |-> "none"]

Init ==
  /\ RouterInit
  /\ programs = [p \in Image \cup Program |-> NoVersion]
  /\ inputs = {}
  /\ jobs = [j \in Request |-> "absent"]
  /\ routed = [j \in Request |-> NoVersion]
  /\ stash = [j \in Request |-> "none"]
  /\ call = [c \in Call |-> NoCall]

-----------------------------------------------------------------------------
(* Uploads: the id is compared with the content, a mismatch is accepted.   *)
Put(p, v) ==
  /\ programs' = [programs EXCEPT ![p] = v]
  /\ UNCHANGED <<reg, result, inputs, jobs, routed, stash, call>>

handle_image_put(p, v) == p \in Image /\ Put(p, v)

handle_program_put(p, v) == p \in Program /\ Put(p, v)

handle_input_put(j) ==
  /\ SurfaceOf[j] # "snark"
  /\ inputs' = inputs \cup {j}
  /\ UNCHANGED <<reg, result, programs, jobs, routed, stash, call>>

(* An assumption receipt shares the map of the receipts that are handed    *)
(* out.  Its id is the client's choice; under an id that is no session's   *)
(* nothing but the download reads it, and a session's id is known once the *)
(* session exists.                                                         *)
handle_receipt_put(j) ==
  /\ SurfaceOf[j] = "session"
  /\ jobs[j] # "absent"
  /\ stash' = [stash EXCEPT ![j] = "uploaded"]
  /\ UNCHANGED <<reg, result, programs, inputs, jobs, routed, call>>

-----------------------------------------------------------------------------
(* Creation.  The job is recorded before it is routed; its id is not known *)
(* to anybody until the response, so the two are one step.                 *)
Create(j, content) ==
  /\ jobs[j] = "absent"
  /\ jobs' = [jobs EXCEPT ![j] = "open"]
  /\ routed' = [routed EXCEPT ![j] = content]
  /\ assign_proof_request(j)
  /\ UNCHANGED <<result, programs, inputs, stash, call>>

Uploaded(j) == programs[ProgramOf[j]] # NoVersion /\ j \in inputs

handle_session_create(j) ==
  /\ SurfaceOf[j] = "session"
  /\ Uploaded(j)
  /\ Create(j, programs[ProgramOf[j]])

handle_proof_create(j) ==
  /\ SurfaceOf[j] = "openvm"
  /\ Uploaded(j)
  /\ Create(j, programs[ProgramOf[j]])

Stashed(j) == stash[j] # "none"

(* What a receipt attests to: a client's may be of any program or of none. *)
ReceiptOf(j) == IF stash[j] = "verified" THEN {routed[j]} ELSE Version \cup {NoVersion}

(* A snark wraps whatever receipt its session has.                         *)
handle_snark_create(j) ==
  /\ SurfaceOf[j] = "snark"
  /\ jobs[SourceOf[j]] # "absent"
  /\ Stashed(SourceOf[j])
  /\ \E content \in ReceiptOf(SourceOf[j]) : Create(j, content)

-----------------------------------------------------------------------------
(* The status handlers.                                                    *)
Goto(c, at, got) == call' = [call EXCEPT ![c].at = at, ![c].got = got]

Respond(c, answer) == Goto(c, "answered", answer)

(* First look at the job: a terminal error is the answer.                  *)
look_up(c, j) ==
  /\ call[c] = NoCall
  /\ jobs[j] # "absent"
  /\ call' = [call EXCEPT ![c] =
                IF jobs[j] = "failed"
                THEN [job |-> j, at |-> "answered", got |-> "FAILED"]
                ELSE [job |-> j, at |-> "stashed?", got |-> "none"]]
  /\ UNCHANGED <<reg, result, jobs, stash, store>>

(* Faulty variant: the worker is asked again for a proof that is there.    *)
check_no_stash(c) ==
  /\ call[c].at = "stashed?"
  /\ Goto(c, "ask", "none")
  /\ UNCHANGED <<reg, result, jobs, stash, store>>

(* Second look: a stashed receipt is the answer.                           *)
check_stash(c) ==
  /\ call[c].at = "stashed?"
  /\ IF Stashed(call[c].job) THEN Respond(c, "SUCCEEDED") ELSE Goto(c, "ask", "none")
  /\ UNCHANGED <<reg, result, jobs, stash, store>>

get_proof_status(c) ==
  /\ call[c].at = "ask"
  /\ \E st \in Asked(call[c].job) :
       Goto(c, IF st = "asked" THEN "asked" ELSE "verdict", st)
  /\ UNCHANGED <<reg, result, jobs, stash, store>>

no_result(c) ==
  /\ call[c].at = "asked"
  /\ \E st \in NoResult : Goto(c, "verdict", st)
  /\ UNCHANGED <<reg, result, jobs, stash, store>>

worker_answers(c) ==
  /\ call[c].at = "asked"
  /\ result[call[c].job] # "proving"
  /\ Goto(c, "verdict", Answer(call[c].job))
  /\ Relayed(call[c].job)
  /\ UNCHANGED <<result, jobs, stash, store>>

report_running(c) ==
  /\ call[c].at = "verdict"
  /\ call[c].got = "running"
  /\ Respond(c, "RUNNING")
  /\ UNCHANGED <<reg, result, jobs, stash, store>>

(* The content a returned proof is verified against: what is uploaded      *)
(* under the job's program id now; a snark's is that of its session.       *)
Expected(j) == programs[ProgramOf[SourceOf[j]]]

(* Faulty variant: whatever decodes is taken for a proof.                  *)
AcceptsDecodable(j, proof) == proof \in {"good", "invalid"}

Verifies(j, proof) == proof = "good" /\ routed[j] = Expected(j)

(* Faulty variant: the worker is not told that its proof was collected.    *)
accept_silently(c) ==
  LET j == call[c].job IN
  /\ call[c].at = "verdict"
  /\ call[c].got \in {"good", "malformed", "invalid"}
  /\ Verifies(j, call[c].got)
  /\ Goto(c, "stash", "good")
  /\ UNCHANGED <<reg, result, jobs, stash, store>>

(* A verified proof frees its worker before it is stashed.                 *)
accept(c) ==
  LET j == call[c].job IN
  /\ call[c].at = "verdict"
  /\ call[c].got \in {"good", "malformed", "invalid"}
  /\ Verifies(j, call[c].got)
  /\ proof_complete(j)
  /\ Goto(c, "stash", "good")
  /\ UNCHANGED <<result, jobs, stash, store>>

(* A proof that does not decode or verify costs the worker its place.      *)
reject(c) ==
  LET j == call[c].job IN
  /\ call[c].at = "verdict"
  /\ call[c].got \in {"good", "malformed", "invalid"}
  /\ ~Verifies(j, call[c].got)
  /\ drop_worker_of_request(j)
  /\ Goto(c, "fail", "rejected")
  /\ UNCHANGED <<result, jobs, stash, store>>

(* OpenVM verifies in a local subprocess; when that stays unavailable the  *)
(* proof counts as invalid.                                                *)
verifier_unavailable(c) ==
  LET j == call[c].job IN
  /\ call[c].at = "verdict"
  /\ call[c].got \in {"good", "malformed", "invalid"}
  /\ SurfaceOf[j] = "openvm"
  /\ drop_worker_of_request(j)
  /\ Goto(c, "fail", "unavailable")
  /\ UNCHANGED <<result, jobs, stash, store>>

stash_receipt(c) ==
  /\ call[c].at = "stash"
  /\ stash' = [stash EXCEPT ![call[c].job] = "verified"]
  /\ Respond(c, "SUCCEEDED")
  /\ UNCHANGED <<reg, result, jobs, store>>

(* Faulty variant: the failure is answered and not recorded.               *)
record_nothing(c) ==
  /\ \/ call[c].at = "fail"
     \/ call[c].at = "verdict" /\ call[c].got = "lost"
  /\ Respond(c, "FAILED")
  /\ UNCHANGED <<reg, result, jobs, stash, store>>

(* Lost, unexecutable, or rejected: recorded as the job's terminal error.  *)
record_failure(c) ==
  /\ \/ call[c].at = "fail"
     \/ call[c].at = "verdict" /\ call[c].got = "lost"
  /\ jobs' = [jobs EXCEPT ![call[c].job] = "failed"]
  /\ Respond(c, "FAILED")
  /\ UNCHANGED <<reg, result, stash, store>>

StatusStep(c) ==
  \/ check_stash(c) \/ get_proof_status(c) \/ no_result(c) \/ worker_answers(c)
  \/ report_running(c) \/ accept(c) \/ reject(c) \/ stash_receipt(c)
  \/ record_failure(c)

Serves(c, surface) == call[c].job # NoRequest /\ SurfaceOf[call[c].job] = surface

handle_session_status(c) == Serves(c, "session") /\ StatusStep(c)
handle_snark_status(c) == Serves(c, "snark") /\ StatusStep(c)
handle_proof_status(c) == Serves(c, "openvm") /\ (StatusStep(c) \/ verifier_unavailable(c))

call_ends(c) ==
  /\ call[c].at = "answered"
  /\ call' = [call EXCEPT ![c] = NoCall]
  /\ UNCHANGED <<reg, result, jobs, stash, store>>

(* The client goes away and the task is dropped wherever it waits.         *)
client_leaves(c) ==
  /\ Disconnects
  /\ call[c].at \notin {"idle", "answered"}
  /\ call' = [call EXCEPT ![c] = NoCall]
  /\ UNCHANGED <<reg, result, jobs, stash, store>>

Elsewhere(j) ==
  /\ WorkerFinishes(j) \/ RegistryMoves(j)
  /\ UNCHANGED <<programs, inputs, jobs, routed, stash, call>>

Next ==
  \/ \E p \in Image, v \in Version : handle_image_put(p, v)
  \/ \E p \in Program, v \in Version : handle_program_put(p, v)
  \/ \E j \in Request : handle_input_put(j) \/ handle_receipt_put(j)
  \/ \E j \in Request :
       handle_session_create(j) \/ handle_snark_create(j) \/ handle_proof_create(j)
  \/ \E c \in Call, j \in Request : look_up(c, j)
  \/ \E c \in Call :
       handle_session_status(c) \/ handle_snark_status(c) \/ handle_proof_status(c)
  \/ \E c \in Call : call_ends(c) \/ client_leaves(c)
  \/ \E j \in Request : Elsewhere(j)

Spec == Init /\ [][Next]_vars

(* Handlers run, clients keep polling each of their jobs and from some     *)
(* point on wait for the answers, a worker that keeps a proof long enough  *)
(* finishes it, and one that is asked again and again answers in time at   *)
(* some point.                                                             *)
FairSpec ==
  /\ Spec
  /\ <>[][\A c \in Call : ~client_leaves(c)]_vars
  /\ \A c \in Call :
       /\ WF_vars(handle_session_status(c) \/ handle_snark_status(c)
                    \/ handle_proof_status(c))
       /\ WF_vars(call_ends(c))
       /\ SF_vars(worker_answers(c))
       /\ \A j \in Request : SF_vars(look_up(c, j))
  /\ \A j \in Request : WF_vars(WorkerFinishes(j) /\ Elsewhere(j))

-----------------------------------------------------------------------------
(* Type invariant; a status call is about a job that exists.               *)
TypeOK ==
  /\ reg \in [Request -> Standing]
  /\ result \in [Request -> Result]
  /\ programs \in [Image \cup Program -> Version \cup {NoVersion}]
  /\ inputs \subseteq Request
  /\ jobs \in [Request -> {"absent", "open", "failed"}]
  /\ routed \in [Request -> Version \cup {NoVersion}]
  /\ stash \in [Request -> {"none", "verified", "uploaded"}]
  /\ call \in [Call -> [job : Request \cup {NoRequest}, at : At,
                        got : Result \cup {"none", "asked", "running", "lost",
                              "rejected", "unavailable",
                              "SUCCEEDED", "FAILED", "RUNNING"}]]
  /\ \A c \in Call :
       call[c].at # "idle" => call[c].job # NoRequest /\ jobs[call[c].job] # "absent"

(* What a handler stashes as a job's proof is right, and of contents that  *)
(* were uploaded under the id it is checked against, whatever is uploaded  *)
(* while it is proved and whatever receipt a snark was made from.          *)
(* SUCCEEDED is answered only when there is a receipt to download.         *)
StashVerified ==
  /\ \A j \in Request : stash[j] = "verified" => result[j] = "good" /\ routed[j] \in Version
  /\ \A c \in Call : call[c].got = "SUCCEEDED" => Stashed(call[c].job)

(* The proof that a handler has stashed does not occupy its worker any     *)
(* more.  (A client's own receipt is answered without asking the worker.)  *)
WorkerReleased == \A j \in Request : stash[j] = "verified" => reg[j] # "busy"

(* No job both has its worker's proof and is recorded as failed: polled    *)
(* with one call at a time, such a job keeps its verdict.                  *)
VerdictsAgree == \A j \in Request : stash[j] = "verified" => jobs[j] # "failed"

(* A job that is recorded as failed is not waiting for a worker: none will *)
(* be spent on a proof that no status call fetches any more.  The verdict  *)
(* is recorded steps after the registry was asked, by any of the calls.    *)
FailedNotQueued == \A j \in Request : jobs[j] = "failed" => reg[j] # "queued"

(* A status call that comes when a verified proof is stashed is not        *)
(* answered FAILED.                                                        *)
StashedIsSucceeded ==
  [][\A c \in Call, j \in Request :
       stash[j] = "verified" /\ look_up(c, j) => call'[c].got # "FAILED"]_vars

(* A job that gets a worker is settled: it has a receipt or it fails, also *)
(* when a client left between the release of the worker and the stash.     *)
Settles ==
  \A j \in Request : reg[j] = "busy" ~> Stashed(j) \/ jobs[j] = "failed"
=============================================================================
