--------------------------- MODULE RestJobsProofs ---------------------------
(***************************************************************************)
(* Proofs about the REST front ends, for any number of jobs of the three   *)
(* kinds, any uploads, and any number of status calls of one job at once.  *)
(***************************************************************************)
EXTENDS RestJobs, TLAPS

Proof == {"good", "malformed", "invalid"}

Got == Result \cup {"none", "asked", "running", "lost", "rejected", "unavailable",
                    "SUCCEEDED", "FAILED", "RUNNING"}

CallRecord == [job : Request \cup {NoRequest}, at : At, got : Got]

Calls == [Call -> CallRecord]

Stashes == [Request -> {"none", "verified", "uploaded"}]

(* A job gets a worker once: until it exists the registry does not know    *)
(* it, and once its worker is done it is not queued again.                 *)
OnceAtWorker ==
  \A j \in Request :
    /\ jobs[j] = "absent" => reg[j] = "unknown"
    /\ result[j] # "proving" => reg[j] # "queued" /\ jobs[j] # "absent"

(* What a handler carries from the worker's answer to the stash is what    *)
(* the worker made; a proof on its way to the stash has freed the worker   *)
(* and is of contents that were uploaded.                                  *)
CarriesResult ==
  \A c \in Call :
    /\ call[c].got \in Proof =>
         call[c].job \in Request /\ result[call[c].job] = call[c].got
    /\ call[c].got = "SUCCEEDED" => call[c].job \in Request
    /\ call[c].at = "stash" =>
         call[c].got = "good" /\ reg[call[c].job] # "busy" /\ routed[call[c].job] \in Version

(* What a job is verified against was uploaded before it was created, and  *)
(* is replaced but never removed: "missing at verify time" is not reached. *)
ContentThere ==
  \A j \in Request : jobs[j] # "absent" => programs[ProgramOf[SourceOf[j]]] \in Version

(* Jobs that exist keep existing, and calls are about such jobs.           *)
AboutJobs ==
  \A c \in Call :
    call[c].at # "idle" => call[c].job # NoRequest /\ jobs[call[c].job] # "absent"

RestInv ==
  /\ TypeOK /\ OnceAtWorker /\ CarriesResult /\ ContentThere
  /\ StashVerified /\ WorkerReleased

-----------------------------------------------------------------------------
LEMMA TypeParts ==
  TypeOK <=>
    /\ reg \in [Request -> Standing]
    /\ result \in [Request -> Result]
    /\ programs \in [Image \cup Program -> Version \cup {NoVersion}]
    /\ inputs \subseteq Request
    /\ jobs \in [Request -> {"absent", "open", "failed"}]
    /\ routed \in [Request -> Version \cup {NoVersion}]
    /\ stash \in Stashes
    /\ call \in Calls
    /\ AboutJobs
  BY DEF TypeOK, Calls, CallRecord, Got, AboutJobs, Stashes

(* A handler that goes on changes its own row, and keeps its job.          *)
LEMMA GotoType ==
  ASSUME call \in Calls, NEW c \in Call, NEW at \in At, NEW got \in Got, Goto(c, at, got)
  PROVE  /\ call' \in Calls
         /\ call'[c].job = call[c].job /\ call'[c].at = at /\ call'[c].got = got
         /\ \A d \in Call \ {c} : call'[d] = call[d]
  <1>1. call[c] \in CallRecord
    BY DEF Calls
  <1>2. call' = [call EXCEPT ![c] = [call[c] EXCEPT !.at = at, !.got = got]]
    BY <1>1 DEF Goto, Calls, CallRecord
  <1>3. [call[c] EXCEPT !.at = at, !.got = got] \in CallRecord
    BY <1>1 DEF CallRecord
  <1>4. /\ [call[c] EXCEPT !.at = at, !.got = got].job = call[c].job
        /\ [call[c] EXCEPT !.at = at, !.got = got].at = at
        /\ [call[c] EXCEPT !.at = at, !.got = got].got = got
    BY <1>1 DEF CallRecord
  <1> QED
    BY <1>2, <1>3, <1>4 DEF Calls

(* The registry lets go of some of its busy requests, and does nothing     *)
(* else.                                                                   *)
LEMMA LeaveType ==
  ASSUME NEW lost, reg \in [Request -> Standing], Leave(lost)
  PROVE  /\ reg' \in [Request -> Standing]
         /\ \A q \in Request : reg'[q] = IF q \in lost THEN "unknown" ELSE reg[q]
  BY DEF Leave, Standing

(* A step of a handler: its own row, some requests leave the registry, a   *)
(* job may be recorded as failed and a right proof may be stashed.         *)
LEMMA HandlerStep ==
  ASSUME RestInv, NEW c \in Call, NEW at \in At, NEW got \in Got,
         call[c].at # "idle", Goto(c, at, got),
         reg' \in [Request -> Standing],
         \A q \in Request : reg'[q] \in {reg[q], "unknown"},
         jobs' \in [Request -> {"absent", "open", "failed"}],
         \A q \in Request : jobs'[q] = "absent" <=> jobs[q] = "absent",
         stash' \in Stashes, \A q \in Request : Stashed(q) => Stashed(q)',
         \A q \in Request : stash'[q] = "verified" /\ stash[q] # "verified" =>
            result[q] = "good" /\ reg'[q] # "busy" /\ routed[q] \in Version,
         UNCHANGED <<result, store>>,
         got \in Proof => result[call[c].job] = got,
         got = "SUCCEEDED" => stash'[call[c].job] # "none",
         at = "stash" =>
           got = "good" /\ reg'[call[c].job] # "busy" /\ routed[call[c].job] \in Version
  PROVE  RestInv'
  <1>a. /\ reg \in [Request -> Standing] /\ result \in [Request -> Result]
        /\ programs \in [Image \cup Program -> Version \cup {NoVersion}]
        /\ inputs \subseteq Request
        /\ jobs \in [Request -> {"absent", "open", "failed"}]
        /\ routed \in [Request -> Version \cup {NoVersion}]
        /\ stash \in Stashes /\ call \in Calls /\ AboutJobs
    BY TypeParts DEF RestInv
  <1>b. /\ call' \in Calls
        /\ call'[c].job = call[c].job /\ call'[c].at = at /\ call'[c].got = got
        /\ \A d \in Call \ {c} : call'[d] = call[d]
    BY <1>a, GotoType
  <1>c. call[c].job \in Request /\ \A d \in Call : call[d].job \in Request \cup {NoRequest}
    BY <1>a DEF AboutJobs, Calls, CallRecord
  <1>1. AboutJobs'
    BY <1>a, <1>b, <1>c DEF AboutJobs, Calls, CallRecord
  <1>2. TypeOK'
    BY <1>a, <1>b, <1>1 DEF TypeOK, Calls, CallRecord, Got, AboutJobs, Stashes, store
  <1>3. OnceAtWorker'
    BY <1>a DEF OnceAtWorker, RestInv
  <1>4. CarriesResult'
    <2> SUFFICES ASSUME NEW d \in Call
                 PROVE  (/\ call[d].got \in Proof =>
                             call[d].job \in Request /\ result[call[d].job] = call[d].got
                         /\ call[d].got = "SUCCEEDED" => call[d].job \in Request
                         /\ call[d].at = "stash" =>
                             /\ call[d].got = "good" /\ reg[call[d].job] # "busy"
                             /\ routed[call[d].job] \in Version)'
      BY DEF CarriesResult
    <2>1. CASE d = c
      BY <1>b, <1>c, <2>1 DEF store
    <2>2. CASE d # c
      <3>1. call'[d] = call[d] /\ result' = result /\ routed' = routed
        BY <1>b, <2>2 DEF store
      <3>2. call[d].got = "good" => call[d].job \in Request
        BY DEF RestInv, CarriesResult, Proof
      <3> QED
        BY <3>1, <3>2 DEF RestInv, CarriesResult, Proof
    <2> QED
      BY <2>1, <2>2
  <1>5. StashVerified'
    <2>1. \A q \in Request : stash'[q] = "verified" => result'[q] = "good" /\ routed'[q] \in Version
      BY DEF StashVerified, RestInv, store
    <2>2. ASSUME NEW d \in Call, call'[d].got = "SUCCEEDED" PROVE Stashed(call[d].job)'
      <3>1. CASE d = c
        BY <2>2, <3>1, <1>b DEF Stashed
      <3>2. CASE d # c
        <4>1. Stashed(call[d].job) /\ call'[d].job = call[d].job
          BY <2>2, <3>2, <1>b DEF StashVerified, RestInv
        <4>2. call[d].job \in Request
          BY <2>2, <3>2, <1>b DEF RestInv, CarriesResult
        <4> QED
          BY <4>1, <4>2 DEF Stashed
      <3> QED
        BY <3>1, <3>2
    <2> QED
      BY <2>1, <2>2 DEF StashVerified
  <1>6. WorkerReleased'
    BY <1>a DEF WorkerReleased, RestInv
  <1>7. ContentThere'
    BY DEF ContentThere, RestInv, store
  <1> QED
    BY <1>2, <1>3, <1>4, <1>5, <1>6, <1>7 DEF RestInv

(* The types that the steps below need.                                    *)
LEMMA InvTypes ==
  ASSUME RestInv
  PROVE  /\ reg \in [Request -> Standing] /\ result \in [Request -> Result]
         /\ programs \in [Image \cup Program -> Version \cup {NoVersion}]
         /\ inputs \subseteq Request
         /\ jobs \in [Request -> {"absent", "open", "failed"}]
         /\ routed \in [Request -> Version \cup {NoVersion}]
         /\ stash \in Stashes /\ call \in Calls /\ AboutJobs
         /\ \A c \in Call : call[c].at # "idle" => call[c].job \in Request
  <1>1. /\ reg \in [Request -> Standing] /\ result \in [Request -> Result]
        /\ programs \in [Image \cup Program -> Version \cup {NoVersion}]
        /\ inputs \subseteq Request
        /\ jobs \in [Request -> {"absent", "open", "failed"}]
        /\ routed \in [Request -> Version \cup {NoVersion}]
        /\ stash \in Stashes /\ call \in Calls /\ AboutJobs
    BY TypeParts DEF RestInv
  <1> QED
    BY <1>1 DEF AboutJobs, Calls, CallRecord

(* The status handlers keep the invariant.                                 *)
LEMMA StatusInv ==
  ASSUME RestInv, NEW c \in Call, StatusStep(c) \/ verifier_unavailable(c)
  PROVE  RestInv'
  <1>a. /\ reg \in [Request -> Standing] /\ result \in [Request -> Result]
        /\ jobs \in [Request -> {"absent", "open", "failed"}]
        /\ stash \in Stashes
    BY InvTypes
  <1>b. call[c].at # "idle" /\ call[c].job \in Request
    BY InvTypes DEF StatusStep, verifier_unavailable, check_stash, get_proof_status, no_result,
       worker_answers, report_running, accept, reject, stash_receipt, record_failure
  <1>c. /\ {"stashed?", "ask", "asked", "verdict", "fail", "stash", "answered"} \subseteq At
        /\ Result \subseteq Got /\ Proof \subseteq Result
        /\ {"none", "asked", "running", "lost", "rejected", "unavailable",
            "SUCCEEDED", "FAILED", "RUNNING"} \subseteq Got \ Proof
    BY DEF At, Got, Result, Proof
  <1>d. UNCHANGED stash =>
          /\ stash' \in Stashes
          /\ \A q \in Request : Stashed(q) <=> Stashed(q)'
          /\ \A q \in Request : stash'[q] = "verified" => stash[q] = "verified"
    BY <1>a DEF Stashed
  <1>1. CASE check_stash(c)
    <2>1. CASE Stashed(call[c].job)
      BY <1>1, <1>a, <1>b, <1>c, <1>d, <2>1, HandlerStep DEF check_stash, Respond, Stashed
    <2>2. CASE ~Stashed(call[c].job)
      BY <1>1, <1>a, <1>b, <1>c, <1>d, <2>2, HandlerStep DEF check_stash
    <2> QED
      BY <2>1, <2>2
  <1>2. CASE get_proof_status(c)
    <2>1. PICK st \in Asked(call[c].job) :
            Goto(c, IF st = "asked" THEN "asked" ELSE "verdict", st)
      BY <1>2 DEF get_proof_status
    <2>2. st \in {"lost", "running", "asked"}
      BY DEF Asked
    <2>3. st \in Got \ Proof /\ st # "SUCCEEDED"
      BY <2>2, <1>c
    <2> DEFINE to == IF st = "asked" THEN "asked" ELSE "verdict"
    <2>4. to \in At /\ to # "stash"
      BY <1>c
    <2> QED
      BY <1>2, <1>a, <1>b, <1>d, <2>1, <2>3, <2>4, HandlerStep DEF get_proof_status
  <1>3. CASE no_result(c)
    BY <1>3, <1>a, <1>b, <1>c, <1>d, HandlerStep DEF no_result, NoResult
  <1>4. CASE worker_answers(c)
    <2>1. /\ reg' \in [Request -> Standing]
          /\ \A q \in Request : reg'[q] \in {reg[q], "unknown"}
      BY <1>4, <1>a, LeaveType DEF worker_answers, Relayed
    <2>2. Answer(call[c].job) \in Got
      BY <1>a, <1>b, <1>c DEF Answer
    <2>3. Answer(call[c].job) \in Proof => result[call[c].job] = Answer(call[c].job)
      BY <1>c DEF Answer
    <2>4. Answer(call[c].job) # "SUCCEEDED"
      BY <1>a, <1>b DEF Answer, Result
    <2> QED
      BY <1>4, <1>a, <1>b, <1>c, <1>d, <2>1, <2>2, <2>3, <2>4, HandlerStep DEF worker_answers
  <1>5. CASE report_running(c)
    BY <1>5, <1>a, <1>b, <1>c, <1>d, HandlerStep DEF report_running, Respond
  <1>6. CASE accept(c)
    <2>1. /\ reg' \in [Request -> Standing]
          /\ \A q \in Request : reg'[q] \in {reg[q], "unknown"}
          /\ reg'[call[c].job] # "busy"
      BY <1>6, <1>a, <1>b, LeaveType DEF accept, proof_complete, Busy
    <2>2. result[call[c].job] = "good" /\ routed[call[c].job] \in Version
      BY <1>6, <1>b, InvTypes DEF accept, Verifies, Expected, RestInv, CarriesResult, Proof,
         ContentThere, AboutJobs
    <2>3. "good" \in Got /\ "good" # "SUCCEEDED"
      BY DEF Got, Result
    <2> QED
      BY <1>6, <1>a, <1>b, <1>c, <1>d, <2>1, <2>2, <2>3, HandlerStep DEF accept
  <1>7. CASE reject(c) \/ verifier_unavailable(c)
    <2>1. /\ reg' \in [Request -> Standing]
          /\ \A q \in Request : reg'[q] \in {reg[q], "unknown"}
      BY <1>7, <1>a, LeaveType DEF reject, verifier_unavailable, drop_worker_of_request
    <2> QED
      BY <1>7, <1>a, <1>b, <1>c, <1>d, <2>1, HandlerStep DEF reject, verifier_unavailable
  <1>8. CASE stash_receipt(c)
    <2>1. /\ result[call[c].job] = "good" /\ reg[call[c].job] # "busy"
          /\ routed[call[c].job] \in Version
      BY <1>8 DEF stash_receipt, RestInv, CarriesResult, Proof
    <2>2. stash' = [stash EXCEPT ![call[c].job] = "verified"]
      BY <1>8 DEF stash_receipt
    <2>3. /\ stash' \in Stashes /\ stash'[call[c].job] # "none"
          /\ \A q \in Request : Stashed(q) => Stashed(q)'
          /\ \A q \in Request : stash'[q] = "verified" /\ stash[q] # "verified" =>
               q = call[c].job
      BY <1>a, <1>b, <2>2 DEF Stashes, Stashed
    <2> QED
      BY <1>8, <1>a, <1>b, <1>c, <2>1, <2>3, HandlerStep DEF stash_receipt, Respond
  <1>9. CASE record_failure(c)
    <2>1. jobs' = [jobs EXCEPT ![call[c].job] = "failed"] /\ jobs[call[c].job] # "absent"
      BY <1>9, <1>b, InvTypes DEF record_failure, AboutJobs
    <2>2. /\ jobs' \in [Request -> {"absent", "open", "failed"}]
          /\ \A q \in Request : jobs'[q] = "absent" <=> jobs[q] = "absent"
      BY <1>a, <2>1
    <2> QED
      BY <1>9, <1>a, <1>b, <1>c, <1>d, <2>2, HandlerStep DEF record_failure, Respond
  <1> QED
    BY <1>1, <1>2, <1>3, <1>4, <1>5, <1>6, <1>7, <1>8, <1>9 DEF StatusStep

(* A call begins or ends.                                                  *)
LEMMA CallInv ==
  ASSUME RestInv, NEW c \in Call,
         (\E j \in Request : look_up(c, j)) \/ call_ends(c) \/ client_leaves(c)
  PROVE  RestInv'
  <1>a. /\ reg \in [Request -> Standing] /\ result \in [Request -> Result]
        /\ programs \in [Image \cup Program -> Version \cup {NoVersion}]
        /\ inputs \subseteq Request
        /\ jobs \in [Request -> {"absent", "open", "failed"}]
        /\ routed \in [Request -> Version \cup {NoVersion}]
        /\ stash \in Stashes /\ call \in Calls /\ AboutJobs
    BY InvTypes
  <1>1. UNCHANGED <<reg, result, jobs, stash, store>>
    BY DEF look_up, call_ends, client_leaves
  <1>2. PICK row \in CallRecord :
          /\ call' = [call EXCEPT ![c] = row]
          /\ row.got \notin Proof \cup {"SUCCEEDED"} /\ row.at # "stash"
          /\ row.at # "idle" => row.job \in Request /\ jobs[row.job] # "absent"
    <2>1. ASSUME NEW j \in Request, look_up(c, j)
          PROVE  \E row \in CallRecord :
                   /\ call' = [call EXCEPT ![c] = row]
                   /\ row.got \notin Proof \cup {"SUCCEEDED"} /\ row.at # "stash"
                   /\ row.at # "idle" => row.job \in Request /\ jobs[row.job] # "absent"
      <3> DEFINE row == IF jobs[j] = "failed"
                        THEN [job |-> j, at |-> "answered", got |-> "FAILED"]
                        ELSE [job |-> j, at |-> "stashed?", got |-> "none"]
      <3>1. row \in CallRecord
        BY DEF CallRecord, At, Got
      <3>2. row.got \notin Proof \cup {"SUCCEEDED"} /\ row.at # "stash" /\ row.job = j
        BY DEF Proof
      <3>3. call' = [call EXCEPT ![c] = row] /\ jobs[j] # "absent"
        BY <2>1 DEF look_up
      <3> QED
        BY <3>1, <3>2, <3>3
    <2>2. ASSUME call_ends(c) \/ client_leaves(c)
          PROVE  \E row \in CallRecord :
                   /\ call' = [call EXCEPT ![c] = row]
                   /\ row.got \notin Proof \cup {"SUCCEEDED"} /\ row.at # "stash"
                   /\ row.at # "idle" => row.job \in Request /\ jobs[row.job] # "absent"
      <3>1. NoCall \in CallRecord
        BY DEF NoCall, CallRecord, At, Got
      <3>2. NoCall.got \notin Proof \cup {"SUCCEEDED"} /\ NoCall.at = "idle"
        BY DEF NoCall, Proof
      <3>3. call' = [call EXCEPT ![c] = NoCall]
        BY <2>2 DEF call_ends, client_leaves
      <3> QED
        BY <3>1, <3>2, <3>3
    <2> QED
      BY <2>1, <2>2
  <1>3. call' \in Calls /\ call'[c] = row /\ \A d \in Call \ {c} : call'[d] = call[d]
    BY <1>a, <1>2 DEF Calls
  <1>4. AboutJobs'
    BY <1>a, <1>1, <1>2, <1>3, RestAssumption DEF AboutJobs
  <1>5. TypeOK'
    BY <1>a, <1>1, <1>3, <1>4 DEF TypeOK, Calls, CallRecord, Got, AboutJobs, Stashes, store
  <1>6. OnceAtWorker'
    BY <1>1 DEF OnceAtWorker, RestInv
  <1>7. CarriesResult'
    BY <1>1, <1>2, <1>3 DEF CarriesResult, RestInv, store
  <1>8. StashVerified'
    BY <1>1, <1>2, <1>3 DEF StashVerified, Stashed, RestInv, store
  <1>9. WorkerReleased' /\ ContentThere'
    BY <1>1 DEF WorkerReleased, ContentThere, RestInv, store
  <1> QED
    BY <1>5, <1>6, <1>7, <1>8, <1>9 DEF RestInv

(* Uploads, creation of jobs, and the registry and the workers.            *)
LEMMA OutsideInv ==
  ASSUME RestInv, UNCHANGED call,
         stash' \in Stashes, \A q \in Request : Stashed(q) => Stashed(q)',
         \A q \in Request : stash'[q] = "verified" => stash[q] = "verified",
         programs' \in [Image \cup Program -> Version \cup {NoVersion}],
         inputs' \subseteq Request,
         routed' \in [Request -> Version \cup {NoVersion}],
         jobs' \in [Request -> {"absent", "open", "failed"}],
         \A q \in Request : jobs[q] # "absent" => jobs'[q] # "absent",
         reg' \in [Request -> Standing], result' \in [Request -> Result],
         OnceAtWorker', ContentThere',
         \A q \in Request : jobs[q] # "absent" => routed'[q] = routed[q],
         \A q \in Request : result[q] # "proving" =>
            /\ result'[q] = result[q]
            /\ reg[q] # "busy" => reg'[q] # "busy"
  PROVE  RestInv'
  <1>a. stash \in Stashes /\ call \in Calls /\ AboutJobs
    BY InvTypes
  <1>b. \A c \in Call : call[c].at # "idle" => call[c].job \in Request
    BY InvTypes
  <1>c. \A q \in Request : result[q] # "proving" => jobs[q] # "absent"
    BY DEF RestInv, OnceAtWorker
  <1>1. AboutJobs'
    BY <1>a, <1>b DEF AboutJobs
  <1>2. TypeOK'
    BY <1>a, <1>1 DEF TypeOK, Calls, CallRecord, Got, AboutJobs, Stashes
  <1>3. CarriesResult'
    <2>1. \A c \in Call : call[c].got \in Proof => result'[call[c].job] = call[c].got
      BY DEF RestInv, CarriesResult, Proof
    <2>2. \A c \in Call : call[c].at = "stash" =>
            call[c].job \in Request /\ result[call[c].job] # "proving"
      BY DEF RestInv, CarriesResult, Proof
    <2>3. \A c \in Call : call[c].at = "stash" => routed'[call[c].job] \in Version
      BY <1>c, <2>2 DEF RestInv, CarriesResult
    <2> QED
      BY <2>1, <2>2, <2>3 DEF RestInv, CarriesResult, Proof
  <1>4. StashVerified'
    <2>1. \A q \in Request : stash'[q] = "verified" =>
            result'[q] = "good" /\ routed'[q] \in Version
      BY <1>c DEF StashVerified, RestInv
    <2>2. \A c \in Call : call[c].got = "SUCCEEDED" => Stashed(call[c].job)'
      BY DEF StashVerified, CarriesResult, RestInv, Stashed
    <2> QED
      BY <2>1, <2>2 DEF StashVerified, Stashed
  <1>5. WorkerReleased'
    BY <1>a DEF WorkerReleased, StashVerified, RestInv
  <1> QED
    BY <1>2, <1>3, <1>4, <1>5 DEF RestInv

LEMMA CreateInv ==
  ASSUME RestInv, NEW j \in Request, NEW content \in Version \cup {NoVersion},
         programs[ProgramOf[SourceOf[j]]] \in Version, Create(j, content)
  PROVE  RestInv'
  <1>a. /\ reg \in [Request -> Standing] /\ result \in [Request -> Result]
        /\ programs \in [Image \cup Program -> Version \cup {NoVersion}]
        /\ inputs \subseteq Request
        /\ jobs \in [Request -> {"absent", "open", "failed"}]
        /\ routed \in [Request -> Version \cup {NoVersion}]
    BY InvTypes
  <1>1. PICK to \in Standing : reg[j] = "unknown" /\ Move(j, to, {})
    BY DEF Create, assign_proof_request
  <1>2. /\ reg' \in [Request -> Standing]
        /\ \A q \in Request : q # j => reg'[q] = reg[q]
    BY <1>a, <1>1 DEF Move
  <1>3. jobs[j] = "absent" /\ jobs' = [jobs EXCEPT ![j] = "open"]
    BY DEF Create
  <1>4. result[j] = "proving" /\ UNCHANGED result
    BY <1>3 DEF Create, RestInv, OnceAtWorker
  <1>5. OnceAtWorker'
    BY <1>a, <1>2, <1>3, <1>4 DEF RestInv, OnceAtWorker
  <1>6. ContentThere'
    BY <1>a, <1>3 DEF Create, RestInv, ContentThere
  <1>7. /\ routed' \in [Request -> Version \cup {NoVersion}]
        /\ \A q \in Request : jobs[q] # "absent" => routed'[q] = routed[q]
    BY <1>a, <1>3 DEF Create
  <1>8. stash' = stash /\ stash \in Stashes
    BY InvTypes DEF Create
  <1>9. /\ jobs' \in [Request -> {"absent", "open", "failed"}]
        /\ \A q \in Request : jobs[q] # "absent" => jobs'[q] # "absent"
    BY <1>a, <1>3
  <1> QED
    BY <1>a, <1>2, <1>3, <1>4, <1>5, <1>6, <1>7, <1>8, <1>9, OutsideInv DEF Create, Stashed

LEMMA ElsewhereInv ==
  ASSUME RestInv, NEW j \in Request, Elsewhere(j)
  PROVE  RestInv'
  <1>a. /\ reg \in [Request -> Standing] /\ result \in [Request -> Result]
        /\ programs \in [Image \cup Program -> Version \cup {NoVersion}]
        /\ inputs \subseteq Request
        /\ jobs \in [Request -> {"absent", "open", "failed"}]
        /\ routed \in [Request -> Version \cup {NoVersion}]
    BY InvTypes
  <1>b. /\ stash \in Stashes /\ stash' = stash /\ programs' = programs /\ routed' = routed
        /\ jobs' = jobs
    BY InvTypes DEF Elsewhere
  <1>c. ContentThere' /\ \A q \in Request : Stashed(q) => Stashed(q)'
    BY <1>b DEF RestInv, ContentThere, Stashed
  <1>1. CASE WorkerFinishes(j)
    <2>1. PICK res \in Result \ {"proving"} : result' = [result EXCEPT ![j] = res]
      BY <1>1 DEF WorkerFinishes
    <2>2. reg[j] = "busy" /\ result[j] = "proving" /\ UNCHANGED <<reg, jobs>>
      BY <1>1 DEF WorkerFinishes, Elsewhere
    <2>3. result' \in [Request -> Result] /\ \A q \in Request \ {j} : result'[q] = result[q]
      BY <1>a, <2>1
    <2>4. OnceAtWorker'
      BY <1>a, <2>1, <2>2, <2>3 DEF RestInv, OnceAtWorker
    <2> QED
      BY <1>a, <1>b, <1>c, <2>2, <2>3, <2>4, OutsideInv DEF Elsewhere
  <1>2. CASE RegistryMoves(j)
    <2>1. /\ reg' \in [Request -> Standing] /\ UNCHANGED <<result, jobs>>
          /\ \A q \in Request \ {j} : reg'[q] = reg[q]
          /\ reg[j] # "unknown"
          /\ reg'[j] = "unknown" \/ (reg[j] = "queued" /\ reg'[j] = "busy")
      BY <1>2, <1>a DEF RegistryMoves, Elsewhere, Placed, Dropped, Leave, Move, Standing
    <2>2. OnceAtWorker'
      BY <1>a, <2>1 DEF RestInv, OnceAtWorker
    <2>3. \A q \in Request : result[q] # "proving" => (reg[q] # "busy" => reg'[q] # "busy")
      BY <2>1 DEF RestInv, OnceAtWorker
    <2> QED
      BY <1>a, <1>b, <1>c, <2>1, <2>2, <2>3, OutsideInv DEF Elsewhere
  <1> QED
    BY <1>1, <1>2 DEF Elsewhere

LEMMA InitInv == Init => RestInv
  <1> SUFFICES ASSUME Init PROVE RestInv
    OBVIOUS
  <1>1. NoCall \in CallRecord /\ NoCall.at = "idle" /\ NoCall.got = "none"
    BY DEF NoCall, CallRecord, At, Got
  <1>2. call \in Calls /\ \A c \in Call : call[c] = NoCall
    BY <1>1 DEF Init, Calls
  <1>3. TypeOK
    BY <1>1, <1>2, TypeParts DEF Init, RouterInit, ViewInit, Standing, Result, AboutJobs,
       Stashes
  <1>4. OnceAtWorker /\ WorkerReleased /\ ContentThere
    BY DEF Init, RouterInit, ViewInit, OnceAtWorker, WorkerReleased, ContentThere
  <1>5. CarriesResult /\ StashVerified
    BY <1>1, <1>2 DEF Init, CarriesResult, StashVerified, Proof
  <1> QED
    BY <1>3, <1>4, <1>5 DEF RestInv

LEMMA SourceFacts ==
  ASSUME NEW j \in Request
  PROVE  /\ SourceOf[j] \in Request /\ ProgramOf[SourceOf[j]] \in Image \cup Program
         /\ SurfaceOf[j] # "snark" => SourceOf[j] = j
         /\ SurfaceOf[j] = "snark" => SourceOf[SourceOf[j]] = SourceOf[j]
  BY RestAssumption

(* Uploads leave the jobs alone; a receipt of a client's is no proof of a  *)
(* worker's.                                                               *)
LEMMA UploadInv ==
  ASSUME RestInv,
         \/ \E p \in Image \cup Program, v \in Version : Put(p, v)
         \/ \E j \in Request : handle_input_put(j) \/ handle_receipt_put(j)
  PROVE  RestInv'
  <1>a. /\ reg \in [Request -> Standing] /\ result \in [Request -> Result]
        /\ programs \in [Image \cup Program -> Version \cup {NoVersion}]
        /\ inputs \subseteq Request
        /\ jobs \in [Request -> {"absent", "open", "failed"}]
        /\ routed \in [Request -> Version \cup {NoVersion}]
        /\ stash \in Stashes
    BY InvTypes
  <1>1. /\ UNCHANGED <<reg, result, jobs, routed, call>>
        /\ programs' \in [Image \cup Program -> Version \cup {NoVersion}]
        /\ \A p \in Image \cup Program : programs[p] \in Version => programs'[p] \in Version
        /\ inputs' \subseteq Request
    BY <1>a DEF Put, handle_input_put, handle_receipt_put
  <1>2. /\ stash' \in Stashes
        /\ \A q \in Request : Stashed(q) => Stashed(q)'
        /\ \A q \in Request : stash'[q] = "verified" => stash[q] = "verified"
    BY <1>a DEF Put, handle_input_put, handle_receipt_put, Stashes, Stashed
  <1>3. OnceAtWorker'
    BY <1>1 DEF RestInv, OnceAtWorker
  <1>4. ContentThere'
    BY <1>1, SourceFacts DEF RestInv, ContentThere
  <1> QED
    BY <1>a, <1>1, <1>2, <1>3, <1>4, OutsideInv

LEMMA StepInv == RestInv /\ [Next]_vars => RestInv'
  <1> SUFFICES ASSUME RestInv, [Next]_vars PROVE RestInv'
    OBVIOUS
  <1>a. /\ programs \in [Image \cup Program -> Version \cup {NoVersion}]
        /\ routed \in [Request -> Version \cup {NoVersion}]
    BY InvTypes
  <1>1. ASSUME \/ \E p \in Image \cup Program, v \in Version : Put(p, v)
               \/ \E j \in Request : handle_input_put(j) \/ handle_receipt_put(j)
        PROVE  RestInv'
    BY <1>1, UploadInv
  <1>2. ASSUME NEW j \in Request, handle_session_create(j) \/ handle_proof_create(j)
        PROVE  RestInv'
    <2>1. /\ SurfaceOf[j] # "snark" /\ programs[ProgramOf[j]] # NoVersion
          /\ Create(j, programs[ProgramOf[j]])
      BY <1>2 DEF handle_session_create, handle_proof_create, Uploaded
    <2>2. SourceOf[j] = j /\ ProgramOf[j] \in Image \cup Program
      BY <2>1, SourceFacts
    <2> QED
      BY <1>a, <2>1, <2>2, CreateInv
  <1>3. ASSUME NEW j \in Request, handle_snark_create(j) PROVE RestInv'
    <2>1. /\ SurfaceOf[j] = "snark" /\ jobs[SourceOf[j]] # "absent"
          /\ \E content \in ReceiptOf(SourceOf[j]) : Create(j, content)
      BY <1>3 DEF handle_snark_create
    <2>2. SourceOf[j] \in Request /\ SourceOf[SourceOf[j]] = SourceOf[j]
      BY <2>1, SourceFacts
    <2>3. programs[ProgramOf[SourceOf[j]]] \in Version
      BY <2>1, <2>2 DEF RestInv, ContentThere
    <2>4. ReceiptOf(SourceOf[j]) \subseteq Version \cup {NoVersion}
      BY <1>a, <2>2 DEF ReceiptOf
    <2> QED
      BY <2>1, <2>3, <2>4, CreateInv
  <1>4. ASSUME NEW c \in Call, NEW j \in Request, look_up(c, j) PROVE RestInv'
    BY <1>4, CallInv
  <1>5. ASSUME NEW c \in Call,
               handle_session_status(c) \/ handle_snark_status(c) \/ handle_proof_status(c)
        PROVE  RestInv'
    BY <1>5, StatusInv DEF handle_session_status, handle_snark_status, handle_proof_status
  <1>6. ASSUME NEW c \in Call, call_ends(c) \/ client_leaves(c) PROVE RestInv'
    BY <1>6, CallInv
  <1>7. ASSUME NEW j \in Request, Elsewhere(j) PROVE RestInv'
    BY <1>7, ElsewhereInv
  <1>8. CASE UNCHANGED vars
    BY <1>8 DEF vars, RestInv, TypeOK, OnceAtWorker, CarriesResult, ContentThere,
       StashVerified, Stashed, WorkerReleased
  <1> QED
    BY <1>1, <1>2, <1>3, <1>4, <1>5, <1>6, <1>7, <1>8
    DEF Next, handle_image_put, handle_program_put

(* The inductive invariant of the three front ends: types, a worker for a  *)
(* job at most once, handlers that carry what the worker made, and         *)
(* programs that are still there when a proof is verified.                 *)
THEOREM RestInvariant == Spec => []RestInv
  BY InitInv, StepInv, PTL DEF Spec

(* Type correctness; a status call is about a job that exists.             *)
THEOREM TypeCorrect == Spec => []TypeOK
  <1>1. RestInv => TypeOK
    BY DEF RestInv
  <1> QED
    BY <1>1, RestInvariant, PTL

(* Whatever calls of one job interleave, and whatever images, programs and *)
(* receipts are uploaded meanwhile, what handle_session_status,            *)
(* handle_snark_status and handle_proof_status stash is a right proof of   *)
(* uploaded contents, and they answer SUCCEEDED only if there is a receipt *)
(* to download.                                                            *)
THEOREM VerifiedStash == Spec => []StashVerified
  <1>1. RestInv => StashVerified
    BY DEF RestInv
  <1> QED
    BY <1>1, RestInvariant, PTL

(* The worker of a proof that a status handler stashed is free: it was     *)
(* released before, and no later step of the registry gives it the request *)
(* again.  Of a receipt that a client put there nothing of the kind holds. *)
THEOREM ReleasedWorker == Spec => []WorkerReleased
  <1>1. RestInv => WorkerReleased
    BY DEF RestInv
  <1> QED
    BY <1>1, RestInvariant, PTL

-----------------------------------------------------------------------------
(* One status call at a time.                                              *)

(* What the only handler has seen is still so: no proof of a worker's      *)
(* after its look at the stash, no terminal error after its look at the    *)
(* job.                                                                    *)
StillSeen ==
  \A c \in Call :
    /\ call[c].at \in {"ask", "asked", "verdict", "fail", "stash"} =>
         stash[call[c].job] # "verified"
    /\ call[c].at \notin {"idle", "answered"} => jobs[call[c].job] # "failed"

LEMMA StepSeen ==
  ASSUME \A c, d \in Call : c = d,
         RestInv, StillSeen, VerdictsAgree, [Next]_vars
  PROVE  StillSeen' /\ VerdictsAgree'
  <1>a. /\ jobs \in [Request -> {"absent", "open", "failed"}]
        /\ stash \in Stashes /\ call \in Calls
        /\ \A c \in Call : call[c].at # "idle" => call[c].job \in Request
    BY InvTypes
  <1>c. /\ {"stashed?", "ask", "asked", "verdict", "fail", "stash", "answered"} \subseteq At
        /\ Result \subseteq Got
        /\ {"none", "asked", "running", "lost", "rejected", "unavailable", "good",
            "SUCCEEDED", "FAILED", "RUNNING"} \subseteq Got
    BY DEF At, Got, Result
  <1>1. ASSUME UNCHANGED call,
               \A q \in Request : stash'[q] = "verified" => stash[q] = "verified",
               \A q \in Request : jobs'[q] = "failed" => jobs[q] = "failed"
        PROVE  StillSeen' /\ VerdictsAgree'
    BY <1>1, <1>a DEF StillSeen, VerdictsAgree
  <1>2. ASSUME NEW c \in Call, NEW at \in At, NEW got \in Got, call[c].at # "idle",
               Goto(c, at, got), UNCHANGED <<stash, jobs>>,
               at # "answered" =>
                 /\ call[c].at # "answered" /\ at # "idle"
                 /\ stash[call[c].job] # "verified"
        PROVE  StillSeen' /\ VerdictsAgree'
    BY <1>2, <1>a, GotoType DEF StillSeen, VerdictsAgree
  <1>3. ASSUME NEW c \in Call, StatusStep(c) \/ verifier_unavailable(c)
        PROVE  StillSeen' /\ VerdictsAgree'
    <2>1. CASE check_stash(c)
      BY <2>1, <1>2, <1>c DEF check_stash, Respond, Stashed
    <2>2. CASE get_proof_status(c)
      <3>1. PICK st \in Asked(call[c].job) :
              Goto(c, IF st = "asked" THEN "asked" ELSE "verdict", st)
        BY <2>2 DEF get_proof_status
      <3>2. st \in Got
        BY <1>c DEF Asked
      <3>3. CASE st = "asked"
        BY <2>2, <1>2, <1>c, <3>1, <3>2, <3>3 DEF get_proof_status, StillSeen
      <3>4. CASE st # "asked"
        BY <2>2, <1>2, <1>c, <3>1, <3>2, <3>4 DEF get_proof_status, StillSeen
      <3> QED
        BY <3>3, <3>4
    <2>3. CASE no_result(c)
      BY <2>3, <1>2, <1>c DEF no_result, NoResult, StillSeen
    <2>4. CASE worker_answers(c)
      <3>1. Answer(call[c].job) \in Got
        BY <2>4, <1>a, <1>c, InvTypes DEF worker_answers, Answer
      <3> QED
        BY <2>4, <1>2, <1>c, <3>1 DEF worker_answers, StillSeen
    <2>5. CASE report_running(c)
      BY <2>5, <1>2, <1>c DEF report_running, Respond
    <2>6. CASE accept(c)
      BY <2>6, <1>2, <1>c DEF accept, StillSeen
    <2>7. CASE reject(c) \/ verifier_unavailable(c)
      BY <2>7, <1>2, <1>c DEF reject, verifier_unavailable, StillSeen
    <2>8. CASE stash_receipt(c)
      <3>1. \A d \in Call : call'[d].at = "answered"
        BY <2>8, <1>a, <1>c, GotoType DEF stash_receipt, Respond
      <3>2. stash' = [stash EXCEPT ![call[c].job] = "verified"] /\ jobs' = jobs
        BY <2>8 DEF stash_receipt
      <3>3. jobs[call[c].job] # "failed"
        BY <2>8 DEF stash_receipt, StillSeen
      <3> QED
        BY <1>a, <3>1, <3>2, <3>3 DEF StillSeen, VerdictsAgree, Stashes
    <2>9. CASE record_failure(c)
      <3>1. \A d \in Call : call'[d].at = "answered"
        BY <2>9, <1>a, <1>c, GotoType DEF record_failure, Respond
      <3>2. jobs' = [jobs EXCEPT ![call[c].job] = "failed"] /\ stash' = stash
        BY <2>9 DEF record_failure
      <3>3. stash[call[c].job] # "verified"
        BY <2>9 DEF record_failure, StillSeen
      <3> QED
        BY <1>a, <3>1, <3>2, <3>3 DEF StillSeen, VerdictsAgree
    <2> QED
      BY <1>3, <2>1, <2>2, <2>3, <2>4, <2>5, <2>6, <2>7, <2>8, <2>9 DEF StatusStep
  <1>4. ASSUME NEW c \in Call, NEW j \in Request, look_up(c, j)
        PROVE  StillSeen' /\ VerdictsAgree'
    <2>1. /\ call'[c].at \in {"answered", "stashed?"} /\ call'[c].job = j
          /\ call'[c].at = "stashed?" => jobs[j] # "failed"
          /\ UNCHANGED <<jobs, stash>>
      BY <1>4, <1>a DEF look_up, Calls
    <2>2. \A d \in Call : d = c
      OBVIOUS
    <2> QED
      BY <2>1, <2>2 DEF StillSeen, VerdictsAgree
  <1>5. ASSUME NEW c \in Call, call_ends(c) \/ client_leaves(c)
        PROVE  StillSeen' /\ VerdictsAgree'
    <2>1. call'[c].at = "idle" /\ UNCHANGED <<jobs, stash>>
      BY <1>5, <1>a DEF call_ends, client_leaves, Calls, NoCall
    <2>2. \A d \in Call : d = c
      OBVIOUS
    <2> QED
      BY <2>1, <2>2 DEF StillSeen, VerdictsAgree
  <1>6. ASSUME NEW j \in Request, NEW content, Create(j, content)
        PROVE  StillSeen' /\ VerdictsAgree'
    BY <1>6, <1>1, <1>a DEF Create
  <1>7. ASSUME NEW j \in Request, handle_receipt_put(j)
        PROVE  StillSeen' /\ VerdictsAgree'
    BY <1>7, <1>1, <1>a DEF handle_receipt_put, Stashes
  <1> QED
    BY <1>1, <1>3, <1>4, <1>5, <1>6, <1>7
    DEF Next, vars, handle_image_put, handle_program_put, Put, handle_input_put,
        handle_session_create, handle_snark_create, handle_proof_create, Elsewhere,
        handle_session_status, handle_snark_status, handle_proof_status

(* With one status call at a time no job both has its worker's proof and   *)
(* is recorded as failed, whatever clients give up, workers vanish and     *)
(* receipts are uploaded: handle_session_status, handle_snark_status and   *)
(* handle_proof_status do not go back on a proof they have verified.       *)
THEOREM OneCallAgrees ==
  ASSUME \A c, d \in Call : c = d
  PROVE  Spec => []VerdictsAgree
  <1>1. Init => StillSeen /\ VerdictsAgree
    BY DEF Init, StillSeen, VerdictsAgree, NoCall
  <1>2. RestInv /\ StillSeen /\ VerdictsAgree /\ [Next]_vars => StillSeen' /\ VerdictsAgree'
    BY StepSeen
  <1> QED
    BY <1>1, <1>2, RestInvariant, PTL DEF Spec

-----------------------------------------------------------------------------
(* The front ends and the registry.                                        *)

(* What the front ends and the registry do to a request's standing.        *)
RegistryStep ==
  \/ UNCHANGED reg
  \/ \E j \in Request : jobs[j] = "absent" /\ assign_proof_request(j)
  \/ \E j \in Request : Placed(j) \/ Dropped(j)
  \/ \E lost \in SUBSET Busy : Leave(lost)

LEMMA NextRegistry ==
  ASSUME Next
  PROVE  RegistryStep
  <1>1. ASSUME NEW c \in Call, StatusStep(c) \/ verifier_unavailable(c) PROVE RegistryStep
    <2> DEFINE j == call[c].job
    <2>1. UNCHANGED reg \/ Leave({j} \cap Busy) \/ Leave({})
      BY <1>1 DEF StatusStep, check_stash, get_proof_status, no_result, worker_answers,
                  report_running, accept, reject, stash_receipt, record_failure,
                  verifier_unavailable, Relayed, proof_complete, drop_worker_of_request
    <2>2. {j} \cap Busy \in SUBSET Busy /\ {} \in SUBSET Busy
      OBVIOUS
    <2> QED
      BY <2>1, <2>2 DEF RegistryStep
  <1>2. ASSUME NEW j \in Request,
               handle_session_create(j) \/ handle_snark_create(j) \/ handle_proof_create(j)
        PROVE  RegistryStep
    BY <1>2 DEF RegistryStep, handle_session_create, handle_snark_create,
                handle_proof_create, Create
  <1>3. ASSUME NEW j \in Request, Elsewhere(j) PROVE RegistryStep
    <2>1. CASE reg[j] = "busy" /\ Leave({j})
      <3>1. {j} \in SUBSET Busy
        BY <2>1 DEF Busy
      <3> QED
        BY <2>1, <3>1 DEF RegistryStep
    <2> QED
      BY <1>3, <2>1 DEF Elsewhere, WorkerFinishes, RegistryMoves, RegistryStep
  <1>4. ASSUME UNCHANGED reg PROVE RegistryStep
    BY <1>4 DEF RegistryStep
  <1> QED
    BY <1>1, <1>2, <1>3, <1>4
    DEF Next, handle_image_put, handle_program_put, Put, handle_input_put,
        handle_receipt_put, look_up, handle_session_status, handle_snark_status,
        handle_proof_status, call_ends, client_leaves

(* The registry queues a request when it is submitted and at no other      *)
(* time.                                                                   *)
LEMMA NeverRequeued ==
  ASSUME RestInv, Next, NEW j \in Request, jobs[j] # "absent", reg[j] # "queued"
  PROVE  reg'[j] # "queued"
  <1>1. RegistryStep
    BY NextRegistry
  <1>2. ASSUME NEW i \in Request, jobs[i] = "absent", assign_proof_request(i)
        PROVE  reg'[j] # "queued"
    BY <1>2 DEF assign_proof_request, Move
  <1>3. ASSUME NEW i \in Request, Placed(i) \/ Dropped(i) PROVE reg'[j] # "queued"
    BY <1>3 DEF Placed, Dropped, Move
  <1>4. ASSUME NEW lost \in SUBSET Busy, Leave(lost) PROVE reg'[j] # "queued"
    BY <1>4 DEF Leave
  <1> QED
    BY <1>1, <1>2, <1>3, <1>4 DEF RegistryStep

(* A call that is going to record a failure, or may still be told of one,  *)
(* found the request out of the queue.                                     *)
ToldLost ==
  \A c \in Call :
    \/ call[c].at \in {"asked", "fail"}
    \/ call[c].at = "verdict" /\ call[c].got = "lost"
    => reg[call[c].job] # "queued"

LEMMA StepToldLost ==
  ASSUME RestInv, ToldLost, FailedNotQueued, Next
  PROVE  ToldLost' /\ FailedNotQueued'
  <1>a. /\ reg \in [Request -> Standing] /\ result \in [Request -> Result]
        /\ jobs \in [Request -> {"absent", "open", "failed"}]
        /\ call \in Calls
        /\ \A c \in Call : call[c].at # "idle" =>
             call[c].job \in Request /\ jobs[call[c].job] # "absent"
    BY InvTypes DEF AboutJobs
  <1>b. \A q \in Request : jobs[q] # "absent" /\ reg[q] # "queued" => reg'[q] # "queued"
    BY NeverRequeued
  <1>c. /\ {"stashed?", "ask", "asked", "verdict", "fail", "stash", "answered"} \subseteq At
        /\ Result \subseteq Got
        /\ {"none", "asked", "running", "lost", "rejected", "unavailable", "good",
            "SUCCEEDED", "FAILED", "RUNNING"} \subseteq Got
    BY DEF At, Got, Result
  <1>1. ASSUME UNCHANGED call PROVE ToldLost'
    BY <1>1, <1>a, <1>b DEF ToldLost
  <1>2. ASSUME \A q \in Request : jobs'[q] = "failed" => jobs[q] = "failed"
        PROVE  FailedNotQueued'
    BY <1>2, <1>a, <1>b DEF FailedNotQueued
  <1>3. ASSUME NEW c \in Call, NEW at \in At, NEW got \in Got, call[c].at # "idle",
               Goto(c, at, got),
               at \in {"asked", "fail"} \/ (at = "verdict" /\ got = "lost") =>
                 reg[call[c].job] # "queued"
        PROVE  ToldLost'
    <2>1. /\ call'[c].job = call[c].job /\ call'[c].at = at /\ call'[c].got = got
          /\ \A d \in Call \ {c} : call'[d] = call[d]
      BY <1>3, <1>a, GotoType
    <2> QED
      BY <1>3, <1>a, <1>b, <2>1 DEF ToldLost
  <1>4. ASSUME NEW c \in Call, StatusStep(c) \/ verifier_unavailable(c)
        PROVE  ToldLost' /\ FailedNotQueued'
    <2>1. CASE check_stash(c)
      BY <2>1, <1>2, <1>3, <1>c DEF check_stash, Respond
    <2>2. CASE get_proof_status(c)
      <3>1. PICK st \in Asked(call[c].job) :
              Goto(c, IF st = "asked" THEN "asked" ELSE "verdict", st)
        BY <2>2 DEF get_proof_status
      <3>2. /\ st \in {"lost", "running", "asked"}
            /\ st # "running" => reg[call[c].job] # "queued"
        BY DEF Asked
      <3>3. UNCHANGED jobs /\ call[c].at # "idle"
        BY <2>2 DEF get_proof_status
      <3>4. CASE st = "asked"
        BY <1>2, <1>3, <1>c, <3>1, <3>2, <3>3, <3>4
      <3>5. CASE st # "asked"
        BY <1>2, <1>3, <1>c, <3>1, <3>2, <3>3, <3>5
      <3> QED
        BY <3>4, <3>5
    <2>3. CASE no_result(c)
      BY <2>3, <1>2, <1>3, <1>c DEF no_result, NoResult, ToldLost
    <2>4. CASE worker_answers(c)
      <3>1. Answer(call[c].job) \in Got
        BY <2>4, <1>a, <1>c DEF worker_answers, Answer
      <3> QED
        BY <2>4, <1>2, <1>3, <1>c, <3>1 DEF worker_answers, ToldLost
    <2>5. CASE report_running(c) \/ accept(c) \/ stash_receipt(c)
      BY <2>5, <1>2, <1>3, <1>c DEF report_running, accept, stash_receipt, Respond
    <2>6. CASE reject(c) \/ verifier_unavailable(c)
      <3>1. /\ call[c].at = "verdict" /\ call[c].got \in Proof /\ UNCHANGED jobs
            /\ \E got \in {"rejected", "unavailable"} : Goto(c, "fail", got)
        BY <2>6 DEF reject, verifier_unavailable, Proof
      <3>2. reg[call[c].job] # "queued"
        BY <1>a, <3>1 DEF RestInv, CarriesResult, OnceAtWorker, Proof
      <3> QED
        BY <1>2, <1>3, <1>c, <3>1, <3>2
    <2>7. CASE record_failure(c)
      <3>1. /\ jobs' = [jobs EXCEPT ![call[c].job] = "failed"] /\ call[c].at # "idle"
            /\ Goto(c, "answered", "FAILED") /\ reg[call[c].job] # "queued"
        BY <2>7 DEF record_failure, Respond, ToldLost
      <3>2. ToldLost'
        BY <1>3, <1>c, <3>1
      <3> QED
        BY <1>a, <1>b, <3>1, <3>2 DEF FailedNotQueued
    <2> QED
      BY <1>4, <2>1, <2>2, <2>3, <2>4, <2>5, <2>6, <2>7 DEF StatusStep
  <1>5. ASSUME NEW c \in Call,
               (\E j \in Request : look_up(c, j)) \/ call_ends(c) \/ client_leaves(c)
        PROVE  ToldLost' /\ FailedNotQueued'
    <2>1. /\ call'[c].at \in {"answered", "stashed?", "idle"} /\ UNCHANGED jobs
          /\ \A d \in Call \ {c} : call'[d] = call[d]
      BY <1>5, <1>a DEF look_up, call_ends, client_leaves, NoCall, Calls
    <2>2. ToldLost'
      BY <1>a, <1>b, <2>1 DEF ToldLost
    <2> QED
      BY <1>2, <2>1, <2>2
  <1>6. ASSUME NEW j \in Request, NEW content, Create(j, content)
        PROVE  ToldLost' /\ FailedNotQueued'
    BY <1>6, <1>1, <1>2, <1>a DEF Create
  <1> QED
    BY <1>1, <1>2, <1>4, <1>5, <1>6
    DEF Next, handle_image_put, handle_program_put, Put, handle_input_put,
        handle_receipt_put, handle_session_create, handle_snark_create,
        handle_proof_create, Elsewhere, handle_session_status, handle_snark_status,
        handle_proof_status

(* However many status calls of a job interleave, when one of them records *)
(* its failure the registry does not have the job in its queue, and never  *)
(* has again (handle_session_status, handle_snark_status and               *)
(* handle_proof_status record a verdict they were given steps before).     *)
THEOREM FailedLeavesQueue == Spec => []FailedNotQueued
  <1>1. Init => ToldLost /\ FailedNotQueued
    BY DEF Init, ToldLost, FailedNotQueued, NoCall
  <1>2. RestInv /\ ToldLost /\ FailedNotQueued /\ [Next]_vars
          => ToldLost' /\ FailedNotQueued'
    <2>1. CASE UNCHANGED vars
      BY <2>1 DEF vars, ToldLost, FailedNotQueued
    <2> QED
      BY <2>1, StepToldLost
  <1> QED
    BY <1>1, <1>2, RestInvariant, PTL DEF Spec

(* A job that exists and that the registry does not know.                  *)
Lost(j) == jobs[j] # "absent" /\ reg[j] = "unknown"

StaysLost == \A j \in Request : Lost(j) => Lost(j)'

(* A job is submitted once.  When the registry has lost it, it never knows *)
(* it again, so a status call that was told so and waits for the state's   *)
(* lock to record the failure does not record it of a job that is running  *)
(* again meanwhile.                                                        *)
THEOREM LostForGood == Spec => [][StaysLost]_vars
  <1>1. RestInv /\ [Next]_vars => [StaysLost]_vars
    <2>1. SUFFICES ASSUME RestInv, RestInv', Next, NEW j \in Request, Lost(j)
                   PROVE  Lost(j)'
      BY StepInv DEF StaysLost
    <2>2. reg \in [Request -> Standing] /\ jobs \in [Request -> {"absent", "open", "failed"}]
      BY <2>1, TypeParts DEF RestInv
    <2>3. jobs'[j] # "absent"
      <3>1. \/ UNCHANGED jobs
            \/ \E i \in Request : jobs' = [jobs EXCEPT ![i] = "open"]
            \/ \E c \in Call : jobs' = [jobs EXCEPT ![call[c].job] = "failed"]
        BY <2>1
        DEF Next, handle_image_put, handle_program_put, Put, handle_input_put,
            handle_receipt_put, handle_session_create, handle_snark_create,
            handle_proof_create, Create, look_up, handle_session_status,
            handle_snark_status, handle_proof_status, StatusStep,
            check_stash, get_proof_status, no_result, worker_answers, report_running, accept,
            reject, stash_receipt, record_failure, verifier_unavailable, call_ends,
            client_leaves, Elsewhere
      <3> QED
        BY <2>1, <2>2, <3>1 DEF Lost
    <2>4. reg'[j] = "unknown"
      <3>1. RegistryStep
        BY <2>1, NextRegistry
      <3>2. ASSUME NEW i \in Request, jobs[i] = "absent", assign_proof_request(i)
            PROVE  reg'[j] = "unknown"
        BY <2>1, <3>2 DEF Lost, assign_proof_request, Move
      <3>3. ASSUME NEW i \in Request, Placed(i) \/ Dropped(i) PROVE reg'[j] = "unknown"
        BY <2>1, <3>3 DEF Lost, Placed, Dropped, Move
      <3>4. ASSUME NEW lost \in SUBSET Busy, Leave(lost) PROVE reg'[j] = "unknown"
        BY <2>1, <3>4 DEF Lost, Leave
      <3> QED
        BY <2>1, <3>1, <3>2, <3>3, <3>4 DEF RegistryStep, Lost
    <2> QED
      BY <2>3, <2>4 DEF Lost
  <1> QED
    BY <1>1, RestInvariant, PTL DEF Spec
=============================================================================
