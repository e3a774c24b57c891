---------------------------- MODULE ProofRouter ----------------------------
(***************************************************************************)
(* What a front end sees when it submits a proof request or asks for its   *)
(* status through src/hierophant/src/proof/router.rs: the registry's view  *)
(* of the request and the answers of its worker, with the status           *)
(* conversions of proof/status.rs.  Commands travel first-in-first-out, so *)
(* a command takes effect where it is sent; a worker's answer comes later. *)
(***************************************************************************)
EXTENDS RegistryView

VARIABLE result  \* [Request -> what its worker has to show for it]

Result == {"proving", "good", "malformed", "invalid", "unexecutable"}

RouterInit == ViewInit /\ result = [r \in Request |-> "proving"]

(* Front ends draw a fresh id for every request and submit it once.        *)
assign_proof_request(r) == \E to \in Standing : reg[r] = "unknown" /\ Move(r, to, {})

(* Faulty variant: only the workers are searched for the request.          *)
AskedOfWorkers(r) == IF reg[r] = "busy" THEN {"asked", "lost"} ELSE {"lost"}

(* proof_status_request: nobody has it, it is queued, or the worker is     *)
(* asked; a worker whose socket is closed counts as lost.                  *)
Asked(r) ==
  CASE reg[r] = "unknown" -> {"lost"}
    [] reg[r] = "queued" -> {"running"}
    [] OTHER -> {"asked", "lost"}

(* A late answer counts as running, so does "unknown" within the grace     *)
(* period; after it the request is lost.                                   *)
NoResult == {"running", "lost"}

(* The worker's answer: Unexecutable frees the worker before it is relayed *)
(* and is reported, like a lost request, as unfulfillable.                 *)
Answer(r) == IF result[r] = "unexecutable" THEN "lost" ELSE result[r]

Relayed(r) ==
  Leave(IF result[r] = "unexecutable" THEN {r} \cap Busy ELSE {})

proof_complete(r) == Leave({r} \cap Busy)

drop_worker_of_request(r) == Leave({r} \cap Busy)

(* The worker and the registry on their own.                               *)
WorkerFinishes(r) ==
  /\ reg[r] = "busy"
  /\ result[r] = "proving"
  /\ \E res \in Result \ {"proving"} : result' = [result EXCEPT ![r] = res]
  /\ UNCHANGED reg

RegistryMoves(r) ==
  /\ Placed(r) \/ Dropped(r) \/ (reg[r] = "busy" /\ Leave({r}))
  /\ UNCHANGED result
=============================================================================
