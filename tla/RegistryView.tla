---------------------------- MODULE RegistryView ----------------------------
(***************************************************************************)
(* What the worker registry promises the front ends about a proof request: *)
(* it is unknown, queued or at a worker.  Only a submission brings in an   *)
(* unknown request; a queued one gets a worker or is dropped; one at a     *)
(* worker leaves it and is unknown, unless it is submitted again in the    *)
(* step that evicts its worker.  Workers that have expired are evicted     *)
(* with any step, each with its request.  The view does not tell which     *)
(* step is a submission: that no other step takes a request from a worker  *)
(* to the queue is EntersBySubmission of WorkerRegistry.                   *)
(***************************************************************************)
CONSTANT Request

VARIABLE reg

Standing == {"unknown", "queued", "busy"}

ViewInit == reg = [r \in Request |-> "unknown"]

Move(r, to, lost) ==
  reg' = [q \in Request |-> IF q = r THEN to
                            ELSE IF q \in lost THEN "unknown" ELSE reg[q]]

Busy == {r \in Request : reg[r] = "busy"}

(* The queue may be full: then the request is dropped at once.             *)
Submit(r) ==
  \E to \in Standing, lost \in SUBSET Busy :
    reg[r] = "unknown" /\ Move(r, to, lost)

(* Resubmitting what is known changes nothing but evictions.  A request    *)
(* whose worker is evicted just then is submitted as a new one: placed,    *)
(* queued or, when the queue is full, dropped.                             *)
Resubmit(r) ==
  \E to \in Standing, lost \in SUBSET Busy :
    /\ reg[r] # "unknown"
    /\ to = reg[r] \/ reg[r] = "busy"
    /\ Move(r, to, lost)

Placed(r) == reg[r] = "queued" /\ Move(r, "busy", {})

Dropped(r) == reg[r] = "queued" /\ Move(r, "unknown", {})

(* Completed, unexecutable, or evicted.                                    *)
Leave(lost) ==
  reg' = [q \in Request |-> IF q \in lost THEN "unknown" ELSE reg[q]]

ViewNext ==
  \/ \E r \in Request : Submit(r) \/ Resubmit(r) \/ Placed(r) \/ Dropped(r)
  \/ \E lost \in SUBSET Busy : Leave(lost)

ViewSpec == ViewInit /\ [][ViewNext]_reg
=============================================================================
