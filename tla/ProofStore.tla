----------------------------- MODULE ProofStore -----------------------------
(***************************************************************************)
(* The proof store of a contemplant (src/contemplant/src/proof_store): one *)
(* task owns a ring of the last requests with the status of each, and      *)
(* handles one command at a time.                                          *)
(***************************************************************************)
EXTENDS Integers

CONSTANTS
  Request,
  NoRequest,        \* B256::default(), what an unused slot holds
  MaxProofsStored

ASSUME ProofStoreAssumption ==
  NoRequest \notin Request /\ MaxProofsStored \in Nat \ {0}

VARIABLES proofs, current_proof_index

storeVars == <<proofs, current_proof_index>>

Slot == 0..(MaxProofsStored - 1)

(* ProgressUpdate by its rank in the order of the type, 0 for None.        *)
Executing == 1
NoHistory == 2
Proving == 3
Done == 4

ProofStatus ==
  [req : Request \cup {NoRequest}, proof : BOOLEAN, progress : 0..Done,
   exec : {"unexecuted", "executed", "unexecutable"}]

Unused == [req |-> NoRequest, proof |-> FALSE, progress |-> 0, exec |-> "unexecutable"]
Unexecuted(r) == [req |-> r, proof |-> FALSE, progress |-> 0, exec |-> "unexecuted"]

StoreInit ==
  /\ proofs = [i \in Slot |-> Unused]
  /\ current_proof_index = 0

SlotsOf(r) == {i \in Slot : proofs[i].req = r}
Stored(r) == SlotsOf(r) # {}
First(r) == CHOOSE i \in SlotsOf(r) : \A j \in SlotsOf(r) : i <= j
GetProofStatus(r) == proofs[First(r)]

(* Faulty variant: the reported progress is taken as it comes.             *)
progress_update_latest(status, new) == [status EXCEPT !.progress = new]

(* Progress never goes back.                                               *)
progress_update(status, new) ==
  [status EXCEPT !.progress = IF new > @ THEN new ELSE @]

(* Faulty variant: the status changes, the proof field does not.           *)
status_update_only(status, exec, proof) == [status EXCEPT !.exec = exec]

status_update(status, exec, proof) ==
  [status EXCEPT !.exec = exec, !.proof = proof,
                 !.progress = IF proof THEN Done ELSE @]

(* A known request keeps its slot; a new one takes the place of the oldest.*)
InsertProof(r, status) ==
  IF Stored(r)
  THEN /\ proofs' = [proofs EXCEPT ![First(r)] = status]
       /\ UNCHANGED current_proof_index
  ELSE /\ proofs' = [proofs EXCEPT ![current_proof_index] = status]
       /\ current_proof_index' = (current_proof_index + 1) % MaxProofsStored

(* Updates of a request that is not stored are only logged.                *)
ProofProgressUpdate(r, new) ==
  /\ proofs' = IF Stored(r)
               THEN [proofs EXCEPT ![First(r)] = progress_update(@, new)]
               ELSE proofs
  /\ UNCHANGED current_proof_index

ProofStatusUpdate(r, exec, proof) ==
  /\ proofs' = IF Stored(r)
               THEN [proofs EXCEPT ![First(r)] = status_update(@, exec, proof)]
               ELSE proofs
  /\ UNCHANGED current_proof_index
=============================================================================
