---------------------------- MODULE ArtifactStore ----------------------------
(***************************************************************************)
(* The artifact store of the Hierophant                                    *)
(* (src/hierophant/src/artifact_store): one task owns the index and        *)
(* handles one command at a time; the files are in a directory of its own. *)
(* Proofs and standard inputs are kept in two rings, each new artifact     *)
(* taking the place of the oldest; the other types are kept for ever.      *)
(***************************************************************************)
EXTENDS Integers, Sequences, FiniteSets

CONSTANTS
  Uri,        \* the artifact uris that are ever created
  TypeOf,     \* [Uri -> artifact type]
  Default,    \* ArtifactUri::default(), what an unused slot holds
  Max,        \* [Ring -> number of artifacts kept]
  Failures    \* which file operations may fail: "write", "remove"

Ring == {"proofs", "stdins"}

(* The ring the type is trimmed with; private inputs share the stdins'.    *)
RingOf(u) ==
  CASE TypeOf[u] = "Proof" -> "proofs"
    [] TypeOf[u] \in {"Stdin", "PrivateStdin"} -> "stdins"
    [] OTHER -> "kept"

ASSUME StoreAssumption ==
  /\ Default \notin Uri
  /\ Max \in [Ring -> Nat \ {0}]
  /\ Failures \subseteq {"write", "remove"}

VARIABLES
  upload_uris,  \* uris valid for upload
  slots,        \* stdin_artifacts and proof_artifacts
  index,        \* where the next artifact of each ring goes
  disk          \* the uris whose file exists

vars == <<upload_uris, slots, index, disk>>

Slot(k) == 0..(Max[k] - 1)

EmptySlots == [k \in Ring |-> [i \in Slot(k) |-> Default]]

Init ==
  /\ upload_uris = {}
  /\ slots = EmptySlots
  /\ index = [k \in Ring |-> 0]
  /\ disk = {}

(* A restart of the Hierophant: what the old directory held is deleted.    *)
new ==
  /\ upload_uris' = {}
  /\ slots' = EmptySlots
  /\ index' = [k \in Ring |-> 0]
  /\ disk' = {}

(* The new uri carries a random id: it is not one created before.          *)
handle_create_artifact(u) ==
  /\ u \notin upload_uris
  /\ upload_uris' = upload_uris \cup {u}
  /\ UNCHANGED <<slots, index, disk>>

(* Faulty variant: the next index skips a slot.                            *)
increment_by_two(k) == (index[k] + 2) % Max[k]

(* Faulty variant: the index is not advanced.                              *)
increment_nothing(k) == index[k]

increment_current_artifact_index(k) == (index[k] + 1) % Max[k]

(* Faulty variant: the file of the slot that is reused stays.              *)
handle_delete_nothing(u) == {disk}

(* Removing the file of what a slot held; an error is only logged.         *)
handle_delete_artifact(u) ==
  {disk \ {u}} \cup (IF "remove" \in Failures THEN {disk} ELSE {})

(* A uri of a ring's type takes the slot at the ring's index.              *)
TakeSlot(u) ==
  LET k == RingOf(u) IN
  IF k \in Ring
  THEN /\ slots' = [slots EXCEPT ![k][index[k]] = u]
       /\ index' = [index EXCEPT ![k] = increment_current_artifact_index(k)]
  ELSE UNCHANGED <<slots, index>>

(* What can be left on disk once the slot for u has been emptied.          *)
Trimmed(u) ==
  LET k == RingOf(u) IN
  IF k \in Ring /\ slots[k][index[k]] # Default
  THEN handle_delete_artifact(slots[k][index[k]])
  ELSE {disk}

(* Saving to an unregistered uri fails, saving what exists does nothing:   *)
(* neither changes the state.  The slot is taken before the file is        *)
(* written, also when the write then fails; the failed write may leave a   *)
(* truncated file or none.                                                 *)
handle_save_artifact(u) ==
  /\ u \in upload_uris
  /\ u \notin disk
  /\ TakeSlot(u)
  /\ \E d \in Trimmed(u) :
       \/ disk' = d \cup {u}
       \/ "write" \in Failures /\ disk' = d
  /\ UNCHANGED upload_uris

Next ==
  \/ new
  \/ \E u \in Uri : handle_create_artifact(u)
  \/ \E u \in Uri : handle_save_artifact(u)

Spec == Init /\ [][Next]_vars

-----------------------------------------------------------------------------
Files(k) == {u \in disk : RingOf(u) = k}
Entries(k) == {slots[k][i] : i \in Slot(k)} \ {Default}

Holds(k) == {u \in Uri : RingOf(u) = k} \cup {Default}

(* Type invariant: a ring holds uris of its own type, and only registered  *)
(* uris are written.                                                       *)
TypeOK ==
  /\ upload_uris \subseteq Uri
  /\ slots = [k \in Ring |-> slots[k]]
  /\ \A k \in Ring : slots[k] \in [Slot(k) -> Holds(k)]
  /\ index \in [Ring -> Nat]
  /\ \A k \in Ring : index[k] \in Slot(k)
  /\ disk \subseteq upload_uris

(* Every file of a trimmed type is in its ring, whatever writes fail: none *)
(* escapes the trimming.                                                   *)
FilesTracked ==
  "remove" \notin Failures => \A k \in Ring : Files(k) \subseteq Entries(k)

(* So the disk never holds more artifacts of a type than configured.       *)
DiskBounded ==
  "remove" \notin Failures => \A k \in Ring : Cardinality(Files(k)) <= Max[k]

(* The unused slots are those from the index on: a slot is reused only     *)
(* when none is free.                                                      *)
FillsInOrder ==
  \A k \in Ring :
    \/ \A i \in Slot(k) : slots[k][i] # Default
    \/ \A i \in Slot(k) : slots[k][i] = Default <=> i >= index[k]

(* A file is deleted only once its ring is full (or the store restarts):   *)
(* the budget an operator configured is really available.                  *)
NoEarlyEviction ==
  [][\A u \in disk \ disk' :
       upload_uris \subseteq upload_uris'
         => \A i \in Slot(RingOf(u)) : slots[RingOf(u)][i] # Default]_vars

(* With a disk that does not fail, what the rings name is exactly what the *)
(* disk holds, each artifact in one slot: deleting an old entry never      *)
(* removes the file of a younger one.                                      *)
RingMatchesDisk ==
  Failures = {} =>
    \A k \in Ring :
      /\ Files(k) = Entries(k)
      /\ \A i, j \in Slot(k) :
           i # j /\ slots[k][i] # Default => slots[k][i] # slots[k][j]

StoreInv == TypeOK /\ FilesTracked /\ FillsInOrder /\ RingMatchesDisk

-----------------------------------------------------------------------------
(* The ring read from its oldest slot on: from the start while it fills,   *)
(* from the index once it is full.                                         *)
Filling(k) == slots[k][index[k]] = Default
Oldest(k) == IF Filling(k) THEN 0 ELSE index[k]
Used(k) == IF Filling(k) THEN index[k] ELSE Max[k]

Chronicle(k) == [i \in 1..Used(k) |-> slots[k][(Oldest(k) + i - 1) % Max[k]]]

Window ==
  INSTANCE ArtifactWindow
    WITH recent <- [k \in Ring |-> Chronicle(k)], files <- disk,
         WritesFail <- "write" \in Failures

(* The store implements the window: whatever writes fail and wherever the  *)
(* index has wrapped, what a save deletes is the file named by the oldest  *)
(* of the last Max saves of its type, and nothing else disappears.  An     *)
(* artifact that is saved again after its write failed is still named by   *)
(* the older slot and goes with it, before the ring has turned once.       *)
KeepsLatest == Window!Spec

(* The full term: a file is deleted only by the Max-th save of its type    *)
(* begun after the one that took its slot (handle_save_artifact).  Where   *)
(* the disk does not fail the uri has no other slot, so these are Max      *)
(* further saves; that it has a younger one needs a failed write.          *)
FullTerm ==
  [][\A u \in disk \ disk' :
       upload_uris \subseteq upload_uris' =>
         LET s == Chronicle(RingOf(u)) IN
           /\ Len(s) = Max[RingOf(u)] /\ s[1] = u
           /\ (\E i \in 2..Len(s) : s[i] = u) => Failures # {}]_vars
=============================================================================
