--------------------------- MODULE ArtifactWindow ---------------------------
(***************************************************************************)
(* What the artifact store promises while its deletions work.  It          *)
(* remembers, per kind, the last Max saves that were begun; the next one   *)
(* deletes the file that the oldest of them names.  So an artifact can be  *)
(* downloaded until Max further saves of its kind were begun, counted from *)
(* the oldest remembered attempt to save it.  That is the full term of an  *)
(* artifact saved at the first attempt.  One whose write failed, and that  *)
(* was saved again, is named twice: it goes with the failed attempt,       *)
(* before Max saves have followed the one that wrote its file.             *)
(***************************************************************************)
EXTENDS Integers, Sequences

CONSTANTS Uri, Ring, RingOf(_), Max,
  WritesFail  \* whether a save may fail to write its file

VARIABLES
  recent,  \* [Ring -> the saves that were begun, oldest first]
  files    \* the artifacts that can be downloaded

vars == <<recent, files>>

Init == recent = [k \in Ring |-> <<>>] /\ files = {}

Restart == recent' = [k \in Ring |-> <<>>] /\ files' = {}

(* The file is written, or the save fails and is remembered all the same.  *)
Written(u, left) == files' = left \cup {u} \/ (WritesFail /\ files' = left)

SaveKept(u) ==
  /\ RingOf(u) \notin Ring
  /\ u \notin files
  /\ Written(u, files)
  /\ UNCHANGED recent

SaveWithin(u) ==
  LET k == RingOf(u) IN
  /\ k \in Ring
  /\ u \notin files
  /\ Len(recent[k]) < Max[k]
  /\ recent' = [recent EXCEPT ![k] = Append(@, u)]
  /\ Written(u, files)

(* The oldest attempt is forgotten and the file it names is deleted, also  *)
(* when a younger attempt wrote it.                                        *)
SaveReplacing(u) ==
  LET k == RingOf(u) IN
  /\ k \in Ring
  /\ u \notin files
  /\ Len(recent[k]) = Max[k]
  /\ recent' = [recent EXCEPT ![k] = Append(Tail(@), u)]
  /\ Written(u, files \ {Head(recent[k])})

Next ==
  \/ Restart
  \/ \E u \in Uri : SaveKept(u) \/ SaveWithin(u) \/ SaveReplacing(u)

Spec == Init /\ [][Next]_vars
=============================================================================
