----------------------------- MODULE MCRestJobs -----------------------------
(***************************************************************************)
(* A Bonsai session, the snark that wraps it, and an OpenVM proof.         *)
(***************************************************************************)
EXTENDS RestJobs

CONSTANTS j1, k1, o1, img, prog, c1, c2

MCSurfaceOf == [j \in Request |-> CASE j = j1 -> "session"
                                     [] j = k1 -> "snark"
                                     [] j = o1 -> "openvm"]
MCSourceOf == [j \in Request |-> IF j = k1 THEN j1 ELSE j]
MCProgramOf == [j \in Request |-> IF j = o1 THEN prog ELSE img]

(* Bonsai and OpenVM share nothing but the registry, where a request has a *)
(* row of its own: a behaviour is followed on one of the two only.         *)
OneSurface ==
  \/ programs'[prog] = NoVersion /\ o1 \notin inputs'
  \/ programs'[img] = NoVersion /\ j1 \notin inputs'
=============================================================================
