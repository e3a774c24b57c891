-------------------------- MODULE MCWorkerRegistry --------------------------
(***************************************************************************)
(* WorkerRegistry for TLC.  p1 and p2 are two starts of one contemplant    *)
(* that a magister controls, p3 and p4 are two other contemplants.         *)
(***************************************************************************)
EXTENDS WorkerRegistry, TLC

CONSTANTS a1, a2, a3, p1, p2, p3, p4, r1, r2, r3, n1, n2, n3, ep

MCFewAddrs == {a1, a2}
MCAddr == {a1, a2, a3}
MCProcess == {p1, p2, p3, p4}
MCNameOf == [p \in Process |-> CASE p \in {p1, p2} -> n1
                                  [] p = p3 -> n2
                                  [] p = p4 -> n3]
MCEndpointOf == [p \in Process |-> IF p \in {p1, p2} THEN ep ELSE NoEndpoint]
MCCapability == {"sp1", "risc0", "groth16"}
MCOffers ==
  [p \in Process |-> CASE p = p1 -> {{"sp1", "risc0"}}
                       [] p = p2 -> {{"risc0"}}
                       [] p = p3 -> {MCCapability}
                       [] p = p4 -> {{"sp1"}}]
MCRequest == {r1, r2, r3}
MCNeeds == [r \in Request |-> CASE r = r1 -> {"sp1"}
                                [] r = r2 -> {"risc0"}
                                [] r = r3 -> {"risc0", "groth16"}]
MCVmOf == [r \in Request |-> IF r = r1 THEN "sp1" ELSE "risc0"]

MCFewProcesses == {p1, p3}
MCOneProcess == {p3}
MCFewRequests == {r1, r2}

Symmetry == Permutations(Addr) \cup Permutations(Poll)
=============================================================================
