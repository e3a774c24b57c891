--------------------------- MODULE MCContemplant ---------------------------
(***************************************************************************)
(* s1, s2 and the mock proof m1 are for SP1, o1 is for OpenVM, z1 for      *)
(* RISC Zero.                                                              *)
(***************************************************************************)
EXTENDS Contemplant

CONSTANTS s1, s2, m1, o1, z1

MCVmOf == [r \in Request |-> CASE r \in {s1, s2, m1} -> "sp1"
                               [] r = o1 -> "openvm"
                               [] r = z1 -> "risc0"]
MCMock == Request \cap {m1}
MCConfigs == {{"sp1"}, {MCVmOf[r] : r \in Request}}
=============================================================================
