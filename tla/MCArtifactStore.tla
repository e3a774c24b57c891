--------------------------- MODULE MCArtifactStore ---------------------------
EXTENDS ArtifactStore

CONSTANTS s1, s2, x1

(* Proofs more than their ring holds, an input of each kind, a program.    *)
MCProofs == {"proof1", "proof2", "proof3", "proof4"}
MCUri == MCProofs \cup {s1, s2, x1}
MCTypeOf ==
  [u \in MCUri |-> CASE u = s1 -> "Stdin"
                     [] u = s2 -> "PrivateStdin"
                     [] u = x1 -> "Program"
                     [] OTHER -> "Proof"]
MCMax == [k \in {"proofs", "stdins"} |-> IF k = "proofs" THEN 3 ELSE 1]
MCWriteFails == {"write"}
=============================================================================
