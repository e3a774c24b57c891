------------------------------ MODULE MCSp1Jobs ------------------------------
(***************************************************************************)
(* g1 needs the Groth16 circuit, p1 the Plonk circuit and x1 none; one     *)
(* client.                                                                 *)
(***************************************************************************)
EXTENDS Sp1Jobs, TLC

CONSTANTS g1, p1, x1, c1

MCCircuitOf == (g1 :> "groth16") @@ (p1 :> "plonk") @@ (x1 :> "none")
=============================================================================
