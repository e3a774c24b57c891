--------------------------- MODULE MCOpenVmWorker ---------------------------
(***************************************************************************)
(* Two calls at a time are what it takes for one to kill another's child.  *)
(***************************************************************************)
EXTENDS OpenVmWorker, TLC

CONSTANTS c1, c2, k1, k2
=============================================================================
