------------------------- MODULE MCContemplantLink -------------------------
(***************************************************************************)
(* Two sockets: one that is left to itself, and the one that replaces it.  *)
(***************************************************************************)
EXTENDS ContemplantLink, TLC

CONSTANTS s1, s2
=============================================================================
