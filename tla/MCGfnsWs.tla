----------------------------- MODULE MCGfnsWs ------------------------------
(* GfnsWs for TLC. *)
EXTENDS GfnsWs, TLC

Symmetry == Permutations(Ws \ Talker)
=============================================================================
