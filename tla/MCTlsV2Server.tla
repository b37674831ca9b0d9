--------------------------- MODULE MCTlsV2Server ---------------------------
(* TlsV2Server for TLC. *)
EXTENDS TlsV2Server, TLC

Symmetry == Permutations(Conn) \cup Permutations(Fd)
=============================================================================
