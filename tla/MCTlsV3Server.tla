--------------------------- MODULE MCTlsV3Server ---------------------------
(* TlsV3Server for TLC. *)
EXTENDS TlsV3Server, TLC

Symmetry == Permutations(Conn) \cup Permutations(Fd)
=============================================================================
