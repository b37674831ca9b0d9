-------------------------- MODULE MCTlsClientConns --------------------------
(* TlsClientConns for TLC. *)
EXTENDS TlsClientConns, TLC

Symmetry == Permutations(Conn) \cup Permutations(Fd)
=============================================================================
