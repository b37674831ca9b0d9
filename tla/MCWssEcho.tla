----------------------------- MODULE MCWssEcho -----------------------------
(* WssEcho for TLC: texts at the edges of the length encodings and of the   *)
(* buffers.                                                                *)
EXTENDS WssEcho

T(len, blanks) == [len |-> len, blanks |-> blanks]
FTextsDef == {T(119, 0), T(120, 0)}
CTextsDef == {T(121, 1), T(4091, 0), T(65536, 0)}
=============================================================================
