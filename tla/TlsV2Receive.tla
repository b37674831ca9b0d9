---------------------------- MODULE TlsV2Receive ----------------------------
(***************************************************************************)
(* One direction of one connection, byte by byte: a peer sends length-     *)
(* prefixed messages (tlsv2_client_send_json), TLS hands them over in      *)
(* pieces of any size, and tlsv2_json_try_receive of                       *)
(* src/src/wrappers/c/tls_wrapper_v2.c cuts them out of in_buf again.      *)
(*                                                                         *)
(* A byte is its offset in the peer's stream, so that a byte lost, doubled *)
(* or moved is seen.  What the Hdr bytes of a header decode to is looked   *)
(* up in the history of what was sent.                                     *)
(***************************************************************************)
EXTENDS Integers, Sequences

CONSTANTS Hdr,       \* bytes of the length prefix, 4 in the code
          MaxJson,   \* TLSV2_MAX_JSON_SIZE
          Lens,      \* lengths the peer announces
          MaxCount   \* bound: messages the peer sends

ASSUME ReceiveConstants ==
    /\ Hdr \in Nat \ {0}
    /\ MaxJson \in Nat \ {0}
    /\ Lens \subseteq Nat
    /\ MaxCount \in Nat

VARIABLES
    sent,         \* messages announced: where their header starts, their length
    total,        \* bytes written by the peer so far
    left,         \* payload bytes of the last message still to be written
    wire,         \* bytes written and not yet read
    inBuf,        \* the first in_used bytes of in_buf
    expectedLen,  \* expected_len
    delivered,    \* what on_json_received was handed, in order
    phase,        \* what the server does with this client
    why           \* why it closed it

sendVars == <<sent, total, left>>
vars == <<sendVars, wire, inBuf, expectedLen, delivered, phase, why>>

Cap == Hdr + MaxJson   \* sizeof(in_buf)

\* n bytes of the stream, after the first `from'.
Bytes(from, n) == [k \in 1..n |-> from + k]
Payload(m) == Bytes(sent[m].start + Hdr, sent[m].len)

Init ==
    /\ sent = <<>> /\ total = 0 /\ left = 0
    /\ wire = <<>> /\ inBuf = <<>> /\ expectedLen = 0
    /\ delivered = <<>>
    /\ phase = "wait" /\ why = "open"

-----------------------------------------------------------------------------
(* The peer: tlsv2_client_send_json writes the header, then the payload *)

SendHeader(len) ==
    /\ left = 0 /\ Len(sent) < MaxCount /\ phase # "closed"
    /\ sent' = Append(sent, [start |-> total, len |-> len])
    /\ wire' = wire \o Bytes(total, Hdr)
    /\ total' = total + Hdr
    /\ left' = len
    /\ UNCHANGED <<inBuf, expectedLen, delivered, phase, why>>

SendPayload(n) ==
    /\ n \in 1..left /\ phase # "closed"
    /\ wire' = wire \o Bytes(total, n)
    /\ total' = total + n
    /\ left' = left - n
    /\ UNCHANGED <<sent, inBuf, expectedLen, delivered, phase, why>>

-----------------------------------------------------------------------------
(* The server: tlsv2_json_try_receive *)

\* select() reports the client readable.
Polled ==
    /\ phase = "wait" /\ wire # <<>>
    /\ phase' = "read"
    /\ UNCHANGED <<sendVars, wire, inBuf, expectedLen, delivered, why>>

\* SSL_read puts up to the free space behind what in_buf holds.
ReadSome(n) ==
    /\ phase = "read"
    /\ n <= Len(wire) /\ n <= Cap - Len(inBuf)
    /\ inBuf' = inBuf \o SubSeq(wire, 1, n)
    /\ wire' = SubSeq(wire, n + 1, Len(wire))
    /\ phase' = "parse"
    /\ UNCHANGED <<sendVars, expectedLen, delivered, why>>

\* SSL_ERROR_WANT_READ ends the call.
ReadWants ==
    /\ phase = "read" /\ wire = <<>>
    /\ phase' = "wait"
    /\ UNCHANGED <<sendVars, wire, inBuf, expectedLen, delivered, why>>

\* A failing call makes the caller close the client, which empties in_buf.
Close(reason) ==
    /\ phase' = "closed" /\ why' = reason
    /\ inBuf' = <<>> /\ expectedLen' = 0

\* With no space left SSL_read is asked for nothing and returns 0: an error.
ReadFull ==
    /\ phase = "read" /\ wire # <<>> /\ Len(inBuf) = Cap
    /\ Close("full")
    /\ UNCHANGED <<sendVars, wire, delivered>>

\* What ntohl() of the first Hdr bytes of b can be: the length of the message
\* whose header they are, anything if they are no header.
Announced(b) ==
    LET M == {m \in DOMAIN sent : \A k \in 1..Hdr : b[k] = sent[m].start + k} IN
    IF M = {} THEN 0..(MaxJson + 1) ELSE {sent[m].len : m \in M}

\* The length the turn of the inner loop works with, once there is a header.
Expected == IF expectedLen # 0 THEN {expectedLen} ELSE Announced(inBuf)

HeaderKnown == expectedLen # 0 \/ Len(inBuf) >= Hdr

\* The turns of the inner loop: no header yet ...
ParseNoHeader ==
    /\ phase = "parse" /\ ~HeaderKnown
    /\ phase' = "read"
    /\ UNCHANGED <<sendVars, wire, inBuf, expectedLen, delivered, why>>

\* ... a length that is refused ...
ParseRefuses ==
    /\ phase = "parse" /\ HeaderKnown
    /\ \E e \in Expected : e > MaxJson
    /\ Close("oversize")
    /\ UNCHANGED <<sendVars, wire, delivered>>

\* Fault for the checks: the bytes behind the frame are moved one too far.
ParseMovesWrong ==
    /\ phase = "parse" /\ HeaderKnown
    /\ \E e \in Expected :
        /\ e <= MaxJson /\ e > 0 /\ Len(inBuf) >= Hdr + e
        /\ delivered' = Append(delivered, SubSeq(inBuf, Hdr + 1, Hdr + e))
        /\ inBuf' = SubSeq(inBuf, Hdr + e + 2, Len(inBuf))
        /\ expectedLen' = 0
    /\ UNCHANGED <<sendVars, wire, phase, why>>

\* ... a complete frame, which is copied out, closed up by memmove and handed
\* to on_json_received ...
ParseDelivers ==
    /\ phase = "parse" /\ HeaderKnown
    /\ \E e \in Expected :
        /\ e <= MaxJson /\ e > 0 /\ Len(inBuf) >= Hdr + e
        /\ delivered' = Append(delivered, SubSeq(inBuf, Hdr + 1, Hdr + e))
        /\ inBuf' = SubSeq(inBuf, Hdr + e + 1, Len(inBuf))
        /\ expectedLen' = 0
    /\ UNCHANGED <<sendVars, wire, phase, why>>

\* ... unless malloc() fails ...
ParseNoMemory ==
    /\ phase = "parse" /\ HeaderKnown
    /\ \E e \in Expected : e <= MaxJson /\ e > 0 /\ Len(inBuf) >= Hdr + e
    /\ Close("memory")
    /\ UNCHANGED <<sendVars, wire, delivered>>

\* Fault for the checks: a frame counts as complete only when a byte follows.
ParseWaitsForMore ==
    /\ phase = "parse" /\ HeaderKnown
    /\ \E e \in Expected :
        /\ e <= MaxJson
        /\ e = 0 \/ Len(inBuf) <= Hdr + e
        /\ expectedLen' = e
    /\ phase' = "read"
    /\ UNCHANGED <<sendVars, wire, inBuf, delivered, why>>

\* ... or a frame that is not complete.
ParseIncomplete ==
    /\ phase = "parse" /\ HeaderKnown
    /\ \E e \in Expected :
        /\ e <= MaxJson
        /\ e = 0 \/ Len(inBuf) < Hdr + e
        /\ expectedLen' = e
    /\ phase' = "read"
    /\ UNCHANGED <<sendVars, wire, inBuf, delivered, why>>

-----------------------------------------------------------------------------
Receive ==
    \/ Polled
    \/ \E n \in 1..Cap : ReadSome(n)
    \/ ReadWants \/ ReadFull
    \/ ParseNoHeader \/ ParseRefuses \/ ParseDelivers \/ ParseIncomplete

Next ==
    \/ \E len \in Lens : SendHeader(len)
    \/ \E n \in 1..left : SendPayload(n)
    \/ Receive
    \/ ParseNoMemory

Spec == Init /\ [][Next]_vars

-----------------------------------------------------------------------------
(* Properties *)

TypeOK ==
    /\ sent \in Seq([start : Nat, len : Lens])
    /\ total \in Nat /\ left \in Nat
    /\ wire \in Seq(Nat) /\ inBuf \in Seq(Nat)
    /\ expectedLen \in Nat
    /\ delivered \in Seq(Seq(Nat))
    /\ phase \in {"wait", "read", "parse", "closed"}
    /\ why \in {"open", "full", "oversize", "memory"}

\* However the stream is cut into pieces, on_json_received gets exactly the
\* messages that were sent, byte for byte and in order.
DeliveredIntact ==
    /\ Len(delivered) <= Len(sent)
    /\ \A m \in 1..Len(delivered) : delivered[m] = Payload(m)

\* A call of tlsv2_json_try_receive closes a client for its framing only if the
\* message it should get next is longer than TLSV2_MAX_JSON_SIZE, and runs out
\* of room in in_buf only behind the header of an empty one.
ClosedForCause ==
    /\ why \in {"oversize", "full"} => Len(delivered) < Len(sent)
    /\ why = "oversize" => sent[Len(delivered) + 1].len > MaxJson
    /\ why = "full" => sent[Len(delivered) + 1].len = 0

\* A message that was written completely, with no empty one up to it, reaches
\* the application unless the server closed the client.
NonEmptyDelivered ==
    \A m \in 1..MaxCount :
        (Len(sent) >= m /\ left = 0 /\ \A k \in 1..m : sent[k].len # 0)
            ~> (Len(delivered) >= m \/ phase = "closed")
=============================================================================
