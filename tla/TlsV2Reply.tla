----------------------------- MODULE TlsV2Reply -----------------------------
(***************************************************************************)
(* The other direction of a connection: the server's single out buffer     *)
(* (tlsv2_json_queue_send, tlsv2_json_flush), the TLS records it is        *)
(* written in, and the blocking tlsv2_client_recv_json at the other end    *)
(* (src/src/wrappers/c/tls_wrapper_v2.c).  Bytes are stream offsets, as in *)
(* TlsV2Receive.                                                           *)
(***************************************************************************)
EXTENDS Integers, Sequences

CONSTANTS Hdr,        \* bytes of the length prefix, 4 in the code
          MaxJson,    \* TLSV2_MAX_JSON_SIZE
          ReplyLens,  \* lengths of the server's messages
          RecMax,     \* payload of a TLS record, 16384 bytes
          MaxLen,     \* size of the buffer the caller of recv_json gives
          Wrap,       \* range of a uint32_t
          Texts,      \* lengths that bytes of a payload can be taken for
          MaxReplies  \* bound: messages the server queues

ASSUME ReplyConstants ==
    /\ Hdr \in Nat \ {0} /\ MaxJson \in Nat \ {0}
    /\ ReplyLens \subseteq Nat
    /\ RecMax \in Nat /\ RecMax >= Hdr
    /\ MaxLen \in Nat /\ MaxLen <= MaxJson + 1
    /\ Wrap \in Nat /\ 2 * (MaxJson + 1) < Wrap
    /\ Texts \subseteq 0..(Wrap - 1)
    /\ MaxReplies \in Nat

VARIABLES
    queued,     \* messages accepted for sending: stream offset and length
    outTotal,   \* bytes accepted for sending so far
    outBuf,     \* the first out_used bytes of out_buf
    outSent,    \* out_sent
    back,       \* TLS records on their way to the client
    lost,       \* the connection is gone
    cphase,     \* where the client is in tlsv2_client_recv_json
    nlen,       \* the length it has decoded
    cbuf,       \* the payload it has read so far
    got,        \* what recv_json returned to its caller, in order
    ret         \* its last return value

outVars == <<queued, outTotal, outBuf, outSent>>
clientVars == <<cphase, nlen, cbuf, got, ret>>
vars == <<outVars, back, lost, clientVars>>

Offsets(from, n) == [k \in 1..n |-> from + k]
Reply(m) == Offsets(queued[m].start + Hdr, queued[m].len)

Init ==
    /\ queued = <<>> /\ outTotal = 0
    /\ outBuf = <<>> /\ outSent = 0
    /\ back = <<>> /\ lost = FALSE
    /\ cphase = "app" /\ nlen = 0 /\ cbuf = <<>> /\ got = <<>> /\ ret = 0

-----------------------------------------------------------------------------
(* The server *)

\* Fault for the checks: a message still being sent is overwritten.
QueueOver(len) ==
    /\ Len(queued) < MaxReplies /\ ~lost
    /\ len <= MaxJson
    /\ outBuf' = Offsets(outTotal, Hdr + len) /\ outSent' = 0
    /\ queued' = Append(queued, [start |-> outTotal, len |-> len])
    /\ outTotal' = outTotal + Hdr + len
    /\ UNCHANGED <<back, lost, clientVars>>

\* tlsv2_json_queue_send accepts a message when none is pending.
Accepts(len) == len <= MaxJson /\ Len(outBuf) = outSent

QueueSend(len) ==
    /\ Len(queued) < MaxReplies /\ ~lost
    /\ Accepts(len)
    /\ outBuf' = Offsets(outTotal, Hdr + len) /\ outSent' = 0
    /\ queued' = Append(queued, [start |-> outTotal, len |-> len])
    /\ outTotal' = outTotal + Hdr + len
    /\ UNCHANGED <<back, lost, clientVars>>

\* Fault for the checks: one partial SSL_write counts as the whole message.
FlushResets ==
    /\ outSent < Len(outBuf) /\ ~lost
    /\ LET rest == Len(outBuf) - outSent
           n == IF rest > RecMax THEN RecMax ELSE rest
       IN  back' = Append(back, SubSeq(outBuf, outSent + 1, outSent + n))
    /\ outBuf' = <<>> /\ outSent' = 0
    /\ UNCHANGED <<queued, outTotal, lost, clientVars>>

\* tlsv2_json_flush: SSL_write sends what is left in records of RecMax bytes;
\* both counters are reset behind the last one.  (A call that wants to write
\* more later has sent some of the records.)
Flush ==
    /\ outSent < Len(outBuf) /\ ~lost
    /\ LET rest == Len(outBuf) - outSent
           n == IF rest > RecMax THEN RecMax ELSE rest
       IN  /\ back' = Append(back, SubSeq(outBuf, outSent + 1, outSent + n))
           /\ IF n = rest THEN outBuf' = <<>> /\ outSent' = 0
                          ELSE outSent' = outSent + n /\ UNCHANGED outBuf
    /\ UNCHANGED <<queued, outTotal, lost, clientVars>>

\* The connection ends; what was not written is dropped.
Break ==
    /\ ~lost
    /\ lost' = TRUE /\ outBuf' = <<>> /\ outSent' = 0
    /\ UNCHANGED <<queued, outTotal, back, clientVars>>

-----------------------------------------------------------------------------
(* The client: tlsv2_client_recv_json(sock, buf, maxlen) *)

RecvCall ==
    /\ cphase = "app"
    /\ cphase' = "header" /\ nlen' = 0 /\ cbuf' = <<>>
    /\ UNCHANGED <<outVars, back, lost, got, ret>>

Return(r) == cphase' = "app" /\ ret' = r

\* SSL_read of at most n bytes takes them from the first record only.
Taken(n) == IF Len(Head(back)) > n THEN n ELSE Len(Head(back))
Piece(n) == SubSeq(Head(back), 1, Taken(n))
RecordsAfter(n) == IF Taken(n) = Len(Head(back)) THEN Tail(back)
                   ELSE <<SubSeq(Head(back), Taken(n) + 1, Len(Head(back)))>> \o Tail(back)

\* What nlen can be after the header was read into it: the length sent, by a
\* client in step with the stream; one of Texts for bytes of a payload; anything
\* for a header cut short, which leaves some bytes of nlen uninitialised.
Decoded(b) ==
    LET M == {m \in DOMAIN queued : b = Offsets(queued[m].start, Hdr)}
        cut == \E m \in DOMAIN queued : b[1] \in queued[m].start + 1 .. queued[m].start + Hdr
    IN  IF M # {} THEN {queued[m].len : m \in M}
        ELSE IF cut THEN 0..(Wrap - 1)
        ELSE Texts

\* nlen + 1 > maxlen, in 32 bits: for 2^32 - 1 the sum is 0.
TooLong(n) == (n + 1) % Wrap > MaxLen

RecvHeader ==
    /\ cphase = "header" /\ back # <<>>
    /\ \E n \in Decoded(Piece(Hdr)) :
        /\ nlen' = n
        /\ IF TooLong(n) THEN Return(-3)
                         ELSE cphase' = "payload" /\ UNCHANGED ret
    /\ back' = RecordsAfter(Hdr)
    /\ UNCHANGED <<outVars, lost, cbuf, got>>

\* Fault for the checks: the number of bytes is not narrowed to an int.
NotNarrowed(n) == n

\* The conversion to int of a number below 2^32.
AsInt(n) == IF 2 * n < Wrap THEN n ELSE n - Wrap

\* The bytes SSL_read is asked for: (int)(nlen - total).
Asked == AsInt(nlen - Len(cbuf))

RecvPayload ==
    /\ cphase = "payload" /\ Len(cbuf) < nlen /\ back # <<>>
    /\ Asked > 0
    /\ cbuf' = cbuf \o Piece(Asked)
    /\ back' = RecordsAfter(Asked)
    /\ UNCHANGED <<outVars, lost, cphase, nlen, got, ret>>

\* Asked for a negative number of bytes, SSL_read fails and touches nothing.
RecvRefused ==
    /\ cphase = "payload" /\ Len(cbuf) < nlen
    /\ Asked < 0
    /\ Return(-4)
    /\ UNCHANGED <<outVars, back, lost, nlen, cbuf, got>>

\* Fault for the checks: one SSL_read counts as the whole payload.
RecvReturnsShort ==
    /\ cphase = "payload" /\ (Len(cbuf) = nlen \/ cbuf # <<>>)
    /\ got' = Append(got, cbuf)
    /\ Return(nlen)
    /\ UNCHANGED <<outVars, back, lost, nlen, cbuf>>

RecvReturns ==
    /\ cphase = "payload" /\ Len(cbuf) = nlen
    /\ got' = Append(got, cbuf)
    /\ Return(nlen)
    /\ UNCHANGED <<outVars, back, lost, nlen, cbuf>>

\* SSL_read fails.
RecvFails ==
    /\ lost /\ back = <<>>
    /\ \/ cphase = "header" /\ Return(-2)
       \/ cphase = "payload" /\ Len(cbuf) < nlen /\ Return(-4)
    /\ UNCHANGED <<outVars, back, lost, nlen, cbuf, got>>

-----------------------------------------------------------------------------
Recv == RecvCall \/ RecvHeader \/ RecvPayload \/ RecvRefused \/ RecvReturns \/ RecvFails

Next ==
    \/ \E len \in ReplyLens : QueueSend(len)
    \/ Flush \/ Break \/ Recv

Spec == Init /\ [][Next]_vars

\* select() keeps reporting a writable client with a pending message, and the
\* caller keeps calling tlsv2_client_recv_json.
FairSpec == Spec /\ WF_vars(Flush) /\ WF_vars(Recv)

-----------------------------------------------------------------------------
(* Properties *)

TypeOK ==
    /\ queued \in Seq([start : Nat, len : ReplyLens])
    /\ outTotal \in Nat /\ outBuf \in Seq(Nat)
    /\ outSent \in 0..Len(outBuf)
    /\ back \in Seq(Seq(Nat) \ {<<>>}) /\ lost \in BOOLEAN
    /\ cphase \in {"app", "header", "payload"}
    /\ nlen \in 0..(Wrap - 1) /\ cbuf \in Seq(Nat) /\ got \in Seq(Seq(Nat))
    /\ ret \in Int

\* recv_json returns exactly the queued messages, in order and byte for byte,
\* whatever records they travelled in and however late the server flushes.
RepliesIntact ==
    /\ Len(got) <= Len(queued)
    /\ \A m \in 1..Len(got) : got[m] = Reply(m)

\* Whatever 32-bit number is taken for a length, all that the next SSL_read may
\* write and the zero behind it lie inside the caller's buffer.  2^32 - 1 passes
\* the comparison, because nlen + 1 is 0; then no byte may be written at all.
FitsBuffer == cphase = "payload" /\ Asked >= 0 => Len(cbuf) + Asked + 1 <= MaxLen

\* A caller whose buffer is too small for one message (-3, its payload stays
\* unread) gets out of step with the stream but not for good: what recv_json
\* returns later are whole messages again, each once and in their order, as
\* long as no part of a payload reads as a length that fits (JSON text does not).
SkipsWholeMessages ==
    \E f \in [DOMAIN got -> DOMAIN queued] :
        /\ \A i, j \in DOMAIN got : i < j => f[i] < f[j]
        /\ \A i \in DOMAIN got : got[i] = Reply(f[i])

Fits(m) == m \in DOMAIN queued /\ ~TooLong(queued[m].len)
Returned(m) == m \in DOMAIN queued /\ \E i \in DOMAIN got : got[i] = Reply(m)

\* And every message that fits is returned, those behind a too long one too.
FittingReceived ==
    \A m \in 1..MaxReplies : Fits(m) ~> (lost \/ Returned(m))
=============================================================================
