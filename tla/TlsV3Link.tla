----------------------------- MODULE TlsV3Link -----------------------------
(***************************************************************************)
(* One OPEN client of the BearSSL server, byte by byte: what               *)
(* tlsv2_handle_client of src/src/wrappers/c/tls_wrapper_v3.c does with    *)
(* the record engine between the socket and the JSON buffers, and how the  *)
(* engine ends on a close_notify.                                          *)
(*                                                                         *)
(* The registers are those of BrSslEngine; ipl and opl are the plaintext   *)
(* they stand for.  The handshake processor runs inside the engine's       *)
(* functions (hs): its steps come before the handler's next one.           *)
(*                                                                         *)
(* The loop that cuts frames out of in_buf is the one of                   *)
(* tlsv2_json_try_receive, so its turns are taken from TlsV2Receive; a     *)
(* byte is again its offset in the peer's stream.  That a connection       *)
(* breaks below TLS is in TlsV3Server.                                     *)
(***************************************************************************)
EXTENDS BrSslEngine, Sequences

CONSTANTS Pre,       \* bytes of the length prefix, 4 in the code
          MaxJson,   \* TLSV2_MAX_JSON_SIZE
          Lens,      \* lengths the peer announces
          MaxCount,  \* bound: messages the peer sends
          ReplyLens, \* lengths of the application's messages
          MaxReplies,\* bound: messages the application gets queued
          PeerMax,   \* largest payload an OpenSSL peer puts in a record
          MaxWire    \* bound: records under way at a time

AlertLen == 2

\* An alert fits in a fragment, a fragment in in_buf behind a prefix, and a
\* header can announce what a peer puts in a record.
ASSUME LinkConstants ==
    /\ Pre \in Nat \ {0} /\ MaxJson \in Nat \ {0}
    /\ Lens \subseteq Nat /\ MaxCount \in Nat
    /\ ReplyLens \subseteq Nat /\ MaxReplies \in Nat
    /\ PeerMax \in Nat /\ MaxWire \in Nat
    /\ AlertLen <= MaxFrag /\ MaxFrag <= MaxJson
    /\ Iv + AlertLen + Tag <= MaxRec /\ Iv + PeerMax + Tag <= MaxRec

VARIABLES
    \* the peer
    peer,                \* how it uses records
    sent, total, left,   \* as in TlsV2Receive; left counts the header too
    wire,                \* its records that the engine has not taken yet
    flight, avail,       \* bytes of them under way, and in the socket
    over,                \* it has sent its last record
    room,                \* the socket takes bytes
    arrived,             \* the server's stream, as far as the peer got it
    \* the engine
    ipl, opl,            \* plaintext in ibuf and in obuf
    hs,                  \* where the handshake processor is
    \* the client's entry and its handler
    inBuf, expectedLen, delivered, phase, why,
    outBuf,              \* out_buf from out_sent to out_used
    accepted,            \* bytes tlsv2_send_json has put there so far
    replies, incall      \* messages queued; in on_json_received

peerVars == <<peer, sent, total, left, over>>
netVars == <<wire, flight, avail, room, arrived>>
frameVars == <<inBuf, expectedLen, delivered, why>>
appVars == <<accepted, replies, incall>>
vars == <<engVars, peerVars, netVars, ipl, opl, hs, frameVars, phase, outBuf, appVars>>

Rx == INSTANCE TlsV2Receive WITH Hdr <- Pre, wire <- ipl
rxVars == <<inBuf, expectedLen, delivered, phase, why>>

\* A BearSSL peer flushes behind a message and keeps to its fragment length,
\* an OpenSSL one writes prefix and payload by themselves, in records of any
\* size; "packs" puts the end of one message and the next one together.
Peers == {"bear", "openssl", "packs"}

RecLen(r) == Iv + Len(r.data) + Tag

\* The handshake is over.
Init ==
    /\ failed = FALSE /\ incrypt = TRUE /\ outcrypt = TRUE
    /\ shutdown = FALSE /\ app = 1
    /\ in = MakeReadyIn /\ out = MakeReadyOut(TRUE)
    /\ typeIn = "handshake" /\ typeOut = "app"
    /\ peer \in Peers
    /\ sent = <<>> /\ total = 0 /\ left = 0 /\ over = FALSE
    /\ wire = <<>> /\ flight = 0 /\ avail = 0 /\ room = TRUE /\ arrived = <<>>
    /\ ipl = <<>> /\ opl = <<>> /\ hs = "idle"
    /\ inBuf = <<>> /\ expectedLen = 0 /\ delivered = <<>>
    /\ phase = "wait" /\ why = "open"
    /\ outBuf = <<>> /\ accepted = 0 /\ replies = 0 /\ incall = FALSE

-----------------------------------------------------------------------------
(* The peer and the network *)

PeerMessage(len) ==
    /\ ~over /\ Len(sent) < MaxCount
    /\ left = 0 \/ peer = "packs"
    /\ sent' = Append(sent, [start |-> total + left, len |-> len])
    /\ left' = left + Pre + len
    /\ UNCHANGED <<engVars, peer, total, over, netVars, ipl, opl, hs, frameVars,
                   phase, outBuf, appVars>>

Put(record) ==
    /\ Len(wire) < MaxWire
    /\ wire' = Append(wire, record)
    /\ flight' = flight + Hdr + RecLen(record)
    /\ UNCHANGED <<avail, room, arrived>>

PeerRecord(k) ==
    /\ k \in 1..left
    /\ peer = "bear" => k <= MaxFrag
    /\ LET payload == sent[Len(sent)].len
       IN  peer = "openssl" /\ left > payload => k <= left - payload
    /\ Put([type |-> "app", data |-> Rx!Bytes(total, k)])
    /\ total' = total + k /\ left' = left - k
    /\ UNCHANGED <<engVars, peer, sent, over, ipl, opl, hs, frameVars, phase,
                   outBuf, appVars>>

\* A close_notify (0) or a fatal alert.
PeerAlert(kind) ==
    /\ ~over /\ left = 0
    /\ over' = TRUE
    /\ Put([type |-> "alert", data |-> [k \in 1..AlertLen |-> kind]])
    /\ UNCHANGED <<engVars, peer, sent, total, left, ipl, opl, hs, frameVars,
                   phase, outBuf, appVars>>

NetDelivers(n) ==
    /\ n \in 1..flight
    /\ flight' = flight - n /\ avail' = avail + n
    /\ UNCHANGED <<engVars, peerVars, wire, room, arrived, ipl, opl, hs, frameVars,
                   phase, outBuf, appVars>>

PeerReads ==
    /\ ~room
    /\ room' = TRUE
    /\ UNCHANGED <<engVars, peerVars, wire, flight, avail, arrived, ipl, opl, hs,
                   frameVars, phase, outBuf, appVars>>

-----------------------------------------------------------------------------
(* The handshake processor: wait-co, process-alerts and do-close *)

\* It runs on as soon as what it waits for is there.
HsRuns ==
    /\ ~failed
    /\ \/ hs \in {"alert", "shutdown", "leave", "flush", "fail"}
       \/ hs \in {"notify", "last"} /\ SendPldLen > 0

HsGoto(h) ==
    /\ hs' = h
    /\ UNCHANGED <<peerVars, netVars, opl, frameVars, phase, outBuf, appVars>>

ProcessAlert ==
    /\ ~failed /\ hs = "alert"
    /\ HsRead(RecvPldLen)
    /\ HsGoto(IF Head(ipl) = 0 THEN "shutdown" ELSE "fail")
    /\ ipl' = <<>>

\* Fault for the checks: what the open record holds is cleared, not flushed.
DoCloseClears ==
    /\ ~failed
    /\ \/ hs = "shutdown" /\ HsShutdown /\ HsGoto("leave")
       \/ hs = "leave" /\ HsSetApp(0) /\ HsGoto("flush")
       \/ /\ hs = "flush" /\ HsGoto("notify")
          /\ out' = MakeReadyOut(outcrypt)
          /\ UNCHANGED <<failed, in, incrypt, outcrypt, shutdown, app, typeIn, typeOut>>
       \/ hs = "notify" /\ HsWrite("alert", AlertLen) /\ HsGoto("last")
       \/ hs = "last" /\ SendPldLen > 0 /\ HsFail /\ HsGoto("closed")
    /\ UNCHANGED ipl

\* Fault for the checks: the engine is not ended behind the close_notify.
DoCloseStays ==
    /\ ~failed
    /\ \/ hs = "shutdown" /\ HsShutdown /\ HsGoto("leave")
       \/ hs = "leave" /\ HsSetApp(0) /\ HsGoto("flush")
       \/ hs = "flush" /\ HsFlush /\ HsGoto("notify")
       \/ hs = "notify" /\ HsWrite("alert", AlertLen) /\ HsGoto("last")
    /\ UNCHANGED ipl

DoClose ==
    /\ ~failed
    /\ \/ hs = "shutdown" /\ HsShutdown /\ HsGoto("leave")
       \/ hs = "leave" /\ HsSetApp(0) /\ HsGoto("flush")
       \/ hs = "flush" /\ HsFlush /\ HsGoto("notify")
       \/ hs = "notify" /\ HsWrite("alert", AlertLen) /\ HsGoto("last")
       \/ hs = "last" /\ SendPldLen > 0 /\ HsFail /\ HsGoto("closed")
    /\ UNCHANGED ipl

FatalAlert ==
    /\ ~failed /\ hs = "fail"
    /\ HsFail /\ HsGoto("closed")
    /\ UNCHANGED ipl

-----------------------------------------------------------------------------
(* tlsv2_handle_client *)

Handling(p) == phase = p /\ ~HsRuns /\ ~incall

Handle ==
    /\ Handling("wait")
    /\ phase' = "recv"
    /\ UNCHANGED <<engVars, peerVars, netVars, ipl, opl, hs, frameVars, outBuf, appVars>>

\* tlsv2_engine_recv: a read of what there is and the engine has room for; the
\* last byte of a record hands its plaintext to the engine's user, or to the
\* handshake processor.
EngineRecv ==
    /\ Handling("recv") /\ avail > 0
    /\ LET r == Head(wire)
           n == Least(RecvRecLen, avail)
           complete == in.a >= Hdr /\ n = in.c
       IN  /\ EngineRecvRec(n, r.type, RecLen(r), TRUE)
           /\ wire' = IF complete THEN Tail(wire) ELSE wire
           /\ ipl' = IF complete THEN r.data ELSE ipl
           /\ hs' = IF complete /\ r.type = "alert" THEN "alert" ELSE hs
           /\ avail' = avail - n
    /\ why' = IF failed' THEN "refused" ELSE why
    /\ UNCHANGED <<peerVars, flight, room, arrived, opl, inBuf, expectedLen,
                   delivered, phase, outBuf, appVars>>

\* The engine takes no record, or the socket would block.
RecvEnds ==
    /\ Handling("recv") /\ (RecvRecLen = 0 \/ avail = 0)
    /\ phase' = "send"
    /\ UNCHANGED <<engVars, peerVars, netVars, ipl, opl, hs, frameVars, outBuf, appVars>>

\* tlsv2_engine_send, before the plaintext is looked at and at the end: n bytes
\* are written; the peer uses a record when it has all of it.
EngineSend(n) ==
    /\ phase \in {"send", "last"} /\ Handling(phase) /\ room
    /\ EngineSendRec(n)
    /\ arrived' = IF n = SendRecLen THEN arrived \o opl ELSE arrived
    /\ opl' = IF n = SendRecLen THEN <<>> ELSE opl
    /\ room' \in BOOLEAN
    /\ UNCHANGED <<peerVars, wire, flight, avail, ipl, hs, frameVars, phase, outBuf,
                   appVars>>

SendEnds ==
    /\ phase \in {"send", "last"} /\ Handling(phase) /\ (SendRecLen = 0 \/ ~room)
    /\ phase' = IF phase = "send" THEN "read" ELSE "wait"
    /\ UNCHANGED <<engVars, peerVars, netVars, ipl, opl, hs, frameVars, outBuf, appVars>>

\* Fault for the checks: the record is not acknowledged and read again.
ReadPlainTwice ==
    /\ Handling("read")
    /\ app = 1 /\ typeIn = "app" /\ RecvPldLen > 0
    /\ Len(inBuf) + RecvPldLen <= Rx!Cap
    /\ inBuf' = inBuf \o ipl /\ phase' = "parse"
    /\ UNCHANGED <<engVars, peerVars, netVars, ipl, opl, hs, expectedLen, delivered,
                   why, outBuf, appVars>>

\* tlsv2_engine_read_plain: the whole record goes behind what in_buf holds ...
ReadPlain ==
    /\ Handling("read")
    /\ EngineRecvApp(RecvPldLen)
    /\ Rx!ReadSome(Len(ipl))
    /\ UNCHANGED <<netVars, peer, over, opl, hs, outBuf, appVars>>

\* Fault for the checks: the last byte of in_buf is not used.
ReadPlainFullEarly ==
    /\ Handling("read")
    /\ app = 1 /\ typeIn = "app" /\ RecvPldLen > 0
    /\ Len(inBuf) + RecvPldLen >= Rx!Cap
    /\ Rx!Close("full")
    /\ UNCHANGED <<engVars, peerVars, netVars, ipl, opl, hs, delivered, outBuf, appVars>>

\* ... or is refused ...
ReadPlainFull ==
    /\ Handling("read")
    /\ app = 1 /\ typeIn = "app" /\ RecvPldLen > 0
    /\ Len(inBuf) + RecvPldLen > Rx!Cap
    /\ Rx!Close("full")
    /\ UNCHANGED <<engVars, peerVars, netVars, ipl, opl, hs, delivered, outBuf, appVars>>

ReadPlainEnds ==
    /\ Handling("read") /\ ~(app = 1 /\ typeIn = "app" /\ RecvPldLen > 0)
    /\ phase' = "write"
    /\ UNCHANGED <<engVars, peerVars, netVars, ipl, opl, hs, frameVars, outBuf, appVars>>

\* ... and its frames are handed to on_json_received.
Parse ==
    /\ Handling("parse")
    /\ Rx!ParseNoHeader \/ Rx!ParseRefuses \/ Rx!ParseNoMemory \/ Rx!ParseIncomplete
    /\ UNCHANGED <<engVars, netVars, peer, over, opl, hs, outBuf, appVars>>

ParseDelivers ==
    /\ Handling("parse")
    /\ Rx!ParseDelivers
    /\ incall' = TRUE
    /\ UNCHANGED <<engVars, netVars, peer, over, opl, hs, outBuf, accepted, replies>>

\* Fault for the checks: out_sent counts what the record had no room for.
WritePlainSkips ==
    /\ Handling("write") /\ outBuf # <<>>
    /\ LET n == Least(Len(outBuf), SendPldLen)
       IN  /\ EngineSendApp(n)
           /\ opl' = opl \o SubSeq(outBuf, 1, n)
           /\ outBuf' = <<>>
    /\ UNCHANGED <<peerVars, netVars, ipl, hs, frameVars, phase, appVars>>

\* tlsv2_engine_write_plain: as much of out_buf as the record has room for.
WritePlain ==
    /\ Handling("write") /\ outBuf # <<>>
    /\ LET n == Least(Len(outBuf), SendPldLen)
       IN  /\ EngineSendApp(n)
           /\ opl' = opl \o SubSeq(outBuf, 1, n)
           /\ outBuf' = SubSeq(outBuf, n + 1, Len(outBuf))
    /\ UNCHANGED <<peerVars, netVars, ipl, hs, frameVars, phase, appVars>>

WriteEnds ==
    /\ Handling("write") /\ (outBuf = <<>> \/ app # 1 \/ SendPldLen = 0)
    /\ phase' = "last"
    /\ UNCHANGED <<engVars, peerVars, netVars, ipl, opl, hs, frameVars, outBuf, appVars>>

\* The application, in on_json_received: tlsv2_send_json, then it returns.
SendJson(len) ==
    /\ incall /\ replies < MaxReplies
    /\ outBuf = <<>>
    /\ outBuf' = Rx!Bytes(accepted, Pre + len)
    /\ accepted' = accepted + Pre + len /\ replies' = replies + 1
    /\ UNCHANGED <<engVars, peerVars, netVars, ipl, opl, hs, frameVars, phase, incall>>

CallbackReturns ==
    /\ incall
    /\ incall' = FALSE
    /\ UNCHANGED <<engVars, peerVars, netVars, ipl, opl, hs, frameVars, phase, outBuf,
                   accepted, replies>>

-----------------------------------------------------------------------------
Processor == ProcessAlert \/ DoClose \/ FatalAlert

Handler ==
    \/ Handle
    \/ EngineRecv \/ RecvEnds
    \/ \E n \in 1..OBufLen : EngineSend(n)
    \/ SendEnds
    \/ ReadPlain \/ ReadPlainFull \/ ReadPlainEnds
    \/ Parse \/ ParseDelivers
    \/ WritePlain \/ WriteEnds
    \/ CallbackReturns

Next ==
    \/ Processor \/ Handler
    \/ \E len \in ReplyLens : SendJson(len)
    \/ \E len \in Lens : PeerMessage(len)
    \/ \E k \in 1..PeerMax : PeerRecord(k)
    \/ \E kind \in {0, 1} : PeerAlert(kind)
    \/ \E n \in 1..flight : NetDelivers(n)
    \/ PeerReads

Spec == Init /\ [][Next]_vars

\* The loop comes back to the client, the network delivers, and the peer reads
\* and writes what it began.
FairSpec ==
    /\ Spec
    /\ WF_vars(Processor \/ Handler)
    /\ WF_vars(\E n \in 1..flight : NetDelivers(n))
    /\ WF_vars(\E k \in 1..PeerMax : PeerRecord(k))
    /\ WF_vars(PeerReads)

-----------------------------------------------------------------------------
(* Properties *)

TypeOK ==
    /\ EngineTypeOK
    /\ peer \in Peers /\ total \in Nat /\ left \in Nat /\ over \in BOOLEAN
    /\ sent \in Seq([start : Nat, len : Lens])
    /\ wire \in Seq([type : {"app", "alert"}, data : Seq(Nat)])
    /\ flight \in Nat /\ avail \in Nat /\ room \in BOOLEAN /\ arrived \in Seq(Nat)
    /\ ipl \in Seq(Nat) /\ opl \in Seq(Nat)
    /\ hs \in {"idle", "alert", "shutdown", "leave", "flush", "notify", "last",
               "fail", "closed"}
    /\ inBuf \in Seq(Nat) /\ expectedLen \in Nat /\ delivered \in Seq(Seq(Nat))
    /\ phase \in {"wait", "recv", "send", "read", "parse", "write", "last", "closed"}
    /\ why \in {"open", "refused", "oversize", "full", "memory"}
    /\ outBuf \in Seq(Nat) /\ accepted \in Nat /\ replies \in Nat /\ incall \in BOOLEAN

\* on_json_received gets the messages as they were sent, whatever records they
\* came in and wherever a read stopped.
DeliveredIntact == Rx!DeliveredIntact

\* The peer gets a prefix of what tlsv2_send_json accepted, and the rest is in
\* obuf and out_buf.
RepliesIntact == arrived \o opl \o outBuf = Rx!Bytes(0, accepted)

\* When a close_notify has been answered, everything the engine was given has
\* reached the peer before, the record that was still open too.
NotifyFlushes == hs = "last" \/ (hs = "closed" /\ shutdown) => opl = <<>>

\* A client is lost for its framing only if the message it should get next is
\* too long or follows an empty one; a record of its own engine's size is never
\* refused.  A peer that packs messages has no such promise: read_plain refuses
\* a record that does not fit behind what in_buf holds.
ClosedForCause ==
    /\ why = "refused" => peer # "bear"
    /\ why \in {"oversize", "full"} => Len(delivered) < Len(sent)
    /\ why = "oversize" => sent[Len(delivered) + 1].len > MaxJson
    /\ why = "full" /\ peer # "packs" => sent[Len(delivered) + 1].len = 0

\* A message that was written completely reaches the application, unless an
\* empty one is before it or the client was lost.
NonEmptyDelivered ==
    \A m \in 1..MaxCount :
        (Len(sent) >= m /\ left = 0 /\ \A k \in 1..m : sent[k].len # 0)
            ~> (Len(delivered) >= m \/ phase = "closed" \/ failed)

\* A close_notify of the peer is answered and ends the engine, with a record
\* half filled or half sent.
NotifyAnswered == hs = "shutdown" ~> (failed \/ phase = "closed")
=============================================================================
