---------------------------- MODULE BrSslEngine ----------------------------
(***************************************************************************)
(* The record layer of BearSSL as the wrapper links it: the registers      *)
(* ixa, ixb, ixc and oxa, oxb, oxc of br_ssl_engine_context                *)
(* (src/src/wrappers/c/bearssl/src/ssl/ssl_engine.c) with an AEAD suite    *)
(* (ssl_rec_gcm.c, ssl_rec_chapol.c).                                      *)
(*                                                                         *)
(* tlsv2_client_alloc and tlsv2_client_connect give the engine two         *)
(* buffers, so the modes BR_IO_IN and BR_IO_OUT of a shared one are not    *)
(* reached: an engine works in both directions until it has failed.        *)
(*                                                                         *)
(* What an operation does to the registers of one direction is an operator *)
(* from registers to registers.  The handshake processor, a coroutine in   *)
(* T0 that the engine enters from its own functions, is here anything that *)
(* keeps to the interface: it reads what is not application data, writes   *)
(* whole records, switches encryption.                                     *)
(***************************************************************************)
EXTENDS Integers

CONSTANTS Hdr,       \* bytes of a record header, 5 in the code
          Iv, Tag,   \* bytes around a ciphertext: 8 and 16 (GCM), 0 and 16 (ChaPol)
          MaxPlain,  \* plaintext limit of the protocol, 16384
          MaxRec,    \* what a header can announce, 65535
          MaxFrag,   \* max_frag_len
          IBufLen,   \* ibuf_len
          OBufLen    \* obuf_len

ASSUME EngineConstants ==
    /\ Hdr \in Nat \ {0} /\ Iv \in Nat /\ Tag \in Nat \ {0}
    /\ MaxRec \in Nat
    /\ MaxPlain \in Nat \ {0} /\ MaxFrag \in Nat \ {0} /\ MaxFrag <= MaxPlain
    /\ IBufLen \in Nat /\ IBufLen >= Hdr + Iv + MaxFrag + Tag
    /\ OBufLen \in Nat /\ OBufLen >= 2 * Hdr + Iv + MaxFrag + Tag

VARIABLES
    failed,             \* iomode = BR_IO_FAILED
    in,                 \* ixa, ixb and ixc
    out,                \* oxa, oxb and oxc
    incrypt, outcrypt,  \* records are encrypted, by direction
    shutdown,           \* shutdown_recv
    app,                \* application_data
    typeIn, typeOut     \* record_type_in, record_type_out

engVars == <<failed, in, out, incrypt, outcrypt, shutdown, app, typeIn, typeOut>>

RecordTypes == {"ccs", "alert", "handshake", "app"}
Registers == [a : Int, b : Int, c : Int]

EngineTypeOK ==
    /\ failed \in BOOLEAN /\ incrypt \in BOOLEAN /\ outcrypt \in BOOLEAN
    /\ shutdown \in BOOLEAN /\ app \in 0..2
    /\ in \in Registers /\ out \in Registers
    /\ typeIn \in RecordTypes /\ typeOut \in RecordTypes

-----------------------------------------------------------------------------
(* br_ssl_engine_set_buffers_bidi: the fragment length for two buffers *)

FragLens == {512, 1024, 2048, 4096, 8192, 16384}

\* MAX_OUT_OVERHEAD and MAX_IN_OVERHEAD.
FragFits(f, ilen, olen) == olen >= f + 85 /\ ilen >= f + 325

\* No power of two fits: BR_ERR_BAD_PARAM.
Suitable(ilen, olen) == \E f \in FragLens : FragFits(f, ilen, olen)

MaxFragLen(ilen, olen) ==
    LET largest == CHOOSE f \in FragLens :
                       /\ FragFits(f, ilen, olen)
                       /\ \A g \in FragLens : FragFits(g, ilen, olen) => g <= f
    IN  IF largest = 8192 THEN 4096 ELSE largest

-----------------------------------------------------------------------------
(* Input *)

Least(x, y) == IF x <= y THEN x ELSE y

MakeReadyIn == [a |-> 0, b |-> 0, c |-> Hdr]

\* Fault for the checks: a record is not held against the size of ibuf.
LengthOKAnySize(crypt, rlen) ==
    IF crypt THEN rlen >= Iv + Tag /\ rlen <= MaxPlain + Iv + Tag
             ELSE rlen <= MaxPlain

\* check_length() of the suite and the size of the buffer; in clear a record
\* is read in pieces and only the protocol limits it.
LengthOK(crypt, rlen) ==
    IF crypt THEN /\ rlen >= Iv + Tag /\ rlen <= MaxPlain + Iv + Tag
                  /\ rlen <= IBufLen - Hdr
             ELSE rlen <= MaxPlain

\* The header is complete: it announces rlen bytes.
HeaderIn(rlen) ==
    IF rlen = 0 THEN MakeReadyIn ELSE [a |-> Hdr, b |-> Hdr, c |-> rlen]

\* The record is complete: its plaintext lies between nonce and tag.
Decrypt(i) ==
    IF i.a - Tag = Hdr + Iv THEN MakeReadyIn
    ELSE [a |-> Hdr + Iv, b |-> i.a - Tag, c |-> 0]

\* recvrec_ack for n bytes; rlen is what the header says.
RecvRecAck(i, crypt, n, rlen) ==
    LET m == [a |-> i.a + n, b |-> i.a + n, c |-> i.c - n] IN
    IF m.a < Hdr THEN m
    ELSE IF m.a = Hdr THEN HeaderIn(rlen)
    ELSE IF ~crypt THEN [a |-> Hdr, b |-> m.b, c |-> m.c]
    ELSE IF m.c # 0 THEN m
    ELSE Decrypt(m)

\* It fails on a header with a bad version or length, and on a bad tag.
RecvRecBad(i, crypt, n, rlen, ok) ==
    \/ i.a + n = Hdr /\ (~ok \/ ~LengthOK(crypt, rlen))
    \/ i.a + n > Hdr /\ crypt /\ i.c = n /\ ~ok

RecvPldAck(i, n) ==
    IF i.a + n # i.b THEN [a |-> i.a + n, b |-> i.b, c |-> i.c]
    ELSE IF i.c = 0 THEN MakeReadyIn
    ELSE [a |-> Hdr, b |-> Hdr, c |-> i.c]

\* What recvrec_buf and recvpld_buf offer.
RecvRecLen ==
    IF failed \/ shutdown \/ in.a # in.b THEN 0 ELSE Least(in.c, IBufLen - in.a)
RecvPldLen == IF failed THEN 0 ELSE in.b - in.a

-----------------------------------------------------------------------------
(* Output *)

Before(crypt) == Hdr + IF crypt THEN Iv ELSE 0
Behind(crypt) == IF crypt THEN Tag ELSE 0

\* Fault for the checks: no room is kept for the authentication tag.
MakeReadyOutNoTag(crypt) ==
    [a |-> Before(crypt), c |-> Before(crypt),
     b |-> Before(crypt) + Least(OBufLen - Before(crypt), MaxPlain)]

\* max_plaintext() of the suite, then the fragment length.
MakeReadyOut(crypt) ==
    LET space == OBufLen - Hdr - Before(crypt) - Behind(crypt)
    IN  [a |-> Before(crypt), c |-> Before(crypt),
         b |-> Before(crypt) + Least(Least(space, MaxPlain), MaxFrag)]

HasPldToSend(o) == o.a # o.b /\ o.a # o.c
HasRecToSend(o) == o.a = o.b /\ o.a # o.c

\* Wraps what has been accumulated, with header, nonce and tag around it.
Seal(o, crypt) ==
    [a |-> o.c - Before(crypt), b |-> o.c - Before(crypt), c |-> o.a + Behind(crypt)]

SendPldFlush(o, crypt, force) ==
    IF o.a = o.b \/ (o.a = o.c /\ ~force) THEN o ELSE Seal(o, crypt)

SendPldAck(o, crypt, n) ==
    IF o.a + n >= o.b
    THEN SendPldFlush([a |-> o.a + n, b |-> o.a + n + 1, c |-> o.c], crypt, FALSE)
    ELSE [a |-> o.a + n, b |-> o.b, c |-> o.c]

SendRecAck(o, crypt, n) ==
    IF o.a + n = o.c THEN MakeReadyOut(crypt)
    ELSE [a |-> o.a + n, b |-> o.a + n, c |-> o.c]

\* What sendpld_buf and sendrec_buf offer.
SendPldLen == IF failed THEN 0 ELSE out.b - out.a
SendRecLen == IF failed \/ out.c <= out.a THEN 0 ELSE out.c - out.a

-----------------------------------------------------------------------------
(* The functions the application calls *)

EngineInit ==
    /\ failed = FALSE /\ incrypt = FALSE /\ outcrypt = FALSE
    /\ shutdown = FALSE /\ app = 0
    /\ in = MakeReadyIn /\ out = MakeReadyOut(FALSE)
    /\ typeIn = "handshake" /\ typeOut = "handshake"

\* br_ssl_engine_recvrec_ack: application data is refused in a handshake and
\* dropped while the engine waits for a close_notify.
EngineRecvRec(n, type, rlen, ok) ==
    /\ n \in 1..RecvRecLen
    /\ typeIn' = IF in.a + n = Hdr THEN type ELSE typeIn
    /\ LET i == RecvRecAck(in, incrypt, n, rlen)
           got == i.b - i.a
       IN  /\ failed' = \/ RecvRecBad(in, incrypt, n, rlen, ok)
                        \/ got > 0 /\ typeIn' = "app" /\ app = 0
           /\ in' = IF failed' THEN in
                    ELSE IF got > 0 /\ typeIn' = "app" /\ app = 2 THEN RecvPldAck(i, got)
                    ELSE i
    /\ UNCHANGED <<out, incrypt, outcrypt, shutdown, app, typeOut>>

EngineSendRec(n) ==
    /\ n \in 1..SendRecLen
    /\ out' = SendRecAck(out, outcrypt, n)
    /\ UNCHANGED <<failed, in, incrypt, outcrypt, shutdown, app, typeIn, typeOut>>

EngineRecvApp(n) ==
    /\ app = 1 /\ typeIn = "app"
    /\ n \in 1..RecvPldLen
    /\ in' = RecvPldAck(in, n)
    /\ UNCHANGED <<failed, out, incrypt, outcrypt, shutdown, app, typeIn, typeOut>>

EngineSendApp(n) ==
    /\ app = 1
    /\ n \in 1..SendPldLen
    /\ out' = SendPldAck(out, outcrypt, n)
    /\ UNCHANGED <<failed, in, incrypt, outcrypt, shutdown, app, typeIn, typeOut>>

EngineFlush(force) ==
    /\ ~failed /\ app = 1
    /\ out' = SendPldFlush(out, outcrypt, force)
    /\ UNCHANGED <<failed, in, incrypt, outcrypt, shutdown, app, typeIn, typeOut>>

-----------------------------------------------------------------------------
(* What the handshake processor does when jump_handshake runs it *)

HsRead(n) ==
    /\ typeIn # "app"
    /\ n \in 1..RecvPldLen
    /\ in' = RecvPldAck(in, n)
    /\ UNCHANGED <<failed, out, incrypt, outcrypt, shutdown, app, typeIn, typeOut>>

\* A record of n bytes: written, then flush-record.
WriteRecord(o, crypt, n) == SendPldFlush(SendPldAck(o, crypt, n), crypt, FALSE)

HsWrite(type, n) ==
    /\ type # "app" /\ ~HasPldToSend(out)
    /\ n \in 1..SendPldLen
    /\ out' = WriteRecord(out, outcrypt, n)
    /\ typeOut' = type
    /\ UNCHANGED <<failed, in, incrypt, outcrypt, shutdown, app, typeIn>>

HsFlush ==
    /\ ~failed
    /\ out' = SendPldFlush(out, outcrypt, FALSE)
    /\ UNCHANGED <<failed, in, incrypt, outcrypt, shutdown, app, typeIn, typeOut>>

\* switch-encryption: for input between two records, for output while the
\* record with the ChangeCipherSpec is still to be sent.
HsSwitchIn ==
    /\ ~failed /\ in.a = 0
    /\ incrypt' = TRUE
    /\ UNCHANGED <<failed, in, out, outcrypt, shutdown, app, typeIn, typeOut>>
HsSwitchOut ==
    /\ ~failed /\ out.a = out.b
    /\ outcrypt' = TRUE
    /\ UNCHANGED <<failed, in, out, incrypt, shutdown, app, typeIn, typeOut>>

HsSetApp(v) ==
    /\ ~failed
    /\ app' = v /\ typeOut' = IF v = 1 THEN "app" ELSE typeOut
    /\ UNCHANGED <<failed, in, out, incrypt, outcrypt, shutdown, typeIn>>

HsShutdown ==
    /\ ~failed
    /\ shutdown' = TRUE
    /\ UNCHANGED <<failed, in, out, incrypt, outcrypt, app, typeIn, typeOut>>

HsFail ==
    /\ failed' = TRUE
    /\ UNCHANGED <<in, out, incrypt, outcrypt, shutdown, app, typeIn, typeOut>>

-----------------------------------------------------------------------------
EngineNext ==
    \/ \E n \in 1..IBufLen, type \in RecordTypes, rlen \in 0..MaxRec, ok \in BOOLEAN :
           EngineRecvRec(n, type, rlen, ok)
    \/ \E n \in 1..OBufLen : EngineSendRec(n) \/ EngineSendApp(n)
    \/ \E n \in 1..IBufLen : EngineRecvApp(n) \/ HsRead(n)
    \/ \E force \in BOOLEAN : EngineFlush(force)
    \/ \E type \in RecordTypes, n \in 1..OBufLen : HsWrite(type, n)
    \/ HsFlush \/ HsSwitchIn \/ HsSwitchOut
    \/ \E v \in 0..2 : HsSetApp(v)
    \/ HsShutdown \/ HsFail

EngineSpec == EngineInit /\ [][EngineNext]_engVars

-----------------------------------------------------------------------------
(* Properties *)

\* The situations the implementation notes of ssl_engine.c list for input: a
\* header is being received, the body of a record is (which fits in ibuf if it
\* is encrypted), or there is payload to be read.
InputSane(i, crypt) ==
    \/ i.a = i.b /\ 0 <= i.a /\ i.a < Hdr /\ i.c = Hdr - i.a
    \/ /\ i.a = i.b /\ i.a >= Hdr /\ i.c >= 1
       /\ crypt => Hdr + Iv + Tag <= i.a + i.c /\ i.a + i.c <= IBufLen
       /\ ~crypt => i.a = Hdr
    \/ /\ Hdr <= i.a /\ i.a < i.b /\ i.b <= IBufLen
       /\ i.c >= 0 /\ (crypt => i.c = 0)

\* And for output: a record is being filled, with room kept before it for
\* header and nonce and behind it for the tag; or a finished one is sent, that
\* lies inside obuf and is no longer than an engine with the same buffers takes.
OutputSane(o, crypt) ==
    \/ /\ Before(crypt) = o.c /\ o.c <= o.a /\ o.a < o.b
       /\ o.b + Behind(crypt) <= OBufLen
       /\ o.b - o.c <= MaxFrag
    \/ /\ 0 <= o.a /\ o.a = o.b /\ o.a < o.c
       /\ o.c <= OBufLen
       /\ o.c - o.a <= IBufLen

\* Whatever the peer sends, the application does and the handshake processor
\* asks for, the registers stay in one of those situations: no record is built
\* or received outside its buffer.
RegistersSane == ~failed => InputSane(in, incrypt) /\ OutputSane(out, outcrypt)

\* "We cannot get stuck here" (recvrec_buf): an engine that waits for bytes
\* from the peer always offers room for some.
NeverStuck ==
    ~failed /\ ~shutdown /\ in.a = in.b => RecvRecLen >= 1
=============================================================================
