-------------------------- MODULE TlsV3LinkProofs --------------------------
(***************************************************************************)
(* Proofs about the record layer (BrSslEngine) and about a client of the   *)
(* BearSSL server above it (TlsV3Link), for every size of buffers,         *)
(* headers, nonces, tags and messages that the constants allow.            *)
(*                                                                         *)
(* The registers stay sane: EngineTypeOK /\ RegistersSane is inductive as  *)
(* it stands.  What an operation does to the registers of one direction is *)
(* a lemma of its own; the step of an action then only looks up which      *)
(* lemma applies.                                                          *)
(*                                                                         *)
(* The link uses the engine as it may be used, so the same holds there,    *)
(* and the messages of both directions pass through it intact.             *)
(***************************************************************************)
EXTENDS TlsV3Link, SequenceTheorems, TLAPS

InputOK(i, crypt) == i \in Registers /\ InputSane(i, crypt)
OutputOK(o, crypt) == o \in Registers /\ OutputSane(o, crypt)

LEMMA ReadyIn == ASSUME NEW crypt \in BOOLEAN PROVE InputOK(MakeReadyIn, crypt)
BY EngineConstants DEF MakeReadyIn, InputOK, InputSane, Registers

\* A header or a body that is taken leaves the input sane.
LEMMA RecvRecAckSane ==
    ASSUME NEW i \in Registers, NEW crypt \in BOOLEAN, NEW rlen \in Nat,
           NEW n \in Nat, NEW ok \in BOOLEAN,
           InputSane(i, crypt), i.a = i.b, n >= 1, n <= i.c, n <= IBufLen - i.a,
           ~RecvRecBad(i, crypt, n, rlen, ok)
    PROVE  InputOK(RecvRecAck(i, crypt, n, rlen), crypt)
<1> DEFINE m == [a |-> i.a + n, b |-> i.a + n, c |-> i.c - n]
<1>0. /\ m \in Registers /\ i.a \in Int /\ i.b \in Int /\ i.c \in Int
      /\ m.a = i.a + n /\ m.b = i.a + n /\ m.c = i.c - n
    BY DEF Registers
<1>1. CASE m.a < Hdr
    <2>1. i.a < Hdr /\ i.c = Hdr - i.a /\ 0 <= i.a
        BY <1>0, <1>1, EngineConstants DEF InputSane
    <2>2. RecvRecAck(i, crypt, n, rlen) = m
        BY <1>1 DEF RecvRecAck
    <2> HIDE DEF m
    <2>3. InputSane(m, crypt)
        BY <1>0, <1>1, <2>1, EngineConstants DEF InputSane
    <2> QED BY <1>0, <2>2, <2>3 DEF InputOK
<1>2. CASE m.a = Hdr
    <2>1. LengthOK(crypt, rlen)
        BY <1>2 DEF RecvRecBad
    <2>2. RecvRecAck(i, crypt, n, rlen) = HeaderIn(rlen)
        BY <1>2, EngineConstants DEF RecvRecAck
    <2>3. CASE rlen = 0
        BY <2>2, <2>3, ReadyIn DEF HeaderIn
    <2>4. CASE rlen # 0
        <3>1. HeaderIn(rlen) = [a |-> Hdr, b |-> Hdr, c |-> rlen]
            BY <2>4 DEF HeaderIn
        <3>2. crypt => rlen >= Iv + Tag /\ rlen <= IBufLen - Hdr
            BY <2>1 DEF LengthOK
        <3> QED BY <2>2, <2>4, <3>1, <3>2, EngineConstants
                DEF InputOK, InputSane, Registers
    <2> QED BY <2>3, <2>4
<1>3. CASE m.a > Hdr
    <2>1. /\ i.a >= Hdr /\ i.c >= 1
          /\ crypt => Hdr + Iv + Tag <= i.a + i.c /\ i.a + i.c <= IBufLen
          /\ ~crypt => i.a = Hdr
        BY <1>0, <1>3, EngineConstants DEF InputSane
    <2>2. CASE ~crypt
        <3>1. RecvRecAck(i, crypt, n, rlen) = [a |-> Hdr, b |-> m.b, c |-> m.c]
            BY <1>0, <1>3, <2>2, EngineConstants DEF RecvRecAck
        <3> QED BY <1>0, <1>3, <2>1, <2>2, <3>1, EngineConstants
                DEF InputOK, InputSane, Registers
    <2>3. CASE crypt /\ m.c # 0
        <3>1. RecvRecAck(i, crypt, n, rlen) = m
            BY <1>0, <1>3, <2>3, EngineConstants DEF RecvRecAck
        <3> HIDE DEF m
        <3>2. InputSane(m, crypt)
            BY <1>0, <1>3, <2>1, <2>3, EngineConstants DEF InputSane
        <3> QED BY <1>0, <3>1, <3>2 DEF InputOK
    <2>4. CASE crypt /\ m.c = 0
        <3>1. RecvRecAck(i, crypt, n, rlen) = Decrypt(m)
            BY <1>0, <1>3, <2>4, EngineConstants DEF RecvRecAck
        <3>2. m.a >= Hdr + Iv + Tag /\ m.a <= IBufLen
            BY <1>0, <2>1, <2>4, EngineConstants
        <3>3. CASE m.a - Tag = Hdr + Iv
            BY <3>1, <3>3, ReadyIn DEF Decrypt
        <3>4. CASE m.a - Tag # Hdr + Iv
            <4>1. Decrypt(m) = [a |-> Hdr + Iv, b |-> m.a - Tag, c |-> 0]
                BY <3>4 DEF Decrypt
            <4> QED BY <1>0, <3>1, <3>2, <3>4, <4>1, EngineConstants
                    DEF InputOK, InputSane, Registers
        <3> QED BY <3>3, <3>4
    <2> QED BY <2>2, <2>3, <2>4
<1>4. m.a < Hdr \/ m.a = Hdr \/ m.a > Hdr
    BY <1>0, EngineConstants
<1> QED BY <1>1, <1>2, <1>3, <1>4

\* Payload that is read leaves the input sane.
LEMMA RecvPldAckSane ==
    ASSUME NEW i \in Registers, NEW crypt \in BOOLEAN, NEW n \in Nat,
           InputSane(i, crypt), n >= 1, n <= i.b - i.a
    PROVE  InputOK(RecvPldAck(i, n), crypt)
<1>0. i.a \in Int /\ i.b \in Int /\ i.c \in Int
    BY DEF Registers
<1>1. Hdr <= i.a /\ i.a < i.b /\ i.b <= IBufLen /\ i.c >= 0 /\ (crypt => i.c = 0)
    BY <1>0, EngineConstants DEF InputSane
<1>2. CASE i.a + n # i.b
    BY <1>0, <1>1, <1>2, EngineConstants DEF RecvPldAck, InputOK, InputSane, Registers
<1>3. CASE i.a + n = i.b /\ i.c = 0
    BY <1>3, ReadyIn DEF RecvPldAck
<1>4. CASE i.a + n = i.b /\ i.c # 0
    BY <1>0, <1>1, <1>4, EngineConstants DEF RecvPldAck, InputOK, InputSane, Registers
<1> QED BY <1>2, <1>3, <1>4

LEMMA BeforeBehind ==
    ASSUME NEW crypt \in BOOLEAN
    PROVE  /\ Before(crypt) \in Nat /\ Behind(crypt) \in Nat
           /\ Before(crypt) <= Hdr + Iv /\ Behind(crypt) <= Tag
           /\ 1 <= Before(crypt)
BY EngineConstants DEF Before, Behind

LEMMA ReadyOut == ASSUME NEW crypt \in BOOLEAN PROVE OutputOK(MakeReadyOut(crypt), crypt)
<1> DEFINE space == OBufLen - Hdr - Before(crypt) - Behind(crypt)
           len == Least(Least(space, MaxPlain), MaxFrag)
<1>1. space \in Int /\ space >= MaxFrag
    BY BeforeBehind, EngineConstants
<1>2. len \in Int /\ len >= 1 /\ len <= MaxFrag /\ len <= space
    BY <1>1, EngineConstants DEF Least
<1>3. MakeReadyOut(crypt) = [a |-> Before(crypt), c |-> Before(crypt), b |-> Before(crypt) + len]
    BY DEF MakeReadyOut
<1> HIDE DEF len
<1> QED BY <1>1, <1>2, <1>3, BeforeBehind, EngineConstants DEF OutputOK, OutputSane, Registers

\* A record of at most MaxFrag bytes that is closed lies inside obuf, and an
\* engine with the same buffers can take it.
LEMMA SealSane ==
    ASSUME NEW o \in Registers, NEW crypt \in BOOLEAN,
           Before(crypt) = o.c, o.c <= o.a, o.a - o.c <= MaxFrag,
           o.a + Behind(crypt) <= OBufLen
    PROVE  OutputOK(Seal(o, crypt), crypt)
<1>0. o.a \in Int /\ o.b \in Int /\ o.c \in Int
    BY DEF Registers
<1> QED BY <1>0, BeforeBehind, EngineConstants DEF Seal, OutputOK, OutputSane, Registers

\* What a sealed record has to satisfy does not depend on the encryption.
LEMMA SealedSane ==
    ASSUME NEW o \in Registers, NEW crypt \in BOOLEAN, NEW other \in BOOLEAN,
           OutputSane(o, crypt), o.a = o.b
    PROVE  OutputSane(o, other)
<1>0. o.a \in Int /\ o.b \in Int /\ o.c \in Int
    BY DEF Registers
<1> QED BY <1>0 DEF OutputSane

LEMMA SendPldFlushSane ==
    ASSUME NEW o \in Registers, NEW crypt \in BOOLEAN, NEW force \in BOOLEAN,
           OutputSane(o, crypt)
    PROVE  OutputOK(SendPldFlush(o, crypt, force), crypt)
<1>0. o.a \in Int /\ o.b \in Int /\ o.c \in Int
    BY DEF Registers
<1>1. CASE o.a = o.b \/ (o.a = o.c /\ ~force)
    BY <1>1 DEF SendPldFlush, OutputOK
<1>2. CASE ~(o.a = o.b \/ (o.a = o.c /\ ~force))
    <2>1. /\ Before(crypt) = o.c /\ o.c <= o.a /\ o.a - o.c <= MaxFrag
          /\ o.a + Behind(crypt) <= OBufLen
        BY <1>0, <1>2, BeforeBehind, EngineConstants DEF OutputSane
    <2>2. SendPldFlush(o, crypt, force) = Seal(o, crypt)
        BY <1>2 DEF SendPldFlush
    <2> QED BY <2>1, <2>2, SealSane
<1> QED BY <1>1, <1>2

LEMMA SendPldAckSane ==
    ASSUME NEW o \in Registers, NEW crypt \in BOOLEAN, NEW n \in Nat,
           OutputSane(o, crypt), n >= 1, n <= o.b - o.a
    PROVE  OutputOK(SendPldAck(o, crypt, n), crypt)
<1>0. o.a \in Int /\ o.b \in Int /\ o.c \in Int
    BY DEF Registers
<1>1. /\ Before(crypt) = o.c /\ o.c <= o.a /\ o.a < o.b
      /\ o.b + Behind(crypt) <= OBufLen /\ o.b - o.c <= MaxFrag
    BY <1>0 DEF OutputSane
<1>2. CASE o.a + n >= o.b
    <2> DEFINE p == [a |-> o.a + n, b |-> o.a + n + 1, c |-> o.c]
    <2>1. p \in Registers /\ p.a # p.b /\ p.a # p.c
        BY <1>0, <1>1 DEF Registers
    <2>2. SendPldAck(o, crypt, n) = Seal(p, crypt)
        BY <1>2, <2>1 DEF SendPldAck, SendPldFlush
    <2>3. /\ Before(crypt) = p.c /\ p.c <= p.a /\ p.a - p.c <= MaxFrag
          /\ p.a + Behind(crypt) <= OBufLen
        BY <1>0, <1>1, <1>2, BeforeBehind, EngineConstants
    <2> HIDE DEF p
    <2> QED BY <2>1, <2>2, <2>3, SealSane
<1>3. CASE ~(o.a + n >= o.b)
    BY <1>0, <1>1, <1>3, BeforeBehind, EngineConstants
    DEF SendPldAck, OutputOK, OutputSane, Registers
<1> QED BY <1>2, <1>3

LEMMA SendRecAckSane ==
    ASSUME NEW o \in Registers, NEW crypt \in BOOLEAN, NEW n \in Nat,
           OutputSane(o, crypt), o.a = o.b, n >= 1, n <= o.c - o.a
    PROVE  OutputOK(SendRecAck(o, crypt, n), crypt)
<1>0. o.a \in Int /\ o.b \in Int /\ o.c \in Int
    BY DEF Registers
<1>1. CASE o.a + n = o.c
    BY <1>1, ReadyOut DEF SendRecAck
<1>2. CASE o.a + n # o.c
    BY <1>0, <1>2, BeforeBehind, EngineConstants
    DEF SendRecAck, OutputOK, OutputSane, Registers
<1> QED BY <1>1, <1>2
-----------------------------------------------------------------------------
EngineInv == EngineTypeOK /\ RegistersSane

\* The first buffers are ready.
LEMMA EngineInitInv == EngineInit => EngineInv
<1> SUFFICES ASSUME EngineInit PROVE EngineInv
    OBVIOUS
<1>1. InputOK(in, incrypt) /\ OutputOK(out, outcrypt)
    BY ReadyIn, ReadyOut DEF EngineInit
<1>2. EngineTypeOK
    <2>1. in \in Registers /\ out \in Registers
        BY <1>1 DEF InputOK, OutputOK
    <2>2. app \in 0..2 /\ typeIn \in RecordTypes /\ typeOut \in RecordTypes
        BY DEF EngineInit, RecordTypes
    <2>3. /\ failed \in BOOLEAN /\ incrypt \in BOOLEAN /\ outcrypt \in BOOLEAN
          /\ shutdown \in BOOLEAN
        BY DEF EngineInit
    <2> QED BY <2>1, <2>2, <2>3 DEF EngineTypeOK
<1>3. RegistersSane
    BY <1>1 DEF RegistersSane, InputOK, OutputOK
<1> QED BY <1>2, <1>3 DEF EngineInv

\* One step per function of the engine and per operation of the handshake
\* processor.
LEMMA EngineNextInv == EngineInv /\ [EngineNext]_engVars => EngineInv'
<1> SUFFICES ASSUME EngineInv, [EngineNext]_engVars PROVE EngineInv'
    OBVIOUS
<1> USE DEF EngineInv
<1>0. /\ failed \in BOOLEAN /\ incrypt \in BOOLEAN /\ outcrypt \in BOOLEAN
      /\ in \in Registers /\ out \in Registers
      /\ in.a \in Int /\ in.b \in Int /\ in.c \in Int
      /\ out.a \in Int /\ out.b \in Int /\ out.c \in Int
    BY DEF EngineTypeOK, Registers
<1>1. ASSUME NEW n \in 1..IBufLen, NEW type \in RecordTypes, NEW rlen \in 0..MaxRec,
             NEW ok \in BOOLEAN, EngineRecvRec(n, type, rlen, ok)
      PROVE  EngineInv'
    <2> DEFINE i == RecvRecAck(in, incrypt, n, rlen)
               got == i.b - i.a
    <2>1. /\ ~failed /\ in.a = in.b /\ n >= 1 /\ n <= in.c /\ n <= IBufLen - in.a
          /\ n \in Nat /\ rlen \in Nat
        <3>1. n \in 1..RecvRecLen /\ n \in Nat /\ rlen \in Nat /\ n >= 1
            BY <1>1, EngineConstants DEF EngineRecvRec
        <3>2. ~failed /\ ~shutdown /\ in.a = in.b
            BY <3>1 DEF RecvRecLen
        <3>3. RecvRecLen = Least(in.c, IBufLen - in.a) /\ IBufLen - in.a \in Int
            BY <1>0, <3>2, EngineConstants DEF RecvRecLen
        <3>4. n <= in.c /\ n <= IBufLen - in.a
            BY <1>0, <3>1, <3>3 DEF Least
        <3> QED BY <3>1, <3>2, <3>4
    <2>2. failed' \in BOOLEAN /\ typeIn' \in RecordTypes
        BY <1>1 DEF EngineRecvRec, EngineTypeOK
    <2>3. UNCHANGED <<out, incrypt, outcrypt, shutdown, app, typeOut>>
        BY <1>1 DEF EngineRecvRec
    <2>4. CASE failed'
        <3>1. in' = in
            BY <1>1, <2>4 DEF EngineRecvRec
        <3> QED BY <2>2, <2>3, <2>4, <3>1 DEF EngineTypeOK, RegistersSane
    <2>5. CASE ~failed'
        <3>1. ~RecvRecBad(in, incrypt, n, rlen, ok)
            BY <1>1, <2>5 DEF EngineRecvRec
        <3>2. InputOK(i, incrypt)
            BY <1>0, <2>1, <3>1, RecvRecAckSane DEF RegistersSane
        <3>3. CASE got > 0 /\ typeIn' = "app" /\ app = 2
            <4>1. in' = RecvPldAck(i, got)
                BY <1>1, <2>5, <3>3 DEF EngineRecvRec
            <4> HIDE DEF i
            <4>2. got \in Nat /\ got >= 1
                BY <3>2, <3>3 DEF InputOK, Registers
            <4>3. InputOK(in', incrypt)
                BY <1>0, <3>2, <4>1, <4>2, RecvPldAckSane DEF InputOK
            <4> QED BY <2>1, <2>2, <2>3, <4>3 DEF EngineTypeOK, RegistersSane, InputOK
        <3>4. CASE ~(got > 0 /\ typeIn' = "app" /\ app = 2)
            <4>1. in' = i
                BY <1>1, <2>5, <3>4 DEF EngineRecvRec
            <4> HIDE DEF i
            <4> QED BY <2>1, <2>2, <2>3, <3>2, <4>1 DEF EngineTypeOK, RegistersSane, InputOK
        <3> QED BY <3>3, <3>4
    <2> QED BY <2>2, <2>4, <2>5
<1>2. ASSUME NEW n \in 1..OBufLen, EngineSendRec(n) PROVE EngineInv'
    <2>1. ~failed /\ n \in Nat /\ n >= 1 /\ n <= out.c - out.a /\ out.a = out.b
        BY <1>0, <1>2, EngineConstants, BeforeBehind
        DEF EngineSendRec, SendRecLen, RegistersSane, OutputSane
    <2>2. OutputOK(out', outcrypt)
        BY <1>0, <1>2, <2>1, SendRecAckSane DEF EngineSendRec, RegistersSane
    <2> QED BY <1>2, <2>2 DEF EngineSendRec, EngineTypeOK, RegistersSane, OutputOK
<1>3. ASSUME NEW n \in 1..OBufLen, EngineSendApp(n) PROVE EngineInv'
    <2>1. ~failed /\ n \in Nat /\ n >= 1 /\ n <= out.b - out.a
        BY <1>0, <1>3, EngineConstants DEF EngineSendApp, SendPldLen
    <2>2. OutputOK(out', outcrypt)
        BY <1>0, <1>3, <2>1, SendPldAckSane DEF EngineSendApp, RegistersSane
    <2> QED BY <1>3, <2>2 DEF EngineSendApp, EngineTypeOK, RegistersSane, OutputOK
<1>4. ASSUME NEW n \in 1..IBufLen, EngineRecvApp(n) \/ HsRead(n) PROVE EngineInv'
    <2>1. ~failed /\ n \in Nat /\ n >= 1 /\ n <= in.b - in.a
        BY <1>0, <1>4, EngineConstants DEF EngineRecvApp, HsRead, RecvPldLen
    <2>2. InputOK(in', incrypt)
        BY <1>0, <1>4, <2>1, RecvPldAckSane DEF EngineRecvApp, HsRead, RegistersSane
    <2> QED BY <1>4, <2>2 DEF EngineRecvApp, HsRead, EngineTypeOK, RegistersSane, InputOK
<1>5. ASSUME NEW force \in BOOLEAN, EngineFlush(force) PROVE EngineInv'
    <2>1. OutputOK(out', outcrypt)
        BY <1>0, <1>5, SendPldFlushSane DEF EngineFlush, RegistersSane
    <2> QED BY <1>5, <2>1 DEF EngineFlush, EngineTypeOK, RegistersSane, OutputOK
<1>6. ASSUME NEW type \in RecordTypes, NEW n \in 1..OBufLen, HsWrite(type, n)
      PROVE  EngineInv'
    <2> DEFINE o == SendPldAck(out, outcrypt, n)
    <2>1. ~failed /\ n \in Nat /\ n >= 1 /\ n <= out.b - out.a
        BY <1>0, <1>6, EngineConstants DEF HsWrite, SendPldLen
    <2>2. OutputOK(o, outcrypt)
        BY <1>0, <2>1, SendPldAckSane DEF RegistersSane
    <2>3. out' = SendPldFlush(o, outcrypt, FALSE)
        BY <1>6 DEF HsWrite, WriteRecord
    <2> HIDE DEF o
    <2>4. OutputOK(out', outcrypt)
        BY <1>0, <2>2, <2>3, SendPldFlushSane DEF OutputOK
    <2> QED BY <1>6, <2>4 DEF HsWrite, EngineTypeOK, RegistersSane, OutputOK
<1>7. CASE HsFlush
    <2>1. OutputOK(out', outcrypt)
        BY <1>0, <1>7, SendPldFlushSane DEF HsFlush, RegistersSane
    <2> QED BY <1>7, <2>1 DEF HsFlush, EngineTypeOK, RegistersSane, OutputOK
<1>8. CASE HsSwitchIn
    <2>1. InputSane(in, TRUE)
        BY <1>0, <1>8, EngineConstants DEF HsSwitchIn, RegistersSane, InputSane
    <2> QED BY <1>8, <2>1 DEF HsSwitchIn, EngineTypeOK, RegistersSane
<1>9. CASE HsSwitchOut
    <2>1. OutputSane(out, TRUE)
        <3>1. OutputSane(out, outcrypt) /\ out.a = out.b
            BY <1>9 DEF HsSwitchOut, RegistersSane
        <3> QED BY <1>0, <3>1, SealedSane
    <2> QED BY <1>9, <2>1 DEF HsSwitchOut, EngineTypeOK, RegistersSane
<1>10. ASSUME NEW v \in 0..2, HsSetApp(v) PROVE EngineInv'
    BY <1>10 DEF HsSetApp, EngineTypeOK, RegistersSane, RecordTypes
<1>11. CASE HsShutdown \/ HsFail
    BY <1>11 DEF HsShutdown, HsFail, EngineTypeOK, RegistersSane
<1>12. CASE UNCHANGED engVars
    BY <1>12 DEF engVars, EngineTypeOK, RegistersSane
<1> QED BY <1>1, <1>2, <1>3, <1>4, <1>5, <1>6, <1>7, <1>8, <1>9, <1>10, <1>11,
           <1>12 DEF EngineNext

-----------------------------------------------------------------------------
\* In every execution, whatever the peer sends and the handshake processor
\* asks for, no record is built or received outside its buffer and a record
\* that was sealed is one the other end can take.
THEOREM EngineRegistersSane == EngineSpec => [](EngineTypeOK /\ RegistersSane)
<1>1. EngineInit => EngineInv
    BY EngineInitInv
<1>2. EngineInv /\ [EngineNext]_engVars => EngineInv'
    BY EngineNextInv
<1> QED BY <1>1, <1>2, PTL DEF EngineSpec, EngineInv

\* Sane registers leave room for input.
LEMMA NotStuck == EngineInv => NeverStuck
<1> SUFFICES ASSUME EngineInv, ~failed, ~shutdown, in.a = in.b PROVE RecvRecLen >= 1
    BY DEF NeverStuck
<1>0. in.a \in Int /\ in.b \in Int /\ in.c \in Int /\ incrypt \in BOOLEAN
    BY DEF EngineInv, EngineTypeOK, Registers
<1>1. in.c >= 1 /\ IBufLen - in.a >= 1
    BY <1>0, EngineConstants DEF EngineInv, RegistersSane, InputSane
<1>2. RecvRecLen = Least(in.c, IBufLen - in.a)
    BY DEF RecvRecLen
<1> QED BY <1>0, <1>1, <1>2, EngineConstants DEF Least

\* recvrec_buf always has room when the engine waits for the peer: the comment
\* "we cannot get stuck here" holds for all buffers the engine accepts.
THEOREM EngineNeverStuck == EngineSpec => []NeverStuck
BY NotStuck, EngineRegistersSane, PTL DEF EngineInv

\* The fragment length set_buffers_bidi picks meets the assumption the results
\* above rest on, with the header and overheads of the AEAD suites.
THEOREM FragLenMeetsConstants ==
    ASSUME NEW ilen \in Nat, NEW olen \in Nat, Suitable(ilen, olen),
           NEW iv \in 0..8, NEW tag \in 1..16
    PROVE  /\ MaxFragLen(ilen, olen) \in FragLens
           /\ ilen >= 5 + iv + MaxFragLen(ilen, olen) + tag
           /\ olen >= 2 * 5 + iv + MaxFragLen(ilen, olen) + tag
<1> DEFINE Largest(f) == /\ FragFits(f, ilen, olen)
                         /\ \A g \in FragLens : FragFits(g, ilen, olen) => g <= f
           largest == CHOOSE f \in FragLens : Largest(f)
<1>1. \E f \in FragLens : Largest(f)
    BY DEF Suitable, FragFits, FragLens
<1>2. largest \in FragLens /\ Largest(largest)
    BY <1>1
<1>3. MaxFragLen(ilen, olen) = IF largest = 8192 THEN 4096 ELSE largest
    BY DEF MaxFragLen
<1>4. FragFits(largest, ilen, olen) /\ largest \in FragLens
    BY <1>2
<1> HIDE DEF largest
<1> QED BY <1>3, <1>4 DEF FragFits, FragLens

-----------------------------------------------------------------------------
(* The inductive invariant of the link *)

Sent == [start : Nat, len : Nat]
WireRecord == [type : {"app", "alert"}, data : Seq(Nat)]

LinkTypes ==
    /\ peer \in Peers /\ sent \in Seq(Sent) /\ total \in Nat /\ left \in Nat
    /\ wire \in Seq(WireRecord) /\ flight \in Nat /\ avail \in Nat
    /\ ipl \in Seq(Nat) /\ opl \in Seq(Nat) /\ outBuf \in Seq(Nat) /\ arrived \in Seq(Nat)
    /\ accepted \in Nat /\ delivered \in Seq(Seq(Nat)) /\ expectedLen \in Nat
    /\ hs \in {"idle", "alert", "shutdown", "leave", "flush", "notify", "last",
               "fail", "closed"}
    /\ phase \in {"wait", "recv", "send", "read", "parse", "write", "last", "closed"}

\* Where the handshake processor is says what the engine accepts.
HsOK ==
    /\ hs \in {"idle", "alert", "shutdown", "fail"} => ~shutdown /\ app = 1
    /\ hs \in {"leave", "flush", "notify", "last"} => shutdown
    /\ hs \in {"flush", "notify", "last"} => app = 0
    /\ hs = "closed" => failed
    /\ app # 2 /\ incrypt = TRUE /\ outcrypt = TRUE

\* Plaintext in obuf belongs to a record that is open or being sent; it is not
\* open any more when the processor wants to write its close_notify.
OutOK ==
    /\ ~failed /\ opl # <<>> => out.a # out.c /\ (hs = "notify" => out.a = out.b)
    /\ NotifyFlushes

\* Messages lie one behind the other; peers that do not pack begin one only
\* behind the last byte of the one before.
End(m) == sent[m].start + Pre + sent[m].len
Start(m) == IF m <= Len(sent) THEN sent[m].start ELSE total + left

SentOK ==
    /\ Start(1) = 0
    /\ \A m \in 1..Len(sent) : Start(m + 1) = End(m)
    /\ \A m, k \in 1..Len(sent) : m < k => End(m) <= sent[k].start
    /\ peer # "packs" => \A m \in 1..Len(sent) : sent[m].start <= total

\* p is where the next message starts, and in_buf holds the n bytes behind it.
BytesOK(p, n) ==
    /\ p = Start(Len(delivered) + 1) /\ p + n <= total /\ n <= Rx!Cap
    /\ inBuf = Rx!Bytes(p, n)

\* As for TlsV2Receive: expected_len is the length of the next message, and
\* outside the inner loop no complete one is in in_buf, except for an empty one.
FrameLenOK ==
    expectedLen # 0 =>
        /\ Len(delivered) < Len(sent) /\ expectedLen = sent[Len(delivered) + 1].len
        /\ expectedLen <= MaxJson /\ Len(inBuf) >= Pre

NoneComplete ==
    phase # "parse" /\ Len(inBuf) >= Pre =>
        \/ sent[Len(delivered) + 1].len = 0
        \/ /\ sent[Len(delivered) + 1].len <= MaxJson
           /\ Len(inBuf) < Pre + sent[Len(delivered) + 1].len

FramesOK ==
    phase # "closed" =>
        /\ why \in {"open", "refused"} /\ FrameLenOK /\ NoneComplete
        /\ \E p, n \in Nat : BytesOK(p, n)

\* What a peer puts in one record: at most a fragment, or never bytes of two
\* messages, or never of prefix and payload.
Span(a, b) ==
    /\ a < b
    /\ peer = "bear" => b <= a + MaxFrag
    /\ peer # "packs" =>
        \E m \in 1..Len(sent) :
            /\ sent[m].start <= a /\ b <= End(m)
            /\ peer = "openssl" => b <= sent[m].start + Pre \/ sent[m].start + Pre <= a

\* A record with the bytes from a to b.
RecordOK(r, a, b) ==
    /\ RecLen(r) <= MaxRec
    /\ \/ r.type = "app" /\ Span(a, b) /\ r.data = Rx!Bytes(a, b - a)
       \/ r.type = "alert" /\ a = b /\ Len(r.data) = AlertLen

\* e are the offsets of the records on the wire in the stream of ciphertext,
\* p those of their bytes in the stream of plaintext; q is the byte in_buf has
\* to get next.  The first record may be in ibuf in part.
Taken == IF in.a = in.b THEN in.a ELSE 0
Held == IF typeIn = "app" THEN Len(ipl) ELSE 0

WireOK(e, p, q) ==
    /\ Len(e) = Len(wire) + 1 /\ Len(p) = Len(wire) + 1
    /\ \A i \in 1..Len(wire) : /\ e[i + 1] = e[i] + (Hdr + RecLen(wire[i]))
                               /\ RecordOK(wire[i], p[i], p[i + 1])
    /\ e[1] + (Taken + avail + flight) = e[Len(wire) + 1]
    /\ p[Len(wire) + 1] = total /\ \A i \in 1..(Len(wire) + 1) : p[i] <= total
    /\ p[1] = q + Held

\* ibuf holds the beginning of the first record, or the plaintext of the one
\* that was there before.
IbufOK(q) ==
    \/ /\ in.a = in.b /\ ipl = <<>>
       /\ in.a >= Hdr => /\ wire # <<>> /\ typeIn = wire[1].type
                         /\ in.a + in.c = Hdr + RecLen(wire[1])
    \/ /\ in.a < in.b /\ in.c = 0 /\ in.b - in.a = Len(ipl)
       /\ typeIn = "app" => Span(q, q + Len(ipl)) /\ ipl = Rx!Bytes(q, Len(ipl))

StreamOK ==
    ~failed /\ phase # "closed" =>
        \E e, p \in Seq(Nat), q \in Nat :
            /\ q = Start(Len(delivered) + 1) + Len(inBuf)
            /\ WireOK(e, p, q) /\ IbufOK(q)

LinkInv ==
    /\ EngineInv /\ LinkTypes /\ HsOK /\ OutOK /\ RepliesIntact
    /\ SentOK /\ FramesOK /\ DeliveredIntact /\ ClosedForCause
    /\ StreamOK

-----------------------------------------------------------------------------
(* The link uses the engine as it may be used *)

\* What the engine offers lies inside its buffers.
LEMMA Rooms ==
  ASSUME EngineInv
  PROVE  /\ RecvRecLen \in Int /\ RecvRecLen <= IBufLen
         /\ RecvPldLen \in Int /\ RecvPldLen <= IBufLen
         /\ SendPldLen \in Int /\ SendPldLen <= OBufLen
         /\ SendRecLen \in Int /\ SendRecLen <= OBufLen
<1>0. /\ in.a \in Int /\ in.b \in Int /\ in.c \in Int
      /\ out.a \in Int /\ out.b \in Int /\ out.c \in Int
      /\ incrypt \in BOOLEAN /\ outcrypt \in BOOLEAN
  BY DEF EngineInv, EngineTypeOK, Registers
<1>1. IBufLen \in Nat /\ OBufLen \in Nat
  BY EngineConstants
<1>2. CASE failed
  BY <1>1, <1>2 DEF RecvRecLen, RecvPldLen, SendPldLen, SendRecLen
<1>3. CASE ~failed
  <2>1. InputSane(in, incrypt) /\ OutputSane(out, outcrypt)
    BY <1>3 DEF EngineInv, RegistersSane
  <2>2. 0 <= in.a /\ in.b - in.a <= IBufLen
    BY <1>0, <1>1, <2>1, EngineConstants DEF InputSane
  <2>3. 0 <= out.a /\ 0 <= out.c /\ out.b <= OBufLen /\ out.c <= OBufLen
    BY <1>0, <1>1, <2>1, BeforeBehind, EngineConstants DEF OutputSane
  <2>4. RecvRecLen \in Int /\ RecvRecLen <= IBufLen
    BY <1>0, <1>1, <2>2 DEF RecvRecLen, Least
  <2>5. RecvPldLen \in Int /\ RecvPldLen <= IBufLen
    BY <1>0, <1>3, <2>2 DEF RecvPldLen
  <2>6. SendPldLen \in Int /\ SendPldLen <= OBufLen
    BY <1>0, <1>1, <1>3, <2>3 DEF SendPldLen
  <2>7. SendRecLen \in Int /\ SendRecLen <= OBufLen
    BY <1>0, <1>1, <1>3, <2>3 DEF SendRecLen
  <2> QED BY <2>4, <2>5, <2>6, <2>7
<1> QED BY <1>2, <1>3

\* When the handler gives bytes to the engine, there is a record they are of,
\* and the engine waits for them.
LEMMA RecvFacts ==
  ASSUME LinkInv, EngineRecv
  PROVE  \E n \in Nat :
           /\ n = Least(RecvRecLen, avail) /\ n >= 1 /\ n <= in.c /\ n <= avail /\ n <= IBufLen
           /\ ~failed /\ ~shutdown /\ app = 1 /\ phase = "recv" /\ in.a = in.b /\ ~HsRuns
           /\ wire # <<>> /\ Len(wire) \in Nat /\ 1 \in 1..Len(wire)
           /\ Head(wire) = wire[1] /\ wire[1] \in WireRecord /\ RecLen(wire[1]) \in Nat
           /\ RecLen(wire[1]) <= MaxRec
           /\ EngineRecvRec(n, wire[1].type, RecLen(wire[1]), TRUE)
<1> USE EngineConstants
<1>0. /\ in.a \in Int /\ in.b \in Int /\ in.c \in Int /\ incrypt = TRUE
      /\ failed \in BOOLEAN /\ shutdown \in BOOLEAN /\ avail \in Nat /\ flight \in Nat
  BY DEF LinkInv, EngineInv, EngineTypeOK, Registers, HsOK, LinkTypes
<1>1. PICK n : /\ n = Least(RecvRecLen, avail)
               /\ EngineRecvRec(n, Head(wire).type, RecLen(Head(wire)), TRUE)
  BY DEF EngineRecv
<1>2. avail > 0 /\ phase = "recv" /\ ~HsRuns
  BY DEF EngineRecv, Handling
<1>3. n \in 1..RecvRecLen /\ RecvRecLen \in Int /\ RecvRecLen <= IBufLen
  BY <1>1, Rooms DEF EngineRecvRec, LinkInv
<1>4. n \in Nat /\ n >= 1 /\ n <= RecvRecLen /\ n <= avail
  BY <1>0, <1>1, <1>3 DEF Least
<1>5. ~failed /\ ~shutdown /\ in.a = in.b
  BY <1>4 DEF RecvRecLen
<1>6. n <= in.c
  <2>1. RecvRecLen = Least(in.c, IBufLen - in.a)
    BY <1>5 DEF RecvRecLen
  <2> QED BY <1>0, <1>4, <2>1 DEF Least
<1>7. app = 1
  BY <1>5 DEF LinkInv, HsOK, LinkTypes
<1>8. PICK e, p \in Seq(Nat), q \in Nat : WireOK(e, p, q)
  BY <1>2, <1>5 DEF LinkInv, StreamOK
<1>9. wire \in Seq(WireRecord) /\ Len(wire) \in Nat
  BY DEF LinkInv, LinkTypes
<1>10. Len(wire) # 0
  <2> SUFFICES ASSUME Len(wire) = 0 PROVE FALSE
    OBVIOUS
  <2>1. e[1] + (Taken + avail + flight) = e[0 + 1] /\ Len(e) = 1
    BY <1>8 DEF WireOK
  <2>2. e[1] \in Nat
    <3>1. 1 \in 1..Len(e)
      BY <2>1
    <3> QED BY <3>1
  <2>3. Taken \in Nat
    BY <1>0, <1>5 DEF Taken, LinkInv, EngineInv, RegistersSane, InputSane
  <2> QED BY <1>0, <1>2, <2>1, <2>2, <2>3
<1>11. wire # <<>> /\ 1 \in 1..Len(wire) /\ Head(wire) = wire[1] /\ wire[1] \in WireRecord
  BY <1>9, <1>10
<1>12. RecLen(wire[1]) \in Nat
  <2>1. Len(wire[1].data) \in Nat
    BY <1>11 DEF WireRecord
  <2> QED BY <2>1 DEF RecLen
<1>13. RecLen(wire[1]) <= MaxRec
  BY <1>8, <1>11 DEF WireOK, RecordOK
<1>14. n = Least(RecvRecLen, avail) /\ EngineRecvRec(n, wire[1].type, RecLen(wire[1]), TRUE)
  BY <1>1, <1>11
<1>15. n <= IBufLen
  BY <1>3, <1>4
<1> QED BY <1>2, <1>4, <1>5, <1>6, <1>7, <1>9, <1>11, <1>12, <1>13, <1>14, <1>15, Zenon

\* Every step of the link is a step of the engine or leaves it alone.
LEMMA LinkEngineStep ==
  ASSUME LinkInv, [Next]_vars
  PROVE  [EngineNext]_engVars
<1> USE EngineConstants
<1>i. EngineInv
  BY DEF LinkInv
<1>1. CASE ProcessAlert
  <2>1. HsRead(RecvPldLen)
    BY <1>1 DEF ProcessAlert
  <2>2. RecvPldLen \in 1..IBufLen
    BY <1>i, <2>1, Rooms DEF HsRead
  <2> QED BY <2>1, <2>2 DEF EngineNext
<1>2. CASE DoClose
  <2>1. CASE HsWrite("alert", AlertLen)
    <3>1. AlertLen \in 1..OBufLen
      BY <1>i, <2>1, Rooms DEF HsWrite, AlertLen
    <3> QED BY <2>1, <3>1 DEF EngineNext, RecordTypes
  <2>2. CASE HsSetApp(0)
    <3>1. 0 \in 0..2
      OBVIOUS
    <3> QED BY <2>2, <3>1 DEF EngineNext
  <2>3. CASE HsShutdown \/ HsFlush \/ HsFail
    BY <2>3 DEF EngineNext
  <2> QED BY <1>2, <2>1, <2>2, <2>3 DEF DoClose
<1>3. CASE FatalAlert
  BY <1>3 DEF FatalAlert, EngineNext
<1>4. CASE EngineRecv
  <2>1. PICK n \in Nat : /\ n >= 1 /\ n <= IBufLen /\ wire[1] \in WireRecord
                         /\ RecLen(wire[1]) \in Nat /\ RecLen(wire[1]) <= MaxRec
                         /\ EngineRecvRec(n, wire[1].type, RecLen(wire[1]), TRUE)
    BY <1>4, RecvFacts
  <2>2. n \in 1..IBufLen /\ RecLen(wire[1]) \in 0..MaxRec /\ wire[1].type \in RecordTypes
    BY SMTT(30), <2>1 DEF WireRecord, RecordTypes
  <2> QED BY <2>1, <2>2 DEF EngineNext
<1>5. ASSUME NEW n \in 1..OBufLen, EngineSend(n) PROVE EngineNext
  BY <1>5 DEF EngineSend, EngineNext
<1>6. CASE ReadPlain
  <2>1. EngineRecvApp(RecvPldLen)
    BY <1>6 DEF ReadPlain
  <2>2. RecvPldLen \in 1..IBufLen
    BY <1>i, <2>1, Rooms DEF EngineRecvApp
  <2> QED BY <2>1, <2>2 DEF EngineNext
<1>7. CASE WritePlain
  <2>1. PICK n : EngineSendApp(n)
    BY <1>7 DEF WritePlain
  <2>2. n \in 1..OBufLen
    BY <1>i, <2>1, Rooms DEF EngineSendApp
  <2> QED BY <2>1, <2>2 DEF EngineNext
<1>8. CASE Handle \/ RecvEnds \/ SendEnds \/ ReadPlainFull \/ ReadPlainEnds
  BY <1>8 DEF Handle, RecvEnds, SendEnds, ReadPlainFull, ReadPlainEnds
<1>9. CASE Parse \/ ParseDelivers \/ WriteEnds \/ CallbackReturns \/ PeerReads
  BY <1>9 DEF Parse, ParseDelivers, WriteEnds, CallbackReturns, PeerReads
<1>10. CASE \/ \E len \in ReplyLens : SendJson(len)
            \/ \E len \in Lens : PeerMessage(len)
            \/ \E k \in 1..PeerMax : PeerRecord(k)
            \/ \E kind \in {0, 1} : PeerAlert(kind)
            \/ \E n \in 1..flight : NetDelivers(n)
  BY <1>10 DEF SendJson, PeerMessage, PeerRecord, PeerAlert, NetDelivers
<1>11. CASE UNCHANGED vars
  BY <1>11 DEF vars
<1> QED BY <1>1, <1>2, <1>3, <1>4, <1>5, <1>6, <1>7, <1>8, <1>9, <1>10, <1>11
        DEF Next, Processor, Handler

-----------------------------------------------------------------------------
(* Closing: the processor and obuf *)

\* The registers of obuf as the engine uses them after the handshake.
LEMMA ObufFacts ==
  ASSUME EngineInv, ~failed
  PROVE  /\ out.a \in Int /\ out.b \in Int /\ out.c \in Int /\ OutputSane(out, outcrypt)
         /\ Before(outcrypt) \in Nat /\ Behind(outcrypt) \in Nat /\ Before(outcrypt) >= 1
BY BeforeBehind DEF EngineInv, EngineTypeOK, Registers, RegistersSane

\* An open record that has bytes is sealed by a flush ...
LEMMA FlushSeals ==
  ASSUME EngineInv, ~failed, out.a # out.c,
         NEW force \in BOOLEAN, NEW z, z = SendPldFlush(out, outcrypt, force)
  PROVE  z.a = z.b /\ z.a # z.c
<1>0. /\ out.a \in Int /\ out.b \in Int /\ out.c \in Int /\ OutputSane(out, outcrypt)
      /\ Before(outcrypt) \in Nat /\ Behind(outcrypt) \in Nat /\ Before(outcrypt) >= 1
  BY ObufFacts
<1>1. CASE out.a = out.b
  BY <1>1 DEF SendPldFlush
<1>2. CASE out.a # out.b
  <2>1. z = Seal(out, outcrypt)
    BY <1>2 DEF SendPldFlush
  <2>2. out.c <= out.a
    BY <1>0, <1>2 DEF OutputSane
  <2>3. z.a = out.c - Before(outcrypt) /\ z.b = out.c - Before(outcrypt) /\ z.c = out.a + Behind(outcrypt)
    BY <2>1 DEF Seal
  <2> QED BY <1>0, <2>2, <2>3
<1> QED BY <1>1, <1>2

\* ... and one that gets bytes has them, whether this fills it or not.
LEMMA FillKeeps ==
  ASSUME EngineInv, ~failed, NEW n \in Nat, n >= 1, n <= out.b - out.a,
         NEW z, z = SendPldAck(out, outcrypt, n)
  PROVE  z.a # z.c
<1>0. /\ out.a \in Int /\ out.b \in Int /\ out.c \in Int /\ OutputSane(out, outcrypt)
      /\ Before(outcrypt) \in Nat /\ Behind(outcrypt) \in Nat /\ Before(outcrypt) >= 1
  BY ObufFacts
<1>1. out.c <= out.a
  BY <1>0 DEF OutputSane
<1>2. CASE out.a + n >= out.b
  <2> DEFINE x == [a |-> out.a + n, b |-> out.a + n + 1, c |-> out.c]
  <2>1. x.a = out.a + n /\ x.b = out.a + n + 1 /\ x.c = out.c
    OBVIOUS
  <2>2. x.a # x.b /\ x.a # x.c
    BY <1>0, <1>1, <2>1
  <2>3. z = Seal(x, outcrypt)
    BY <1>2, <2>2 DEF SendPldAck, SendPldFlush
  <2> HIDE DEF x
  <2>4. z.a = x.c - Before(outcrypt) /\ z.c = x.a + Behind(outcrypt)
    BY <2>3 DEF Seal
  <2> QED BY <1>0, <1>1, <2>1, <2>4
<1>3. CASE ~(out.a + n >= out.b)
  BY <1>0, <1>1, <1>3 DEF SendPldAck
<1> QED BY <1>2, <1>3

\* The processor's place and obuf agree after every step.
LEMMA ClosingStep ==
  ASSUME LinkInv, [Next]_vars
  PROVE  HsOK' /\ OutOK'
<1> USE EngineConstants
<1>i. EngineInv /\ HsOK /\ OutOK
  BY DEF LinkInv
<1>0. /\ failed \in BOOLEAN /\ shutdown \in BOOLEAN /\ app \in 0..2 /\ opl \in Seq(Nat)
      /\ out.a \in Int /\ out.b \in Int /\ out.c \in Int /\ incrypt = TRUE /\ outcrypt = TRUE
      /\ hs \in {"idle", "alert", "shutdown", "leave", "flush", "notify", "last", "fail", "closed"}
  BY <1>i DEF EngineInv, EngineTypeOK, Registers, LinkInv, LinkTypes, HsOK
<1>1. CASE ProcessAlert
  <2>1. /\ hs = "alert" /\ hs' \in {"shutdown", "fail"}
        /\ UNCHANGED <<failed, out, incrypt, outcrypt, shutdown, app, opl>>
    BY <1>1 DEF ProcessAlert, HsRead, HsGoto
  <2> QED BY <1>i, <2>1 DEF HsOK, OutOK, NotifyFlushes
<1>2. CASE DoClose
  <2>1. CASE hs = "shutdown" /\ HsShutdown /\ HsGoto("leave")
    BY <1>i, <2>1 DEF HsShutdown, HsGoto, HsOK, OutOK, NotifyFlushes
  <2>2. CASE hs = "leave" /\ HsSetApp(0) /\ HsGoto("flush")
    BY <1>i, <2>2 DEF HsSetApp, HsGoto, HsOK, OutOK, NotifyFlushes
  <2>3. CASE hs = "flush" /\ HsFlush /\ HsGoto("notify")
    <3>1. /\ ~failed /\ hs' = "notify" /\ out' = SendPldFlush(out, outcrypt, FALSE)
          /\ UNCHANGED <<failed, incrypt, outcrypt, shutdown, app, opl>>
      BY <2>3 DEF HsFlush, HsGoto
    <3>2. opl # <<>> => out.a # out.c
      BY <1>i, <3>1 DEF OutOK
    <3>3. opl # <<>> => out'.a = out'.b /\ out'.a # out'.c
      BY <1>0, <1>i, <3>1, <3>2, FlushSeals
    <3> QED BY <1>i, <2>3, <3>1, <3>3 DEF HsOK, OutOK, NotifyFlushes
  <2>4. CASE hs = "notify" /\ HsWrite("alert", AlertLen) /\ HsGoto("last")
    <3>1. /\ AlertLen \in 1..SendPldLen /\ hs' = "last"
          /\ UNCHANGED <<failed, incrypt, outcrypt, shutdown, app, opl>>
      BY <2>4 DEF HsWrite, HsGoto
    <3>2. ~failed /\ out.a # out.b
      BY <1>0, <3>1 DEF SendPldLen, AlertLen
    <3>3. opl = <<>>
      BY <1>i, <2>4, <3>2 DEF OutOK
    <3> QED BY <1>i, <2>4, <3>1, <3>3 DEF HsOK, OutOK, NotifyFlushes
  <2>5. CASE hs = "last" /\ SendPldLen > 0 /\ HsFail /\ HsGoto("closed")
    <3>1. /\ failed' = TRUE /\ hs' = "closed"
          /\ UNCHANGED <<incrypt, outcrypt, shutdown, app, opl>>
      BY <2>5 DEF HsFail, HsGoto
    <3> QED BY <1>i, <2>5, <3>1 DEF HsOK, OutOK, NotifyFlushes
  <2> QED BY <1>2, <2>1, <2>2, <2>3, <2>4, <2>5 DEF DoClose
<1>3. CASE FatalAlert
  <2>1. /\ hs = "fail" /\ failed' = TRUE /\ hs' = "closed"
        /\ UNCHANGED <<incrypt, outcrypt, shutdown, app, opl>>
    BY <1>3 DEF FatalAlert, HsFail, HsGoto
  <2> QED BY <1>i, <2>1 DEF HsOK, OutOK, NotifyFlushes
<1>4. CASE EngineRecv
  <2>1. ~failed /\ ~shutdown /\ app = 1
    BY <1>4, RecvFacts
  <2>2. /\ hs' \in {"alert", hs} /\ UNCHANGED <<out, incrypt, outcrypt, shutdown, app, opl>>
    BY <1>4 DEF EngineRecv, EngineRecvRec
  <2>3. hs \in {"idle", "alert", "shutdown", "fail"}
    BY <1>0, <1>i, <2>1 DEF HsOK
  <2>4. HsOK'
    BY <1>i, <2>1, <2>2, <2>3 DEF HsOK
  <2>5. opl # <<>> => out.a # out.c
    BY <1>i, <2>1 DEF OutOK
  <2> QED BY <2>1, <2>2, <2>3, <2>4, <2>5 DEF OutOK, NotifyFlushes
<1>5. ASSUME NEW n \in 1..OBufLen, EngineSend(n) PROVE HsOK' /\ OutOK'
  <2>1. /\ n \in 1..SendRecLen /\ out' = SendRecAck(out, outcrypt, n)
        /\ opl' = (IF n = SendRecLen THEN <<>> ELSE opl)
        /\ UNCHANGED <<failed, incrypt, outcrypt, shutdown, app, hs>>
    BY <1>5 DEF EngineSend, EngineSendRec
  <2>2. ~failed /\ SendRecLen = out.c - out.a
    BY <1>0, <2>1 DEF SendRecLen
  <2>3. HsOK'
    BY <1>i, <2>1 DEF HsOK
  <2>4. CASE n = SendRecLen
    BY <2>1, <2>3, <2>4 DEF OutOK, NotifyFlushes
  <2>5. CASE n # SendRecLen
    <3>1. out' = [a |-> out.a + n, b |-> out.a + n, c |-> out.c]
      <4>1. out.a + n # out.c
        BY <1>0, <2>2, <2>5
      <4> QED BY <2>1, <4>1 DEF SendRecAck
    <3>2. out'.a = out'.b /\ out'.a # out'.c
      BY <1>0, <2>2, <2>5, <3>1
    <3> QED BY <1>i, <2>1, <2>3, <2>5, <3>2 DEF OutOK, NotifyFlushes
  <2> QED BY <2>4, <2>5
<1>6. CASE WritePlain
  <2>1. PICK n : EngineSendApp(n)
    BY <1>6 DEF WritePlain
  <2>2. /\ n \in 1..SendPldLen /\ app = 1 /\ out' = SendPldAck(out, outcrypt, n)
        /\ UNCHANGED <<failed, incrypt, outcrypt, shutdown, app>>
    BY <2>1 DEF EngineSendApp
  <2>3. hs' = hs
    BY <1>6 DEF WritePlain
  <2>4. ~failed /\ n \in Nat /\ n >= 1 /\ n <= out.b - out.a
    BY <1>0, <2>2 DEF SendPldLen
  <2>5. out'.a # out'.c
    BY <1>0, <1>i, <2>2, <2>4, FillKeeps
  <2>6. hs \notin {"notify", "last", "closed"}
    BY <1>i, <2>2, <2>4 DEF HsOK
  <2>7. HsOK'
    BY <1>i, <2>2, <2>3 DEF HsOK
  <2> QED BY <2>3, <2>5, <2>6, <2>7 DEF OutOK, NotifyFlushes
<1>7. CASE UNCHANGED <<failed, out, incrypt, outcrypt, shutdown, app, opl, hs>>
  BY <1>i, <1>7 DEF HsOK, OutOK, NotifyFlushes
<1>8. CASE Handle \/ RecvEnds \/ SendEnds \/ ReadPlain \/ ReadPlainFull \/ ReadPlainEnds
  <2>1. UNCHANGED <<failed, out, incrypt, outcrypt, shutdown, app, opl, hs>>
    BY <1>8 DEF Handle, RecvEnds, SendEnds, ReadPlain, ReadPlainFull, ReadPlainEnds,
       EngineRecvApp, engVars
  <2> QED BY <1>7, <2>1
<1>9. CASE Parse \/ ParseDelivers \/ WriteEnds \/ CallbackReturns \/ PeerReads
  <2>1. UNCHANGED <<failed, out, incrypt, outcrypt, shutdown, app, opl, hs>>
    BY <1>9 DEF Parse, ParseDelivers, WriteEnds, CallbackReturns, PeerReads, engVars
  <2> QED BY <1>7, <2>1
<1>10. CASE \/ \E len \in ReplyLens : SendJson(len)
            \/ \E len \in Lens : PeerMessage(len)
            \/ \E k \in 1..PeerMax : PeerRecord(k)
            \/ \E kind \in {0, 1} : PeerAlert(kind)
            \/ \E n \in 1..flight : NetDelivers(n)
  <2>1. UNCHANGED <<failed, out, incrypt, outcrypt, shutdown, app, opl, hs>>
    BY <1>10 DEF SendJson, PeerMessage, PeerRecord, PeerAlert, NetDelivers, engVars
  <2> QED BY <1>7, <2>1
<1>11. CASE UNCHANGED vars
  BY <1>7, <1>11 DEF vars, engVars
<1> QED BY <1>1, <1>2, <1>3, <1>4, <1>5, <1>6, <1>8, <1>9, <1>10, <1>11
        DEF Next, Processor, Handler

-----------------------------------------------------------------------------
(* The replies *)

\* A run of n bytes is a sequence of length n.
LEMMA BytesSeq ==
  ASSUME NEW a \in Nat, NEW n \in Nat
  PROVE  Rx!Bytes(a, n) \in Seq(Nat) /\ Len(Rx!Bytes(a, n)) = n
BY DEF Rx!Bytes

\* A part of a run is a run.
LEMMA BytesSub ==
  ASSUME NEW a \in Nat, NEW n \in Nat, NEW i \in 1..(n + 1), NEW j \in 0..n, i <= j + 1
  PROVE  SubSeq(Rx!Bytes(a, n), i, j) = Rx!Bytes(a + (i - 1), j - (i - 1))
BY BytesSeq DEF Rx!Bytes

\* Two adjacent runs are one.
LEMMA BytesJoin ==
  ASSUME NEW a \in Nat, NEW n \in Nat, NEW k \in Nat
  PROVE  Rx!Bytes(a, n) \o Rx!Bytes(a + n, k) = Rx!Bytes(a, n + k)
BY BytesSeq DEF Rx!Bytes

LEMMA JoinAssoc ==
  ASSUME NEW r \in Seq(Nat), NEW s \in Seq(Nat), NEW t \in Seq(Nat)
  PROVE  (r \o s) \o t = r \o (s \o t)
OBVIOUS

\* Moving the beginning of the last of three sequences to the end of the second.
LEMMA MoveOver ==
  ASSUME NEW r \in Seq(Nat), NEW s \in Seq(Nat), NEW t \in Seq(Nat), NEW n \in 0..Len(t)
  PROVE  (r \o (s \o SubSeq(t, 1, n))) \o SubSeq(t, n + 1, Len(t)) = (r \o s) \o t
<1>1. PICK l \in Nat : l = Len(t) /\ n \in 0..l /\ 1 \in 1..(l + 1) /\ l \in n..l
                       /\ n \in (1 - 1)..l
  OBVIOUS
<1>2. SubSeq(t, 1, n) \in Seq(Nat) /\ SubSeq(t, n + 1, l) \in Seq(Nat)
  <2>1. /\ 1 \in Int /\ n \in Int /\ n + 1 \in Int /\ l \in Int
        /\ \A i \in 1..n : t[i] \in Nat
        /\ \A i \in (n + 1)..l : t[i] \in Nat
    BY <1>1
  <2>2. SubSeq(t, 1, n) \in Seq(Nat)
    BY ONLY <2>1, SubSeqProperties
  <2>3. SubSeq(t, n + 1, l) \in Seq(Nat)
    BY ONLY <2>1, SubSeqProperties
  <2> QED BY <2>2, <2>3
<1>3. PICK x, y \in Seq(Nat) : x = SubSeq(t, 1, n) /\ y = SubSeq(t, n + 1, l)
  BY <1>2
<1>4. x \o y = t
  <2>1. SubSeq(t, 1, n) \o SubSeq(t, n + 1, l) = SubSeq(t, 1, l)
    <3>1. /\ t \in Seq(Nat) /\ 1 \in 1..(Len(t) + 1) /\ n \in (1 - 1)..Len(t)
          /\ l \in n..Len(t)
      BY <1>1
    <3> QED BY ONLY <3>1, ConcatAdjacentSubSeq
  <2>2. SubSeq(t, 1, l) = t
    <3>1. t \in Seq(Nat) /\ l = Len(t)
      BY <1>1
    <3> QED BY ONLY <3>1, SubSeqFull
  <2> QED BY ONLY <1>3, <2>1, <2>2
<1>5. (r \o s) \o x = r \o (s \o x)
  BY ONLY ZenonT(30), JoinAssoc
<1>6. r \o s \in Seq(Nat)
  BY ONLY r \in Seq(Nat), s \in Seq(Nat), ConcatProperties
<1>7. PICK v \in Seq(Nat) : v = r \o s
  BY ONLY <1>6
<1>8. (v \o x) \o y = v \o (x \o y)
  BY ONLY JoinAssoc
<1> QED BY ONLY <1>1, <1>3, <1>4, <1>5, <1>7, <1>8

\* The server's stream stays in one piece: tlsv2_send_json puts bytes at its end,
\* the engine moves them on.
LEMMA RepliesStep ==
  ASSUME LinkInv, [Next]_vars
  PROVE  /\ RepliesIntact' /\ arrived' \in Seq(Nat) /\ opl' \in Seq(Nat)
         /\ outBuf' \in Seq(Nat) /\ accepted' \in Nat
<1> USE LinkConstants
<1>0. /\ arrived \in Seq(Nat) /\ opl \in Seq(Nat) /\ outBuf \in Seq(Nat) /\ accepted \in Nat
      /\ (arrived \o opl) \o outBuf = Rx!Bytes(0, accepted)
  BY DEF LinkInv, LinkTypes, RepliesIntact
<1>s. PICK r, s, t \in Seq(Nat) : r = arrived /\ s = opl /\ t = outBuf
  BY <1>0
<1>1. CASE UNCHANGED <<arrived, opl, outBuf, accepted>>
  BY <1>0, <1>1 DEF RepliesIntact
<1>2. ASSUME NEW n \in 1..OBufLen, EngineSend(n)
      PROVE  /\ RepliesIntact' /\ arrived' \in Seq(Nat) /\ opl' \in Seq(Nat)
             /\ outBuf' \in Seq(Nat) /\ accepted' \in Nat
  <2>1. UNCHANGED <<outBuf, accepted>>
    BY <1>2 DEF EngineSend, appVars
  <2>2. CASE n = SendRecLen
    <3>1. arrived' = r \o s /\ opl' = <<>>
      BY <1>2, <1>s, <2>2 DEF EngineSend
    <3>2. r \o s \in Seq(Nat)
      BY ONLY r \in Seq(Nat), s \in Seq(Nat), ConcatProperties
    <3>3. (r \o s) \o <<>> = r \o s
      BY ONLY <3>2, ConcatEmptySeq
    <3>4. (arrived' \o opl') \o outBuf' = Rx!Bytes(0, accepted')
      BY <1>0, <1>s, <2>1, <3>1, <3>3
    <3> QED BY SMTT(30), <1>0, <2>1, <3>1, <3>2, <3>4 DEF RepliesIntact
  <2>3. CASE n # SendRecLen
    <3>1. UNCHANGED <<arrived, opl>>
      BY <1>2, <2>3 DEF EngineSend
    <3> QED BY <1>1, <1>0, <2>1, <3>1
  <2> QED BY <2>2, <2>3
<1>3. CASE WritePlain
  <2>1. PICK n : /\ n = Least(Len(outBuf), SendPldLen) /\ n \in 1..SendPldLen
                 /\ opl' = opl \o SubSeq(outBuf, 1, n)
                 /\ outBuf' = SubSeq(outBuf, n + 1, Len(outBuf))
    BY <1>3 DEF WritePlain, EngineSendApp
  <2>2. UNCHANGED <<arrived, accepted>>
    BY <1>3 DEF WritePlain, netVars, appVars
  <2>3. n \in 0..Len(t)
    <3>1. SendPldLen \in Int /\ Len(t) \in Nat
      BY Rooms DEF LinkInv
    <3> QED BY <1>s, <2>1, <3>1 DEF Least
  <2>4. (r \o (s \o SubSeq(t, 1, n))) \o SubSeq(t, n + 1, Len(t)) = (r \o s) \o t
    BY ONLY ZenonT(30), <2>3, r \in Seq(Nat), s \in Seq(Nat), t \in Seq(Nat), MoveOver
  <2>5. SubSeq(t, 1, n) \in Seq(Nat) /\ SubSeq(t, n + 1, Len(t)) \in Seq(Nat)
    <3>1. /\ 1 \in Int /\ n \in Int /\ n + 1 \in Int /\ Len(t) \in Int
          /\ \A i \in 1..n : t[i] \in Nat
          /\ \A i \in (n + 1)..Len(t) : t[i] \in Nat
      BY <2>3
    <3>2. SubSeq(t, 1, n) \in Seq(Nat)
      BY ONLY <3>1, SubSeqProperties
    <3>3. SubSeq(t, n + 1, Len(t)) \in Seq(Nat)
      BY ONLY <3>1, SubSeqProperties
    <3> QED BY <3>2, <3>3
  <2>6. s \o SubSeq(t, 1, n) \in Seq(Nat)
    BY ONLY <2>5, s \in Seq(Nat), ConcatProperties
  <2>7. (arrived' \o opl') \o outBuf' = Rx!Bytes(0, accepted')
    BY <1>0, <1>s, <2>1, <2>2, <2>4
  <2> QED BY <1>0, <1>s, <2>1, <2>2, <2>5, <2>6, <2>7 DEF RepliesIntact
<1>4. ASSUME NEW len \in ReplyLens, SendJson(len)
      PROVE  /\ RepliesIntact' /\ arrived' \in Seq(Nat) /\ opl' \in Seq(Nat)
             /\ outBuf' \in Seq(Nat) /\ accepted' \in Nat
  <2>1. /\ outBuf = <<>> /\ outBuf' = Rx!Bytes(accepted, Pre + len)
        /\ accepted' = accepted + Pre + len /\ UNCHANGED <<arrived, opl>>
    BY <1>4 DEF SendJson, netVars
  <2>2. PICK a, k \in Nat : a = accepted /\ k = Pre + len
    BY <1>0
  <2>3. accepted' = a + k /\ accepted' \in Nat /\ 0 + a = a /\ 0 \in Nat
    <3>1. len \in Nat /\ Pre \in Nat
      OBVIOUS
    <3> QED BY <2>1, <2>2, <3>1
  <2>4. r \o s = Rx!Bytes(0, a)
    <3>1. r \o s \in Seq(Nat)
      BY ONLY r \in Seq(Nat), s \in Seq(Nat), ConcatProperties
    <3>2. (r \o s) \o <<>> = r \o s
      BY ONLY <3>1, ConcatEmptySeq
    <3> QED BY <1>0, <1>s, <2>1, <2>2, <3>2
  <2>5. Rx!Bytes(0, a) \o Rx!Bytes(0 + a, k) = Rx!Bytes(0, a + k)
    BY ONLY <2>3, a \in Nat, k \in Nat, BytesJoin
  <2>6. (arrived' \o opl') \o outBuf' = Rx!Bytes(0, accepted')
    BY <1>s, <2>1, <2>2, <2>3, <2>4, <2>5
  <2>7. outBuf' \in Seq(Nat)
    BY <2>1, <2>2, BytesSeq
  <2> QED BY <1>0, <2>1, <2>3, <2>6, <2>7 DEF RepliesIntact
<1>5. CASE Processor
  BY <1>1, <1>5 DEF Processor, ProcessAlert, DoClose, FatalAlert, HsGoto, netVars, appVars
<1>6. CASE Handle \/ EngineRecv \/ RecvEnds \/ SendEnds \/ ReadPlain \/ ReadPlainFull
           \/ ReadPlainEnds
  <2>1. UNCHANGED <<arrived, opl, outBuf, accepted>>
    BY <1>6 DEF Handle, EngineRecv, RecvEnds, SendEnds, ReadPlain, ReadPlainFull,
       ReadPlainEnds, netVars, appVars
  <2> QED BY <1>1, <2>1
<1>7. CASE Parse \/ ParseDelivers \/ WriteEnds \/ CallbackReturns \/ PeerReads
  <2>1. UNCHANGED <<arrived, opl, outBuf, accepted>>
    BY <1>7 DEF Parse, ParseDelivers, WriteEnds, CallbackReturns, PeerReads, netVars, appVars
  <2> QED BY <1>1, <2>1
<1>8. CASE \/ \E len \in Lens : PeerMessage(len)
           \/ \E k \in 1..PeerMax : PeerRecord(k)
           \/ \E kind \in {0, 1} : PeerAlert(kind)
           \/ \E n \in 1..flight : NetDelivers(n)
  <2>1. UNCHANGED <<arrived, opl, outBuf, accepted>>
    BY <1>8 DEF PeerMessage, PeerRecord, PeerAlert, NetDelivers, Put, netVars, appVars
  <2> QED BY <1>1, <2>1
<1>9. CASE UNCHANGED vars
  BY <1>1, <1>9 DEF vars, netVars, appVars
<1> QED BY <1>2, <1>3, <1>4, <1>5, <1>6, <1>7, <1>8, <1>9 DEF Next, Handler

-----------------------------------------------------------------------------
(* The messages of the peer and in_buf *)

\* Starts, lengths and ends are numbers, and a message has at least its prefix.
LEMMA SentFacts ==
  ASSUME LinkTypes, NEW m \in 1..Len(sent)
  PROVE  /\ sent[m].start \in Nat /\ sent[m].len \in Nat /\ End(m) \in Nat
         /\ End(m) = sent[m].start + Pre + sent[m].len /\ sent[m].start + Pre <= End(m)
         /\ sent[m].start < End(m) /\ Len(sent) \in Nat /\ total \in Nat
<1>1. sent[m] \in Sent
  BY DEF LinkTypes
<1>2. sent[m].start \in Nat /\ sent[m].len \in Nat
  BY <1>1 DEF Sent
<1>3. Len(sent) \in Nat /\ total \in Nat
  BY DEF LinkTypes
<1> QED BY <1>2, <1>3, LinkConstants DEF End

\* Messages have their starts to themselves.
LEMMA StartsDiffer ==
  ASSUME LinkTypes, SentOK, NEW m \in 1..Len(sent), NEW k \in 1..Len(sent),
         sent[m].start = sent[k].start
  PROVE  m = k
<1>1. m < k => End(m) <= sent[k].start
  BY DEF SentOK
<1>2. k < m => End(k) <= sent[m].start
  BY DEF SentOK
<1>3. /\ sent[m].start < End(m) /\ End(m) \in Nat /\ sent[m].start \in Nat
      /\ sent[k].start < End(k) /\ End(k) \in Nat /\ sent[k].start \in Nat
  BY SentFacts
<1> QED BY <1>1, <1>2, <1>3

\* What in_buf holds while the connection is open.
LEMMA OpenFacts ==
  ASSUME LinkInv, phase # "closed"
  PROVE  \E p, n, d \in Nat :
           /\ d = Len(delivered) /\ d <= Len(sent) /\ BytesOK(p, n)
           /\ p = Start(d + 1) /\ p + n <= total /\ n <= Rx!Cap
           /\ inBuf = Rx!Bytes(p, n) /\ Len(inBuf) = n
<1>1. PICK p, n \in Nat : BytesOK(p, n)
  BY DEF LinkInv, FramesOK
<1>2. PICK d \in Nat : d = Len(delivered) /\ d <= Len(sent)
  BY DEF LinkInv, LinkTypes, DeliveredIntact, Rx!DeliveredIntact
<1>3. /\ p = Start(d + 1) /\ p + n <= total /\ n <= Rx!Cap /\ inBuf = Rx!Bytes(p, n)
  BY <1>1, <1>2 DEF BytesOK
<1>4. Len(Rx!Bytes(p, n)) = n
  BY BytesSeq
<1> QED BY <1>1, <1>2, <1>3, <1>4

\* in_buf holds a prefix only if there is a message left to deliver.
LEMMA MessageAtHead ==
  ASSUME LinkInv, phase # "closed", Len(inBuf) >= 1
  PROVE  /\ Len(delivered) + 1 \in 1..Len(sent)
         /\ Start(Len(delivered) + 1) = sent[Len(delivered) + 1].start
<1> USE LinkConstants
<1>1. PICK p, n, d \in Nat : /\ d = Len(delivered) /\ d <= Len(sent) /\ p = Start(d + 1)
                             /\ p + n <= total /\ Len(inBuf) = n
  BY OpenFacts
<1>2. total \in Nat /\ left \in Nat /\ Len(sent) \in Nat
  BY DEF LinkInv, LinkTypes
<1>3. d # Len(sent)
  <2>1. SUFFICES ASSUME d = Len(sent) PROVE FALSE
    OBVIOUS
  <2>2. p = total + left
    BY <1>1, <1>2, <2>1 DEF Start
  <2> QED BY <1>1, <1>2, <2>2
<1> QED BY <1>1, <1>2, <1>3 DEF Start

\* Once the prefix is known, the length the inner loop works with is that of
\* the next message.
LEMMA ExpectedIsNext ==
  ASSUME LinkInv, phase = "parse", Rx!HeaderKnown
  PROVE  /\ Len(inBuf) >= Pre /\ Len(delivered) + 1 \in 1..Len(sent)
         /\ Rx!Expected = {sent[Len(delivered) + 1].len}
<1> USE LinkConstants
<1>1. Len(inBuf) >= Pre
  BY DEF Rx!HeaderKnown, LinkInv, FramesOK, FrameLenOK
<1>o. Len(inBuf) \in Nat
  BY OpenFacts
<1>2. /\ Len(delivered) + 1 \in 1..Len(sent)
      /\ Start(Len(delivered) + 1) = sent[Len(delivered) + 1].start
  <2>1. Len(inBuf) >= 1
    BY <1>1, <1>o
  <2> QED BY <2>1, MessageAtHead
<1>3. CASE expectedLen # 0
  BY <1>1, <1>2, <1>3 DEF LinkInv, FramesOK, FrameLenOK, Rx!Expected
<1>4. CASE expectedLen = 0
  <2>1. PICK p, n, d \in Nat : /\ d = Len(delivered) /\ p = Start(d + 1)
                               /\ inBuf = Rx!Bytes(p, n) /\ Len(inBuf) = n
    BY OpenFacts
  <2>j. PICK j \in 1..Len(sent) : j = d + 1 /\ p = sent[j].start
    BY <1>2, <2>1
  <2>2. \A k \in 1..Pre : inBuf[k] = p + k
    BY <1>1, <2>1 DEF Rx!Bytes
  <2>3. DOMAIN sent = 1..Len(sent)
    BY DEF LinkInv, LinkTypes
  <2>4. ASSUME NEW m \in 1..Len(sent), \A k \in 1..Pre : inBuf[k] = sent[m].start + k
        PROVE  m = j
    <3>1. inBuf[1] = p + 1 /\ inBuf[1] = sent[m].start + 1
      BY <2>2, <2>4
    <3>2. sent[m].start \in Nat
      BY SentFacts DEF LinkInv
    <3>3. sent[m].start = sent[j].start
      BY <2>j, <3>1, <3>2
    <3> QED BY <3>3, StartsDiffer DEF LinkInv
  <2>5. {m \in DOMAIN sent : \A k \in 1..Pre : inBuf[k] = sent[m].start + k} = {j}
    BY <2>j, <2>2, <2>3, <2>4
  <2>6. Rx!Announced(inBuf) = {sent[j].len}
    BY <2>5 DEF Rx!Announced
  <2> QED BY <1>1, <1>2, <1>4, <2>1, <2>j, <2>6 DEF Rx!Expected
<1> QED BY <1>3, <1>4

FramesInv == SentOK /\ FramesOK /\ DeliveredIntact /\ ClosedForCause

\* A step that leaves messages and in_buf alone.
LEMMA FramesSame ==
  ASSUME LinkInv, UNCHANGED <<peer, sent, total, left, inBuf, expectedLen, delivered>>,
         why' = why \/ (phase # "closed" /\ why' = "refused" /\ peer # "bear"),
         phase' = phase \/ (phase \notin {"parse", "closed"} /\ phase' # "closed")
  PROVE  FramesInv'
<1>1. SentOK' /\ DeliveredIntact'
  BY DEF LinkInv, SentOK, DeliveredIntact, Rx!DeliveredIntact, Rx!Payload, Start, End
<1>2. ClosedForCause'
  BY DEF LinkInv, ClosedForCause
<1>3. CASE phase' = "closed"
  BY <1>1, <1>2, <1>3 DEF FramesInv, FramesOK
<1>4. CASE phase' # "closed"
  <2>1. phase # "closed"
    BY <1>4
  <2>2. PICK p, n \in Nat : BytesOK(p, n)
    BY <2>1 DEF LinkInv, FramesOK
  <2>3. BytesOK(p, n)'
    BY <2>2 DEF BytesOK, Start, Rx!Cap
  <2>4. FrameLenOK' /\ NoneComplete' /\ why' \in {"open", "refused"}
    BY <2>1 DEF LinkInv, FramesOK, FrameLenOK, NoneComplete
  <2> QED BY <1>1, <1>2, <2>3, <2>4 DEF FramesInv, FramesOK
<1> QED BY <1>3, <1>4

\* The peer begins a message: those before it keep their place.
LEMMA MessageAppends ==
  ASSUME LinkInv, NEW len \in Lens, PeerMessage(len), NEW c \in Nat, c = Len(sent)
  PROVE  /\ sent' \in Seq(Sent) /\ Len(sent') = c + 1
         /\ \A m \in 1..c : sent'[m] = sent[m] /\ End(m)' = End(m)
         /\ sent'[c + 1].start = total + left
         /\ End(c + 1)' = total + left + Pre + len
         /\ \A m \in 1..(c + 1) : Start(m)' = Start(m)
         /\ Start(c + 2)' = total + left + Pre + len
<1> USE LinkConstants
<1>0. /\ sent' = Append(sent, [start |-> total + left, len |-> len])
      /\ left' = left + Pre + len /\ total' = total
  BY DEF PeerMessage
<1>1. /\ sent \in Seq(Sent) /\ total \in Nat /\ left \in Nat /\ len \in Nat
      /\ \A m \in 1..c : sent[m] \in Sent
  BY DEF LinkInv, LinkTypes
<1>2. /\ sent' \in Seq(Sent) /\ Len(sent') = c + 1
      /\ \A m \in 1..c : sent'[m] = sent[m]
      /\ sent'[c + 1].start = total + left /\ sent'[c + 1].len = len
  <2>1. [start |-> total + left, len |-> len] \in Sent
    BY <1>1 DEF Sent
  <2> QED BY <1>0, <1>1, <2>1
<1>3. /\ \A m \in 1..c : End(m)' = End(m)
      /\ End(c + 1)' = total + left + Pre + len
  BY <1>0, <1>1, <1>2 DEF End
<1>4. /\ \A m \in 1..(c + 1) : Start(m)' = Start(m)
      /\ Start(c + 2)' = total + left + Pre + len
  <2>1. \A m \in 1..c : Start(m)' = Start(m)
    BY <1>2 DEF Start
  <2>2. Start(c + 1)' = total + left /\ Start(c + 1) = total + left
    BY <1>0, <1>1, <1>2 DEF Start
  <2>3. Start(c + 2)' = total' + left'
    BY <1>0, <1>1, <1>2 DEF Start
  <2>4. total' + left' = total + left + Pre + len
    BY <1>0, <1>1
  <2> QED BY <2>1, <2>2, <2>3, <2>4
<1> QED BY <1>2, <1>3, <1>4

LEMMA MessageKeepsOrder ==
  ASSUME LinkInv, NEW len \in Lens, PeerMessage(len)
  PROVE  SentOK'
<1> USE LinkConstants
<1>n. PICK c \in Nat : c = Len(sent)
  BY DEF LinkInv, LinkTypes
<1>1. /\ total \in Nat /\ left \in Nat /\ len \in Nat /\ LinkTypes /\ SentOK
      /\ peer' = peer /\ total' = total /\ (left = 0 \/ peer = "packs")
  BY DEF LinkInv, LinkTypes, PeerMessage
<1>2. /\ Len(sent') = c + 1
      /\ \A m \in 1..c : sent'[m] = sent[m] /\ End(m)' = End(m)
      /\ sent'[c + 1].start = total + left
      /\ End(c + 1)' = total + left + Pre + len
      /\ \A m \in 1..(c + 1) : Start(m)' = Start(m)
      /\ Start(c + 2)' = total + left + Pre + len
  BY <1>n, MessageAppends
<1>3. Start(1)' = 0
  <2>1. 1 \in 1..(c + 1) /\ Start(1) = 0
    BY <1>1 DEF SentOK
  <2> QED BY <1>2, <2>1
<1>4. ASSUME NEW m \in 1..(c + 1) PROVE Start(m + 1)' = End(m)'
  <2>1. CASE m \in 1..c
    <3>1. Start(m + 1) = End(m) /\ m + 1 \in 1..(c + 1)
      BY <1>n, <1>1, <2>1 DEF SentOK
    <3> QED BY <1>2, <2>1, <3>1
  <2>2. CASE m = c + 1
    <3>1. Start(m + 1)' = Start(c + 2)'
      BY <2>2
    <3> QED BY <1>2, <2>2, <3>1
  <2> QED BY <2>1, <2>2
<1>5. ASSUME NEW m \in 1..c PROVE End(m) <= total + left
  <2>1. CASE m = c
    <3>1. Start(c + 1) = End(c) /\ Start(c + 1) = total + left
      BY <1>n, <1>1, <2>1 DEF SentOK, Start
    <3> QED BY <1>1, <2>1, <3>1
  <2>2. CASE m < c
    <3>1. c \in 1..c /\ End(m) <= sent[c].start
      BY <1>n, <1>1, <2>2 DEF SentOK
    <3>2. Start(c + 1) = End(c) /\ Start(c + 1) = total + left
      BY <1>n, <1>1, <3>1 DEF SentOK, Start
    <3>3. End(m) \in Nat /\ End(c) \in Nat /\ sent[c].start \in Nat /\ sent[c].start < End(c)
      BY <1>n, <1>1, <3>1, SentFacts
    <3> QED BY <1>1, <3>1, <3>2, <3>3
  <2> QED BY <2>1, <2>2
<1>6. ASSUME NEW m \in 1..(c + 1), NEW k \in 1..(c + 1), m < k
      PROVE  End(m)' <= sent'[k].start
  <2>0. m \in 1..c
    BY <1>6
  <2>1. CASE k \in 1..c
    <3>1. End(m) <= sent[k].start
      BY <1>n, <1>1, <1>6, <2>0, <2>1 DEF SentOK
    <3> QED BY <1>2, <2>0, <2>1, <3>1
  <2>2. CASE k = c + 1
    BY <1>2, <1>5, <2>0, <2>2
  <2> QED BY <2>1, <2>2
<1>7. peer' # "packs" => \A m \in 1..(c + 1) : sent'[m].start <= total'
  <2> SUFFICES ASSUME peer # "packs", NEW m \in 1..(c + 1) PROVE sent'[m].start <= total
    BY <1>1
  <2>1. CASE m \in 1..c
    <3>1. sent[m].start <= total
      BY <1>n, <1>1, <2>1 DEF SentOK
    <3> QED BY <1>2, <2>1, <3>1
  <2>2. CASE m = c + 1
    BY <1>1, <1>2, <2>2
  <2> QED BY <2>1, <2>2
<1> QED BY <1>2, <1>3, <1>4, <1>6, <1>7 DEF SentOK

LEMMA MessageStep ==
  ASSUME LinkInv, NEW len \in Lens, PeerMessage(len)
  PROVE  FramesInv'
<1> USE LinkConstants
<1>0. UNCHANGED <<peer, total, inBuf, expectedLen, delivered, phase, why>>
  BY DEF PeerMessage, frameVars
<1>n. PICK c, d \in Nat : c = Len(sent) /\ d = Len(delivered) /\ d <= c
  BY DEF LinkInv, LinkTypes, DeliveredIntact, Rx!DeliveredIntact
<1>1. /\ Len(sent') = c + 1 /\ \A m \in 1..c : sent'[m] = sent[m]
      /\ \A m \in 1..(c + 1) : Start(m)' = Start(m)
  BY <1>n, MessageAppends
<1>2. SentOK'
  BY MessageKeepsOrder
<1>3. DeliveredIntact'
  <2>1. \A m \in 1..d : delivered[m] = Rx!Payload(m)'
    BY <1>n, <1>1 DEF LinkInv, DeliveredIntact, Rx!DeliveredIntact, Rx!Payload
  <2> QED BY <1>0, <1>n, <1>1, <2>1 DEF DeliveredIntact, Rx!DeliveredIntact
<1>4. ClosedForCause'
  <2>1. d < c => sent'[d + 1] = sent[d + 1] /\ d < c + 1
    BY <1>n, <1>1
  <2> QED BY <1>0, <1>n, <1>1, <2>1 DEF LinkInv, ClosedForCause
<1>5. CASE phase = "closed"
  BY <1>0, <1>2, <1>3, <1>4, <1>5 DEF FramesInv, FramesOK
<1>6. CASE phase # "closed"
  <2>1. PICK p, n \in Nat : /\ BytesOK(p, n) /\ p = Start(d + 1) /\ Len(inBuf) = n
    BY <1>n, <1>6, OpenFacts
  <2>2. BytesOK(p, n)'
    <3>1. Start(d + 1)' = p
      BY <1>n, <1>1, <2>1
    <3>2. Start(Len(delivered) + 1)' = p
      BY <1>0, <1>n, <3>1
    <3> QED BY <1>0, <2>1, <3>2 DEF BytesOK, Rx!Cap
  <2>3. Len(inBuf) >= Pre => d + 1 \in 1..c /\ sent'[d + 1] = sent[d + 1]
    <3>1. Len(inBuf) >= Pre => Len(inBuf) >= 1
      BY <2>1
    <3> QED BY <1>n, <1>1, <1>6, <3>1, MessageAtHead
  <2>4. FrameLenOK'
    BY <1>0, <1>n, <1>1, <1>6, <2>3 DEF LinkInv, FramesOK, FrameLenOK
  <2>5. NoneComplete'
    BY <1>0, <1>n, <1>6, <2>3 DEF LinkInv, FramesOK, NoneComplete
  <2> QED BY <1>0, <1>2, <1>3, <1>4, <1>6, <2>2, <2>4, <2>5 DEF LinkInv, FramesInv, FramesOK
<1> QED BY <1>5, <1>6

\* The peer writes a record of its message.
LEMMA RecordStep ==
  ASSUME LinkInv, NEW k \in 1..PeerMax, PeerRecord(k)
  PROVE  FramesInv' /\ total' \in Nat /\ left' \in Nat
<1> USE LinkConstants
<1>0. /\ k \in 1..left /\ total' = total + k /\ left' = left - k
      /\ UNCHANGED <<peer, sent, inBuf, expectedLen, delivered, phase, why>>
  BY DEF PeerRecord, frameVars
<1>1. total \in Nat /\ left \in Nat /\ k \in Nat
  BY DEF LinkInv, LinkTypes
<1>2. total' \in Nat /\ left' \in Nat /\ total' + left' = total + left /\ total <= total'
  BY <1>0, <1>1
<1>3. \A m : End(m)' = End(m) /\ Start(m)' = Start(m) /\ Rx!Payload(m)' = Rx!Payload(m)
  BY <1>0, <1>2 DEF End, Start, Rx!Payload
<1>4. SentOK'
  <2>1. peer # "packs" => \A m \in 1..Len(sent) : sent[m].start <= total'
    <3> SUFFICES ASSUME peer # "packs", NEW m \in 1..Len(sent) PROVE sent[m].start <= total'
      OBVIOUS
    <3>1. sent[m].start \in Nat /\ sent[m].start <= total
      BY SentFacts DEF LinkInv, SentOK
    <3> QED BY <1>1, <1>2, <3>1
  <2> QED BY <1>0, <1>3, <2>1 DEF LinkInv, SentOK
<1>5. DeliveredIntact' /\ ClosedForCause'
  BY <1>0, <1>3 DEF LinkInv, DeliveredIntact, Rx!DeliveredIntact, ClosedForCause
<1>6. CASE phase = "closed"
  BY <1>0, <1>2, <1>4, <1>5, <1>6 DEF FramesInv, FramesOK
<1>7. CASE phase # "closed"
  <2>1. PICK p, n, d \in Nat : /\ d = Len(delivered) /\ BytesOK(p, n) /\ p = Start(d + 1)
                               /\ p + n <= total
    BY <1>7, OpenFacts
  <2>2. BytesOK(p, n)'
    <3>1. Start(Len(delivered) + 1)' = p /\ p + n <= total'
      BY <1>0, <1>1, <1>2, <1>3, <2>1
    <3> QED BY <1>0, <2>1, <3>1 DEF BytesOK, Rx!Cap
  <2>3. FrameLenOK' /\ NoneComplete' /\ why' \in {"open", "refused"}
    BY <1>0, <1>7 DEF LinkInv, FramesOK, FrameLenOK, NoneComplete
  <2> QED BY <1>0, <1>2, <1>4, <1>5, <1>7, <2>2, <2>3 DEF FramesInv, FramesOK
<1> QED BY <1>6, <1>7

\* Payload of an application record that the engine offers is what in_buf has
\* to get next.
LEMMA PayloadIsNext ==
  ASSUME LinkInv, phase # "closed", typeIn = "app", RecvPldLen > 0
  PROVE  \E q, k \in Nat :
           /\ k = Len(ipl) /\ k >= 1 /\ RecvPldLen = k /\ ~failed /\ q + k <= total
           /\ q = Start(Len(delivered) + 1) + Len(inBuf)
           /\ in.a < in.b /\ in.c = 0 /\ ipl = Rx!Bytes(q, k) /\ Span(q, q + k)
<1>0. in.a \in Int /\ in.b \in Int /\ ipl \in Seq(Nat) /\ total \in Nat /\ Len(wire) \in Nat
  BY DEF LinkInv, LinkTypes, EngineInv, EngineTypeOK, Registers
<1>1. ~failed /\ in.a < in.b /\ RecvPldLen = in.b - in.a
  BY <1>0 DEF RecvPldLen
<1>2. PICK e, p \in Seq(Nat), q \in Nat : /\ q = Start(Len(delivered) + 1) + Len(inBuf)
                                          /\ WireOK(e, p, q) /\ IbufOK(q)
  BY <1>1 DEF LinkInv, StreamOK
<1>3. /\ in.b - in.a = Len(ipl) /\ in.c = 0 /\ Span(q, q + Len(ipl))
      /\ ipl = Rx!Bytes(q, Len(ipl))
  BY <1>0, <1>1, <1>2 DEF IbufOK
<1>4. PICK k \in Nat : k = Len(ipl)
  BY <1>0
<1>5. q + k <= total
  <2>1. p[1] = q + k
    BY <1>2, <1>4 DEF WireOK, Held
  <2>2. 1 \in 1..(Len(wire) + 1)
    BY <1>0
  <2>3. p[1] <= total
    BY <1>2, <2>2 DEF WireOK
  <2> QED BY <2>1, <2>3
<1>6. k >= 1
  BY <1>0, <1>1, <1>3, <1>4
<1> QED BY <1>1, <1>2, <1>3, <1>4, <1>5, <1>6

\* read_plain puts the record behind what in_buf holds.
LEMMA ReadPlainStep ==
  ASSUME LinkInv, ReadPlain
  PROVE  FramesInv' /\ ipl' = <<>> /\ Len(inBuf') = Len(inBuf) + Len(ipl)
         /\ phase = "read" /\ phase' = "parse"
         /\ UNCHANGED <<peer, sent, total, left, expectedLen, delivered>>
<1> USE LinkConstants
<1>0. /\ phase = "read" /\ phase' = "parse" /\ Len(ipl) <= Rx!Cap - Len(inBuf)
      /\ inBuf' = inBuf \o SubSeq(ipl, 1, Len(ipl))
      /\ ipl' = SubSeq(ipl, Len(ipl) + 1, Len(ipl))
      /\ UNCHANGED <<peer, sent, total, left, expectedLen, delivered, why>>
  BY DEF ReadPlain, Rx!ReadSome, Rx!sendVars
<1>1. typeIn = "app" /\ RecvPldLen > 0
  <2>1. EngineRecvApp(RecvPldLen) /\ RecvPldLen \in Int
    BY Rooms DEF ReadPlain, LinkInv
  <2> QED BY <2>1 DEF EngineRecvApp
<1>2. PICK q, k \in Nat : /\ k = Len(ipl) /\ k >= 1 /\ q + k <= total
                          /\ q = Start(Len(delivered) + 1) + Len(inBuf)
                          /\ ipl = Rx!Bytes(q, k)
  BY <1>0, <1>1, PayloadIsNext
<1>3. PICK p, n, d \in Nat :
        /\ d = Len(delivered) /\ p = Start(d + 1) /\ n <= Rx!Cap
        /\ inBuf = Rx!Bytes(p, n) /\ Len(inBuf) = n
  BY <1>0, OpenFacts
<1>4. q = p + n /\ total \in Nat /\ ipl \in Seq(Nat) /\ Rx!Cap \in Nat
  BY <1>2, <1>3 DEF LinkInv, LinkTypes, Rx!Cap
<1>5. SubSeq(ipl, 1, Len(ipl)) = ipl
  BY ONLY <1>4, SubSeqFull
<1>6. ipl' = <<>>
  <2>1. k + 1 \in Int /\ k \in Int /\ k < k + 1
    OBVIOUS
  <2>2. SubSeq(ipl, k + 1, k) = <<>>
    BY ONLY <2>1, SubSeqEmpty
  <2> QED BY <1>0, <1>2, <2>2
<1>7. inBuf' = Rx!Bytes(p, n + k)
  <2>1. Rx!Bytes(p, n) \o Rx!Bytes(p + n, k) = Rx!Bytes(p, n + k)
    BY ONLY p \in Nat, n \in Nat, k \in Nat, BytesJoin
  <2> QED BY <1>0, <1>2, <1>3, <1>4, <1>5, <2>1
<1>8. n + k \in Nat /\ n + k <= Rx!Cap /\ p + (n + k) <= total
  <2>1. k <= Rx!Cap - n
    BY <1>0, <1>2, <1>3
  <2>2. q + k <= total /\ q = p + n /\ total \in Nat /\ Rx!Cap \in Nat
    BY <1>2, <1>4
  <2>3. n + k <= Rx!Cap
    BY ONLY <2>1, <2>2, n \in Nat, k \in Nat
  <2>4. p + (n + k) <= total
    BY ONLY <2>2, p \in Nat, n \in Nat, k \in Nat
  <2> QED BY <2>3, <2>4
<1>9. Len(inBuf') = n + k
  BY <1>7, <1>8, BytesSeq
<1>10. BytesOK(p, n + k)'
  <2>1. Start(Len(delivered) + 1)' = p
    BY <1>0, <1>3 DEF Start
  <2> QED BY <1>0, <1>7, <1>8, <2>1 DEF BytesOK, Rx!Cap
<1>11. SentOK' /\ DeliveredIntact' /\ ClosedForCause'
  BY <1>0 DEF LinkInv, SentOK, DeliveredIntact, Rx!DeliveredIntact, ClosedForCause,
     Start, End, Rx!Payload
<1>12. FrameLenOK' /\ NoneComplete' /\ why' \in {"open", "refused"}
  <2>1. Len(inBuf) >= Pre => Len(inBuf') >= Pre
    BY <1>3, <1>9
  <2> QED BY <1>0, <2>1 DEF LinkInv, FramesOK, FrameLenOK, NoneComplete
<1>13. FramesInv'
  BY <1>0, <1>8, <1>10, <1>11, <1>12 DEF FramesInv, FramesOK
<1> QED BY <1>0, <1>2, <1>3, <1>6, <1>9, <1>13

\* A client is lost for a cause.
LEMMA CloseStep ==
  ASSUME LinkInv, NEW reason, Rx!Close(reason), UNCHANGED <<peer, sent, total, left, delivered>>,
         reason \in {"oversize", "full", "memory"},
         reason \in {"oversize", "full"} => Len(delivered) + 1 \in 1..Len(sent),
         reason = "oversize" => sent[Len(delivered) + 1].len > MaxJson,
         reason = "full" /\ peer # "packs" => sent[Len(delivered) + 1].len = 0
  PROVE  FramesInv' /\ phase' = "closed" /\ expectedLen' = 0
<1>0. phase' = "closed" /\ why' = reason /\ expectedLen' = 0
  BY DEF Rx!Close
<1>1. SentOK' /\ DeliveredIntact'
  BY DEF LinkInv, SentOK, DeliveredIntact, Rx!DeliveredIntact, Start, End, Rx!Payload
<1>2. ClosedForCause'
  <2>1. Len(delivered) \in Nat /\ Len(sent) \in Nat
    BY DEF LinkInv, LinkTypes
  <2>2. Len(delivered) + 1 \in 1..Len(sent) => Len(delivered) < Len(sent)
    BY <2>1
  <2> QED BY <1>0, <2>2 DEF ClosedForCause
<1> QED BY <1>0, <1>1, <1>2 DEF FramesInv, FramesOK

\* A record of a peer that does not pack fits behind what in_buf holds, unless
\* an empty message is at its head.
LEMMA ReadPlainFullStep ==
  ASSUME LinkInv, ReadPlainFull
  PROVE  FramesInv' /\ phase' = "closed" /\ expectedLen' = 0
<1> USE LinkConstants, EngineConstants
<1>0. /\ phase = "read" /\ typeIn = "app" /\ RecvPldLen > 0
      /\ Len(inBuf) + RecvPldLen > Rx!Cap /\ Rx!Close("full")
      /\ UNCHANGED <<peer, sent, total, left, delivered>>
  BY DEF ReadPlainFull, Handling, peerVars
<1>1. PICK q, k \in Nat : /\ k >= 1 /\ RecvPldLen = k /\ q + k <= total
                          /\ q = Start(Len(delivered) + 1) + Len(inBuf)
                          /\ Span(q, q + k)
  BY <1>0, PayloadIsNext
<1>2. PICK p, n, d \in Nat :
        /\ d = Len(delivered) /\ d <= Len(sent) /\ p = Start(d + 1) /\ Len(inBuf) = n
  BY <1>0, OpenFacts
<1>3. /\ q = p + n /\ total \in Nat /\ left \in Nat /\ Len(sent) \in Nat
      /\ n + k > Pre + MaxJson /\ LinkTypes /\ SentOK
  BY <1>0, <1>1, <1>2 DEF LinkInv, LinkTypes, Rx!Cap
<1>4. d # Len(sent)
  <2> SUFFICES ASSUME d = Len(sent) PROVE FALSE
    OBVIOUS
  <2>1. ~(d + 1 <= Len(sent))
    BY <1>3
  <2>2. p = total + left
    BY <1>2, <2>1 DEF Start
  <2> QED BY <1>1, <1>3, <2>2
<1>5. PICK j \in 1..Len(sent) : j = d + 1 /\ p = sent[j].start
  BY <1>2, <1>3, <1>4 DEF Start
<1>6. sent[j].len \in Nat /\ End(j) \in Nat /\ End(j) = p + Pre + sent[j].len
  BY <1>3, <1>5, SentFacts
<1>7. ASSUME peer # "packs", q < End(j)
      PROVE  /\ q + k <= End(j)
             /\ peer = "openssl" => q + k <= p + Pre \/ p + Pre <= q
  <2>1. PICK m \in 1..Len(sent) :
          /\ sent[m].start <= q /\ q + k <= End(m)
          /\ peer = "openssl" => q + k <= sent[m].start + Pre \/ sent[m].start + Pre <= q
    BY <1>1, <1>7 DEF Span
  <2>2. sent[m].start \in Nat /\ End(m) \in Nat
    BY <1>3, SentFacts
  <2>3. m < j => End(m) <= p
    BY <1>3, <1>5 DEF SentOK
  <2>4. j < m => End(j) <= sent[m].start
    BY <1>3 DEF SentOK
  <2>5. m = j
    BY SMTT(30), <1>1, <1>3, <1>6, <1>7, <2>1, <2>2, <2>3, <2>4
  <2> QED BY <1>5, <2>1, <2>5
<1>8. ASSUME peer # "packs" PROVE sent[j].len = 0
  <2>1. CASE n >= Pre
    <3>1. \/ sent[j].len = 0
          \/ sent[j].len <= MaxJson /\ n < Pre + sent[j].len
      BY <1>0, <1>2, <1>5, <2>1 DEF LinkInv, FramesOK, NoneComplete
    <3>2. sent[j].len <= MaxJson /\ n < Pre + sent[j].len => FALSE
      <4> SUFFICES ASSUME sent[j].len <= MaxJson, n < Pre + sent[j].len PROVE FALSE
        OBVIOUS
      <4>1. q < End(j)
        BY SMTT(30), <1>3, <1>6
      <4>2. q + k <= End(j)
        BY <1>7, <1>8, <4>1
      <4> QED BY <1>3, <1>6, <4>2
    <3> QED BY <3>1, <3>2
  <2>2. CASE ~(n >= Pre)
    <3>1. q < End(j)
      BY <1>3, <1>6, <2>2
    <3>2. peer = "bear" \/ peer = "openssl"
      BY <1>3, <1>8 DEF LinkTypes, Peers
    <3>3. CASE peer = "bear"
      <4>1. q + k <= q + MaxFrag
        BY <1>1, <3>3 DEF Span
      <4> QED BY <1>3, <2>2, <4>1
    <3>4. CASE peer = "openssl"
      <4>1. q + k <= p + Pre \/ p + Pre <= q
        BY <1>7, <1>8, <3>1, <3>4
      <4> QED BY <1>3, <2>2, <4>1
    <3> QED BY <3>2, <3>3, <3>4
  <2> QED BY <2>1, <2>2
<1> QED BY <1>0, <1>2, <1>5, <1>8, CloseStep

\* The turns of the inner loop that deliver nothing.
LEMMA ParseStep ==
  ASSUME LinkInv, Parse
  PROVE  /\ FramesInv' /\ expectedLen' \in Nat /\ phase' \in {"read", "closed"}
         /\ UNCHANGED <<peer, sent, total, left, delivered, ipl>>
         /\ phase' # "closed" => inBuf' = inBuf
<1> USE LinkConstants
<1>0. phase = "parse" /\ UNCHANGED <<peer, sent, total, left, delivered, ipl>>
  BY DEF Parse, Handling, Rx!ParseNoHeader, Rx!ParseRefuses, Rx!ParseNoMemory,
     Rx!ParseIncomplete, Rx!sendVars
<1>1. CASE Rx!ParseRefuses
  <2>1. Rx!HeaderKnown /\ (\E e \in Rx!Expected : e > MaxJson) /\ Rx!Close("oversize")
    BY <1>1 DEF Rx!ParseRefuses
  <2>2. Len(delivered) + 1 \in 1..Len(sent) /\ sent[Len(delivered) + 1].len > MaxJson
    BY <1>0, <2>1, ExpectedIsNext
  <2> QED BY <1>0, <2>1, <2>2, CloseStep
<1>2. CASE Rx!ParseNoMemory
  <2>1. Rx!Close("memory")
    BY <1>2 DEF Rx!ParseNoMemory
  <2> QED BY <1>0, <2>1, CloseStep
<1>3. CASE Rx!ParseNoHeader \/ Rx!ParseIncomplete
  <2>0. phase' = "read" /\ UNCHANGED <<inBuf, why>>
    BY <1>3 DEF Rx!ParseNoHeader, Rx!ParseIncomplete
  <2>1. PICK p, n \in Nat : BytesOK(p, n)
    BY <1>0 DEF LinkInv, FramesOK
  <2>2. BytesOK(p, n)'
    BY <1>0, <2>0, <2>1 DEF BytesOK, Start, Rx!Cap
  <2>3. SentOK' /\ DeliveredIntact' /\ ClosedForCause'
    BY <1>0, <2>0 DEF LinkInv, SentOK, DeliveredIntact, Rx!DeliveredIntact,
       ClosedForCause, Start, End, Rx!Payload
  <2>4. expectedLen' \in Nat /\ FrameLenOK' /\ NoneComplete'
    <3>1. CASE Rx!ParseNoHeader
      <4>1. expectedLen' = expectedLen /\ expectedLen = 0 /\ ~(Len(inBuf) >= Pre)
        BY <3>1 DEF Rx!ParseNoHeader, Rx!HeaderKnown
      <4> QED BY <1>0, <2>0, <4>1 DEF FrameLenOK, NoneComplete
    <3>2. CASE Rx!ParseIncomplete
      <4>1. PICK e \in Rx!Expected : /\ e <= MaxJson
                                     /\ e = 0 \/ Len(inBuf) < Pre + e
                                     /\ expectedLen' = e
        BY <3>2 DEF Rx!ParseIncomplete
      <4>2. /\ Len(inBuf) >= Pre /\ Len(delivered) + 1 \in 1..Len(sent)
            /\ e = sent[Len(delivered) + 1].len
        BY <1>0, <3>2, <4>1, ExpectedIsNext DEF Rx!ParseIncomplete
      <4>3. e \in Nat /\ Len(delivered) \in Nat /\ Len(sent) \in Nat
        BY <4>2, SentFacts DEF LinkInv, LinkTypes
      <4>4. Len(delivered) < Len(sent) /\ e <= MaxJson
        BY <4>1, <4>2, <4>3
      <4>5. FrameLenOK'
        BY <1>0, <2>0, <4>1, <4>2, <4>4 DEF FrameLenOK
      <4>6. NoneComplete'
        BY <1>0, <2>0, <4>1, <4>2, <4>4 DEF NoneComplete
      <4> QED BY <4>1, <4>3, <4>5, <4>6
    <3> QED BY <1>3, <3>1, <3>2
  <2>5. why' \in {"open", "refused"}
    BY <1>0, <2>0 DEF LinkInv, FramesOK
  <2>6. FramesInv'
    BY <2>0, <2>2, <2>3, <2>4, <2>5 DEF FramesInv, FramesOK
  <2> QED BY <1>0, <2>0, <2>4, <2>6
<1> QED BY <1>1, <1>2, <1>3 DEF Parse

\* A complete message is cut out of in_buf and delivered.
LEMMA ParseDeliversStep ==
  ASSUME LinkInv, ParseDelivers
  PROVE  /\ FramesInv' /\ expectedLen' = 0 /\ delivered' \in Seq(Seq(Nat))
         /\ phase = "parse" /\ phase' = "parse"
         /\ UNCHANGED <<peer, sent, total, left, ipl>>
         /\ \E q \in Nat : /\ q = Start(Len(delivered) + 1) + Len(inBuf)
                           /\ q = (Start(Len(delivered) + 1) + Len(inBuf))'
<1> USE LinkConstants
<1>0. /\ phase = "parse" /\ Rx!HeaderKnown
      /\ UNCHANGED <<peer, sent, total, left, ipl, phase, why>> /\ expectedLen' = 0
  BY DEF ParseDelivers, Rx!ParseDelivers, Rx!sendVars
<1>1. PICK e \in Rx!Expected :
        /\ e <= MaxJson /\ e > 0 /\ Len(inBuf) >= Pre + e
        /\ delivered' = Append(delivered, SubSeq(inBuf, Pre + 1, Pre + e))
        /\ inBuf' = SubSeq(inBuf, Pre + e + 1, Len(inBuf))
  BY DEF ParseDelivers, Rx!ParseDelivers
<1>2. /\ Len(delivered) + 1 \in 1..Len(sent) /\ e = sent[Len(delivered) + 1].len
      /\ Len(inBuf) >= Pre
  BY <1>0, <1>1, ExpectedIsNext
<1>3. PICK p, n, d \in Nat :
        /\ d = Len(delivered) /\ p = Start(d + 1) /\ p + n <= total /\ n <= Rx!Cap
        /\ inBuf = Rx!Bytes(p, n) /\ Len(inBuf) = n
  BY <1>0, OpenFacts
<1>4. /\ e \in Nat /\ d + 1 \in 1..Len(sent) /\ p = sent[d + 1].start /\ e = sent[d + 1].len
      /\ End(d + 1) = p + Pre + e /\ Start(d + 2) = p + Pre + e
  <2>1. d + 1 \in 1..Len(sent) /\ e = sent[d + 1].len
    BY <1>2, <1>3
  <2>2. p = sent[d + 1].start
    BY <1>3, <2>1 DEF Start
  <2>3. e \in Nat
    BY <2>1, SentFacts DEF LinkInv
  <2>4. End(d + 1) = p + Pre + e
    BY <2>1, <2>2, <2>3 DEF End
  <2>5. Start((d + 1) + 1) = End(d + 1)
    BY <2>1 DEF LinkInv, SentOK
  <2>6. Start((d + 1) + 1) = Start(d + 2)
    OBVIOUS
  <2> QED BY <2>1, <2>2, <2>3, <2>4, <2>5, <2>6
<1>m. n >= Pre + e
  BY <1>1, <1>3
<1>5. SubSeq(inBuf, Pre + 1, Pre + e) = Rx!Bytes(p + Pre, e)
  <2>1. Pre + 1 \in 1..(n + 1) /\ Pre + e \in 0..n /\ Pre + 1 <= (Pre + e) + 1
    <3>1. e \in Nat
      BY <1>4
    <3>2. Pre \in Nat /\ Pre + e <= n
      BY <1>m
    <3> QED BY <3>1, <3>2
  <2>2. SubSeq(Rx!Bytes(p, n), Pre + 1, Pre + e)
          = Rx!Bytes(p + ((Pre + 1) - 1), (Pre + e) - ((Pre + 1) - 1))
    BY <2>1, BytesSub
  <2>3. (Pre + 1) - 1 = Pre /\ (Pre + e) - Pre = e
    BY <1>4
  <2> QED BY <1>3, <2>2, <2>3
<1>6. PICK f, r \in Nat : f = Pre + e /\ r = n - f /\ f <= n
  BY <1>4, <1>m
<1>7. inBuf' = Rx!Bytes(p + f, r)
  <2>1. f + 1 \in 1..(n + 1) /\ n \in 0..n /\ f + 1 <= n + 1
    BY <1>6
  <2>2. SubSeq(Rx!Bytes(p, n), f + 1, n) = Rx!Bytes(p + ((f + 1) - 1), n - ((f + 1) - 1))
    BY ONLY <2>1, BytesSub, p \in Nat, n \in Nat, f \in Nat, ZenonT(30)
  <2>3. (f + 1) - 1 = f
    OBVIOUS
  <2> QED BY <1>1, <1>3, <1>6, <2>2, <2>3
<1>8. /\ delivered' \in Seq(Seq(Nat)) /\ Len(delivered') = d + 1
      /\ delivered'[d + 1] = Rx!Payload(d + 1)
      /\ \A m \in 1..d : delivered'[m] = delivered[m]
  <2>1. p + Pre \in Nat
    OBVIOUS
  <2>2. Rx!Bytes(p + Pre, e) \in Seq(Nat) /\ Rx!Payload(d + 1) = Rx!Bytes(p + Pre, e)
    BY <1>4, <2>1, BytesSeq DEF Rx!Payload
  <2>3. delivered \in Seq(Seq(Nat)) /\ delivered' = Append(delivered, Rx!Bytes(p + Pre, e))
    BY <1>1, <1>5 DEF LinkInv, LinkTypes
  <2> QED BY <1>3, <2>2, <2>3
<1>s. Start(Len(delivered) + 1)' = p + f
  <2>1. Len(delivered') + 1 = d + 2
    BY <1>8
  <2>2. Start(d + 2)' = Start(d + 2)
    BY <1>0 DEF Start
  <2>3. Start(Len(delivered) + 1)' = Start(d + 2)'
    BY <2>1 DEF Start
  <2>4. p + Pre + e = p + f
    BY SMTT(30), <1>4, <1>6
  <2> QED BY <1>4, <2>2, <2>3, <2>4
<1>r. (p + f) + r = p + n /\ p + f \in Nat
  BY <1>6
<1>9. BytesOK(p + f, r)'
  <2>1. r <= Rx!Cap /\ (p + f) + r <= total'
    BY SMTT(30), <1>0, <1>3, <1>6, <1>r DEF Rx!Cap
  <2> QED BY <1>7, <1>s, <2>1 DEF BytesOK, Rx!Cap
<1>10. SentOK'
  BY <1>0 DEF LinkInv, SentOK, Start, End
<1>11. DeliveredIntact'
  <2>1. ASSUME NEW m \in 1..(d + 1) PROVE delivered'[m] = Rx!Payload(m)
    <3>1. CASE m = d + 1
      BY <1>8, <3>1
    <3>2. CASE m \in 1..d
      BY <1>3, <1>8, <3>2 DEF LinkInv, DeliveredIntact, Rx!DeliveredIntact
    <3> QED BY <3>1, <3>2
  <2>2. d + 1 <= Len(sent')
    BY <1>0, <1>4
  <2>3. \A m : Rx!Payload(m)' = Rx!Payload(m)
    BY <1>0 DEF Rx!Payload
  <2> QED BY <1>8, <2>1, <2>2, <2>3 DEF DeliveredIntact, Rx!DeliveredIntact
<1>12. FrameLenOK' /\ NoneComplete' /\ why' \in {"open", "refused"}
  BY <1>0 DEF LinkInv, FramesOK, FrameLenOK, NoneComplete
<1>c. ClosedForCause'
  <2>1. why' \in {"open", "refused"} /\ why' = why /\ peer' = peer
    BY <1>0, <1>12
  <2> QED BY <2>1 DEF LinkInv, ClosedForCause
<1>13. FramesInv'
  BY <1>0, <1>r, <1>9, <1>10, <1>11, <1>12, <1>c DEF FramesInv, FramesOK
<1>14. (Start(Len(delivered) + 1) + Len(inBuf))' = p + n
  <2>1. Len(inBuf') = r
    BY <1>7, <1>r, BytesSeq
  <2> QED BY <1>s, <1>r, <2>1
<1>15. Start(Len(delivered) + 1) + Len(inBuf) = p + n /\ p + n \in Nat
  BY <1>3
<1> QED BY <1>0, <1>8, <1>13, <1>14, <1>15

-----------------------------------------------------------------------------
(* The records on the wire *)

\* What a record on the wire has, seen from its place.
LEMMA RecordFacts ==
  ASSUME LinkTypes, NEW e \in Seq(Nat), NEW p \in Seq(Nat), NEW q \in Nat, WireOK(e, p, q),
         NEW i \in 1..Len(wire)
  PROVE  /\ wire[i] \in WireRecord /\ p[i] \in Nat /\ p[i + 1] \in Nat
         /\ e[i] \in Nat /\ e[i + 1] \in Nat
         /\ Len(wire[i].data) \in Nat /\ Len(wire[i].data) >= 1
         /\ RecLen(wire[i]) = Iv + Len(wire[i].data) + Tag
         /\ wire[i].type = "app" => /\ Span(p[i], p[i + 1])
                                    /\ Len(wire[i].data) = p[i + 1] - p[i]
                                    /\ wire[i].data = Rx!Bytes(p[i], p[i + 1] - p[i])
         /\ wire[i].type # "app" => p[i] = p[i + 1] /\ Len(wire[i].data) = AlertLen
<1>1. wire \in Seq(WireRecord) /\ Len(wire) \in Nat /\ wire[i] \in WireRecord
  BY DEF LinkTypes
<1>2. Len(p) = Len(wire) + 1 /\ Len(e) = Len(wire) + 1
  BY DEF WireOK
<1>3. p[i] \in Nat /\ p[i + 1] \in Nat /\ e[i] \in Nat /\ e[i + 1] \in Nat
  <2>1. i \in 1..(Len(wire) + 1) /\ i + 1 \in 1..(Len(wire) + 1)
    BY <1>1
  <2> QED BY SMTT(30), <1>2, <2>1
<1>4. Len(wire[i].data) \in Nat
  BY <1>1 DEF WireRecord
<1>5. RecordOK(wire[i], p[i], p[i + 1])
  BY DEF WireOK
<1>6. CASE wire[i].type = "app"
  <2>1. Span(p[i], p[i + 1]) /\ wire[i].data = Rx!Bytes(p[i], p[i + 1] - p[i])
    BY <1>5, <1>6 DEF RecordOK
  <2>2. p[i] < p[i + 1]
    BY <2>1 DEF Span
  <2>3. p[i + 1] - p[i] \in Nat /\ p[i + 1] - p[i] >= 1
    BY SMTT(30), <1>3, <2>2
  <2>4. Len(wire[i].data) = p[i + 1] - p[i]
    <3>1. PICK a, k \in Nat : a = p[i] /\ k = p[i + 1] - p[i]
      BY <1>3, <2>3
    <3>2. Len(Rx!Bytes(a, k)) = k
      BY ONLY a \in Nat, k \in Nat, BytesSeq
    <3> QED BY <2>1, <3>1, <3>2
  <2> QED BY <1>1, <1>3, <1>4, <1>6, <2>1, <2>3, <2>4 DEF RecLen
<1>7. CASE wire[i].type # "app"
  <2>1. p[i] = p[i + 1] /\ Len(wire[i].data) = AlertLen
    BY <1>5, <1>7 DEF RecordOK
  <2> QED BY SMTT(30), <1>1, <1>3, <1>4, <1>7, <2>1 DEF RecLen, AlertLen
<1> QED BY <1>6, <1>7

\* The engine of a peer that keeps to its fragment length is understood.
LEMMA RefusedForCause ==
  ASSUME LinkInv, EngineRecv, failed'
  PROVE  peer # "bear"
<1> USE EngineConstants, LinkConstants
<1> SUFFICES ASSUME peer = "bear" PROVE FALSE
  OBVIOUS
<1>0. PICK n \in Nat : /\ app = 1 /\ ~failed /\ phase = "recv" /\ 1 \in 1..Len(wire)
                       /\ EngineRecvRec(n, wire[1].type, RecLen(wire[1]), TRUE)
  BY RecvFacts
<1>1. PICK e, p \in Seq(Nat), q \in Nat : WireOK(e, p, q)
  BY <1>0 DEF LinkInv, StreamOK
<1>2. PICK l \in Nat : l = Len(wire[1].data) /\ RecLen(wire[1]) = Iv + l + Tag /\ l <= MaxFrag
  <2>1. /\ p[1] \in Nat /\ p[1 + 1] \in Nat /\ Len(wire[1].data) \in Nat
        /\ RecLen(wire[1]) = Iv + Len(wire[1].data) + Tag
        /\ wire[1].type = "app" => /\ Span(p[1], p[1 + 1])
                                   /\ Len(wire[1].data) = p[1 + 1] - p[1]
        /\ wire[1].type # "app" => Len(wire[1].data) = AlertLen
    BY <1>0, <1>1, RecordFacts DEF LinkInv
  <2>2. CASE wire[1].type = "app"
    <3>1. PICK a, b \in Nat : a = p[1] /\ b = p[1 + 1]
      BY <2>1
    <3>2. b <= a + MaxFrag /\ Len(wire[1].data) = b - a
      BY <2>1, <2>2, <3>1 DEF Span
    <3>3. Len(wire[1].data) <= MaxFrag
      BY <2>1, <3>2
    <3> QED BY <2>1, <3>3
  <2>3. CASE wire[1].type # "app"
    BY <2>1, <2>3
  <2> QED BY <2>2, <2>3
<1>3. PICK rlen \in Nat : rlen = RecLen(wire[1]) /\ rlen = Iv + l + Tag
  BY <1>2
<1>4. LengthOK(incrypt, rlen)
  <2>1. incrypt = TRUE
    BY DEF LinkInv, HsOK
  <2> QED BY <1>2, <1>3, <2>1 DEF LengthOK
<1>5. RecvRecBad(in, incrypt, n, rlen, TRUE) \/ app = 0
  BY <1>0, <1>3 DEF EngineRecvRec
<1>6. ~RecvRecBad(in, incrypt, n, rlen, TRUE)
  BY <1>4 DEF RecvRecBad
<1>7. app # 0
  BY <1>0
<1> QED BY <1>5, <1>6, <1>7, Zenon

\* A step that leaves records and ibuf alone.
LEMMA StreamSame ==
  ASSUME LinkInv, UNCHANGED <<peer, sent, total, wire, in, typeIn, ipl>>,
         avail' \in Nat, flight' \in Nat, avail' + flight' = avail + flight,
         ~failed' => ~failed,
         phase' # "closed" =>
             /\ phase # "closed"
             /\ (Start(Len(delivered) + 1) + Len(inBuf))' = Start(Len(delivered) + 1) + Len(inBuf)
  PROVE  StreamOK'
<1> SUFFICES ASSUME ~failed', phase' # "closed"
             PROVE  \E e, p \in Seq(Nat), q \in Nat :
                      /\ q = (Start(Len(delivered) + 1) + Len(inBuf))'
                      /\ WireOK(e, p, q)' /\ IbufOK(q)'
  BY DEF StreamOK
<1>1. PICK e, p \in Seq(Nat), q \in Nat : /\ q = Start(Len(delivered) + 1) + Len(inBuf)
                                          /\ WireOK(e, p, q) /\ IbufOK(q)
  BY DEF LinkInv, StreamOK
<1>2. \A a, b : Span(a, b)' = Span(a, b)
  BY DEF Span, End
<1>3. IbufOK(q)'
  BY <1>1, <1>2 DEF IbufOK, RecLen
<1>4. WireOK(e, p, q)'
  <2>1. \A r, a, b : RecordOK(r, a, b)' = RecordOK(r, a, b)
    BY <1>2 DEF RecordOK, RecLen
  <2>2. Taken' = Taken /\ Held' = Held
    BY DEF Taken, Held
  <2>i. Taken \in Int
    BY DEF Taken, LinkInv, EngineInv, EngineTypeOK, Registers
  <2>3. PICK t \in Int : t = Taken
    BY <2>i
  <2>4. Taken' + avail' + flight' = Taken + avail + flight
    <3>1. /\ avail \in Nat /\ flight \in Nat /\ avail' \in Nat /\ flight' \in Nat
          /\ avail' + flight' = avail + flight
      BY DEF LinkInv, LinkTypes
    <3>2. t + avail' + flight' = t + avail + flight
      <4>1. PICK v, f, w, g \in Nat : v = avail /\ f = flight /\ w = avail' /\ g = flight'
        BY ONLY <3>1
      <4>2. w + g = v + f
        BY ONLY <3>1, <4>1
      <4>3. t + w + g = t + v + f
        BY ONLY <4>2, t \in Int, v \in Nat, f \in Nat, w \in Nat, g \in Nat
      <4> QED BY ONLY <4>1, <4>3
    <3> QED BY <2>2, <2>3, <3>2
  <2> QED BY <1>1, <2>1, <2>2, <2>4 DEF WireOK, RecLen
<1> QED BY <1>1, <1>3, <1>4

\* The open state has witnesses.
LEMMA StreamFacts ==
  ASSUME LinkInv, ~failed, phase # "closed"
  PROVE  \E e, p \in Seq(Nat), q, c \in Nat :
           /\ c = Len(wire) /\ q = Start(Len(delivered) + 1) + Len(inBuf)
           /\ WireOK(e, p, q) /\ IbufOK(q)
<1>1. Len(wire) \in Nat
  BY DEF LinkInv, LinkTypes
<1> QED BY <1>1 DEF LinkInv, StreamOK

\* A new message moves no record.
LEMMA MessageStream ==
  ASSUME LinkInv, NEW len \in Lens, PeerMessage(len)
  PROVE  StreamOK'
<1>0. /\ UNCHANGED <<peer, total, wire, in, typeIn, ipl, failed, phase, inBuf, delivered,
                     avail, flight>>
  BY DEF PeerMessage, engVars, netVars, frameVars
<1> SUFFICES ASSUME ~failed, phase # "closed"
             PROVE  \E e, p \in Seq(Nat), q \in Nat :
                      /\ q = (Start(Len(delivered) + 1) + Len(inBuf))'
                      /\ WireOK(e, p, q)' /\ IbufOK(q)'
  BY <1>0 DEF StreamOK
<1>1. PICK e, p \in Seq(Nat), q, l \in Nat :
        /\ l = Len(wire) /\ q = Start(Len(delivered) + 1) + Len(inBuf)
        /\ WireOK(e, p, q) /\ IbufOK(q)
  BY StreamFacts
<1>n. PICK c, d \in Nat : c = Len(sent) /\ d = Len(delivered) /\ d <= c
  BY DEF LinkInv, LinkTypes, DeliveredIntact, Rx!DeliveredIntact
<1>2. /\ Len(sent') = c + 1
      /\ \A m \in 1..c : sent'[m] = sent[m] /\ End(m)' = End(m)
      /\ \A m \in 1..(c + 1) : Start(m)' = Start(m)
  BY <1>n, MessageAppends
<1>3. ASSUME NEW a, NEW b, Span(a, b) PROVE Span(a, b)'
  <2>1. a < b /\ (peer' = "bear" => b <= a + MaxFrag)
    BY <1>0, <1>3 DEF Span
  <2>2. ASSUME peer' # "packs"
        PROVE  \E m \in 1..Len(sent') :
                 /\ sent'[m].start <= a /\ b <= End(m)'
                 /\ peer' = "openssl" => b <= sent'[m].start + Pre \/ sent'[m].start + Pre <= a
    <3>1. PICK m \in 1..c :
            /\ sent[m].start <= a /\ b <= End(m)
            /\ peer = "openssl" => b <= sent[m].start + Pre \/ sent[m].start + Pre <= a
      BY <1>0, <1>n, <1>3, <2>2 DEF Span
    <3>2. m \in 1..Len(sent') /\ sent'[m] = sent[m] /\ End(m)' = End(m)
      BY <1>2
    <3> QED BY <1>0, <3>1, <3>2
  <2> QED BY <2>1, <2>2 DEF Span
<1>4. (Start(Len(delivered) + 1) + Len(inBuf))' = q
  <2>0. PICK j \in 1..(c + 1) : j = d + 1
    BY <1>n
  <2>1. Start(d + 1)' = Start(d + 1)
    BY <1>2, <2>0
  <2> QED BY <1>0, <1>1, <1>n, <2>1
<1>5. IbufOK(q)'
  BY <1>0, <1>1, <1>3 DEF IbufOK, RecLen
<1>6. ASSUME NEW r, NEW a, NEW b, RecordOK(r, a, b) PROVE RecordOK(r, a, b)'
  BY <1>3, <1>6 DEF RecordOK, RecLen
<1>7. WireOK(e, p, q)'
  BY <1>0, <1>1, <1>6 DEF WireOK, Taken, Held, RecLen
<1> QED BY <1>4, <1>5, <1>7

\* A record that is put on the wire continues both streams.
LEMMA WireGrows ==
  ASSUME LinkInv, NEW r \in WireRecord, NEW b \in Nat, wire' = Append(wire, r),
         flight' = flight + Hdr + RecLen(r), total' = b, total <= b,
         left' \in Nat, total' + left' = total + left, RecordOK(r, total, b),
         UNCHANGED <<avail, in, typeIn, ipl, peer, sent, inBuf, delivered, failed, phase>>
  PROVE  StreamOK'
<1> USE EngineConstants
<1> SUFFICES ASSUME ~failed, phase # "closed"
             PROVE  \E e, p \in Seq(Nat), q \in Nat :
                      /\ q = (Start(Len(delivered) + 1) + Len(inBuf))'
                      /\ WireOK(e, p, q)' /\ IbufOK(q)'
  BY DEF StreamOK
<1>1. PICK e, p \in Seq(Nat), q, l \in Nat :
        /\ l = Len(wire) /\ q = Start(Len(delivered) + 1) + Len(inBuf)
        /\ WireOK(e, p, q) /\ IbufOK(q)
  BY StreamFacts
<1>2. /\ wire' \in Seq(WireRecord) /\ Len(wire') = l + 1 /\ wire'[l + 1] = r
      /\ wire' # <<>> /\ \A i \in 1..l : wire'[i] = wire[i]
  <2>1. wire \in Seq(WireRecord)
    BY DEF LinkInv, LinkTypes
  <2>2. /\ Append(wire, r) \in Seq(WireRecord) /\ Append(wire, r) # <<>>
        /\ Len(Append(wire, r)) = Len(wire) + 1 /\ Append(wire, r)[Len(wire) + 1] = r
        /\ \A i \in 1..Len(wire) : Append(wire, r)[i] = wire[i]
    BY ONLY SMTT(30), <2>1, r \in WireRecord, AppendProperties
  <2> QED BY <1>1, <2>2, ZenonT(30)
<1>3. PICK s \in Nat : s = Hdr + RecLen(r)
  <2>1. Len(r.data) \in Nat
    BY DEF WireRecord
  <2>2. Hdr + RecLen(r) \in Nat
    BY <2>1 DEF RecLen
  <2> QED BY <2>2
<1>4. Len(e) = l + 1 /\ Len(p) = l + 1
  BY <1>1 DEF WireOK
<1>5. PICK x \in Nat : x = e[l + 1]
  <2>1. l + 1 \in 1..Len(e)
    BY <1>4
  <2> QED BY <2>1
<1>6. PICK f \in Seq(Nat) : /\ Len(f) = l + 2 /\ f[l + 2] = x + s
                            /\ \A i \in 1..(l + 1) : f[i] = e[i]
  <2>1. x + s \in Nat
    OBVIOUS
  <2>2. /\ Append(e, x + s) \in Seq(Nat) /\ Len(Append(e, x + s)) = Len(e) + 1
        /\ \A i \in 1..Len(e) : Append(e, x + s)[i] = e[i]
        /\ Append(e, x + s)[Len(e) + 1] = x + s
    BY ONLY <2>1, e \in Seq(Nat), AppendProperties
  <2>3. Len(e) + 1 = l + 2
    BY <1>4
  <2> QED BY <1>4, <2>2, <2>3
<1>7. PICK g \in Seq(Nat) : /\ Len(g) = l + 2 /\ g[l + 2] = b
                            /\ \A i \in 1..(l + 1) : g[i] = p[i]
  <2>2. /\ Append(p, b) \in Seq(Nat) /\ Len(Append(p, b)) = Len(p) + 1
        /\ \A i \in 1..Len(p) : Append(p, b)[i] = p[i]
        /\ Append(p, b)[Len(p) + 1] = b
    BY ONLY b \in Nat, p \in Seq(Nat), AppendProperties
  <2>3. Len(p) + 1 = l + 2
    BY <1>4
  <2> QED BY <1>4, <2>2, <2>3
<1>8. \A y, a, c : RecordOK(y, a, c)' = RecordOK(y, a, c)
  BY DEF RecordOK, RecLen, Span, End
<1>9. \A i \in 1..(l + 1) : /\ f[i + 1] = f[i] + (Hdr + RecLen(wire'[i]))
                            /\ RecordOK(wire'[i], g[i], g[i + 1])
  <2> SUFFICES ASSUME NEW i \in 1..(l + 1)
               PROVE  /\ f[i + 1] = f[i] + (Hdr + RecLen(wire'[i]))
                      /\ RecordOK(wire'[i], g[i], g[i + 1])
    OBVIOUS
  <2>1. CASE i \in 1..l
    <3>1. e[i + 1] = e[i] + (Hdr + RecLen(wire[i])) /\ RecordOK(wire[i], p[i], p[i + 1])
      BY <1>1, <2>1 DEF WireOK
    <3>2. i + 1 \in 1..(l + 1) /\ i \in 1..(l + 1)
      BY <2>1
    <3>3. f[i + 1] = e[i + 1] /\ f[i] = e[i] /\ g[i + 1] = p[i + 1] /\ g[i] = p[i]
      BY <1>6, <1>7, <3>2
    <3> QED BY <1>2, <2>1, <3>1, <3>3
  <2>2. CASE i = l + 1
    <3>1. i + 1 = l + 2 /\ l + 1 \in 1..(l + 1)
      BY <2>2
    <3>2. p[l + 1] = total
      BY <1>1 DEF WireOK
    <3>3. f[i + 1] = x + s /\ f[i] = x /\ g[i + 1] = b /\ g[i] = total /\ wire'[i] = r
      BY <1>2, <1>5, <1>6, <1>7, <2>2, <3>1, <3>2
    <3> QED BY <1>3, <3>3
  <2>3. i \in 1..l \/ i = l + 1
    OBVIOUS
  <2> QED BY <2>1, <2>2, <2>3, Zenon
<1>10. (Start(Len(delivered) + 1) + Len(inBuf))' = q
  BY <1>1 DEF Start
<1>11. IbufOK(q)'
  <2>1. wire # <<>> => wire' # <<>> /\ wire'[1] = wire[1]
    <3>1. wire # <<>> => 1 \in 1..l
      BY <1>1, EmptySeq DEF LinkInv, LinkTypes
    <3> QED BY <1>2, <3>1
  <2>2. Span(q, q + Len(ipl))' = Span(q, q + Len(ipl))
    BY DEF Span, End
  <2> QED BY <1>1, <2>1, <2>2 DEF IbufOK, RecLen
<1>12. f[1] + (Taken' + avail' + flight') = f[l + 2]
  <2>1. Taken \in Int
    BY DEF Taken, LinkInv, EngineInv, EngineTypeOK, Registers
  <2>2. avail \in Nat /\ flight \in Nat /\ RecLen(r) \in Int
    BY <1>3 DEF LinkInv, LinkTypes, RecLen, WireRecord
  <2>3. e[1] + (Taken + avail + flight) = x /\ e[1] \in Nat /\ f[1] = e[1]
    <3>1. 1 \in 1..(l + 1) /\ 1 \in 1..Len(e)
      BY <1>4
    <3>2. e[1] + (Taken + avail + flight) = e[l + 1]
      BY <1>1 DEF WireOK
    <3>3. e[1] \in Nat /\ f[1] = e[1]
      BY SMTT(30), <1>6, <3>1
    <3> QED BY <1>5, <3>2, <3>3
  <2>4. Taken' = Taken /\ avail' = avail /\ flight' = flight + s
    <3>1. flight' = flight + Hdr + RecLen(r) /\ avail' = avail /\ Taken' = Taken
      BY DEF Taken
    <3> QED BY ONLY <1>3, <2>2, <3>1, EngineConstants
  <2>5. PICK t \in Int, v \in Nat, w \in Nat, y \in Nat :
          t = Taken /\ v = avail /\ w = flight /\ y = e[1]
    BY <2>1, <2>2, <2>3
  <2>6. y + (t + v + w) = x
    BY ONLY <2>3, <2>5
  <2>7. y + (t + v + (w + s)) = x + s
    BY ONLY <2>6, t \in Int, v \in Nat, w \in Nat, y \in Nat, s \in Nat, x \in Nat
  <2> QED BY ONLY <1>6, <2>3, <2>4, <2>5, <2>7
<1>13. \A i \in 1..(l + 2) : g[i] <= b
  <2> SUFFICES ASSUME NEW i \in 1..(l + 2) PROVE g[i] <= b
    OBVIOUS
  <2>1. CASE i \in 1..(l + 1)
    <3>1. p[i] <= total
      BY <1>1, <2>1 DEF WireOK
    <3>0. i \in 1..Len(p)
      BY <1>4, <2>1
    <3>2. p[i] \in Nat
      BY ONLY <3>0, p \in Seq(Nat)
    <3>3. g[i] = p[i]
      BY <1>7, <2>1
    <3>4. total \in Nat /\ total <= b
      BY DEF LinkInv, LinkTypes
    <3> QED BY SMTT(30), <3>1, <3>2, <3>3, <3>4
  <2>2. CASE i = l + 2
    BY <1>7, <2>2
  <2> QED BY <2>1, <2>2
<1>14. g[1] = q + Held'
  <2>1. p[1] = q + Held /\ Held' = Held /\ 1 \in 1..(l + 1)
    BY <1>1 DEF WireOK, Held
  <2> QED BY <1>7, <2>1
<1>15. WireOK(f, g, q)'
  <2>1. Len(wire') + 1 = l + 2
    BY <1>2
  <2>2. (\A i \in 1..Len(wire) : /\ f[i + 1] = f[i] + (Hdr + RecLen(wire[i]))
                                 /\ RecordOK(wire[i], g[i], g[i + 1]))'
    <3> SUFFICES ASSUME NEW i \in 1..(l + 1)
                 PROVE  (/\ f[i + 1] = f[i] + (Hdr + RecLen(wire[i]))
                         /\ RecordOK(wire[i], g[i], g[i + 1]))'
      BY <1>2
    <3>1. PICK y : y = wire'[i]
      OBVIOUS
    <3>2. f[i + 1] = f[i] + (Hdr + RecLen(y)) /\ RecordOK(y, g[i], g[i + 1])
      BY <1>9, <3>1
    <3>3. RecordOK(y, g[i], g[i + 1])'
      BY <1>8, <3>2
    <3>4. RecordOK(wire[i], g[i], g[i + 1])' = RecordOK(y, g[i], g[i + 1])'
      BY <3>1 DEF RecordOK, RecLen, Span, End
    <3> QED BY <3>1, <3>2, <3>3, <3>4 DEF RecLen
  <2>3. Len(f) = Len(wire') + 1 /\ Len(g) = Len(wire') + 1
    BY <1>6, <1>7, <2>1
  <2>4. /\ f[1] + (Taken' + avail' + flight') = f[Len(wire') + 1]
        /\ g[Len(wire') + 1] = total' /\ \A i \in 1..(Len(wire') + 1) : g[i] <= total'
    BY <1>7, <1>12, <1>13, <2>1
  <2> QED BY <1>14, <2>2, <2>3, <2>4 DEF WireOK
<1> QED BY <1>10, <1>11, <1>15

\* A record of the peer holds what its kind of peer puts in one.
LEMMA RecordStream ==
  ASSUME LinkInv, NEW k \in 1..PeerMax, PeerRecord(k)
  PROVE  StreamOK' /\ wire' \in Seq(WireRecord) /\ flight' \in Nat
<1> USE LinkConstants, EngineConstants
<1>0. /\ k \in 1..left /\ total' = total + k /\ left' = left - k
      /\ peer = "bear" => k <= MaxFrag
      /\ peer = "openssl" /\ left > sent[Len(sent)].len => k <= left - sent[Len(sent)].len
      /\ wire' = Append(wire, [type |-> "app", data |-> Rx!Bytes(total, k)])
      /\ flight' = flight + Hdr + RecLen([type |-> "app", data |-> Rx!Bytes(total, k)])
      /\ UNCHANGED <<avail, in, typeIn, ipl, peer, sent, inBuf, delivered, failed, phase>>
  BY DEF PeerRecord, Put, engVars, frameVars
<1>1. total \in Nat /\ left \in Nat /\ k \in Nat /\ flight \in Nat /\ wire \in Seq(WireRecord)
  BY DEF LinkInv, LinkTypes
<1>2. PICK r \in WireRecord : r = [type |-> "app", data |-> Rx!Bytes(total, k)]
  <2>1. Rx!Bytes(total, k) \in Seq(Nat)
    BY <1>1, BytesSeq
  <2> QED BY <2>1 DEF WireRecord
<1>3. RecLen(r) = Iv + k + Tag /\ r.type = "app" /\ r.data = Rx!Bytes(total, k)
  <2>1. r.data = Rx!Bytes(total, k) /\ r.type = "app"
    BY <1>2
  <2>2. Len(Rx!Bytes(total, k)) = k
    BY <1>1, BytesSeq
  <2> QED BY <2>1, <2>2 DEF RecLen
<1>4. PICK b \in Nat : b = total + k
  BY <1>1
<1>5. Span(total, b)
  <2>1. total < b /\ (peer = "bear" => b <= total + MaxFrag)
    BY <1>0, <1>1, <1>4
  <2>2. ASSUME peer # "packs"
        PROVE  \E m \in 1..Len(sent) :
                 /\ sent[m].start <= total /\ b <= End(m)
                 /\ peer = "openssl" => b <= sent[m].start + Pre \/ sent[m].start + Pre <= total
    <3>1. PICK c \in Nat : c = Len(sent)
      BY DEF LinkInv, LinkTypes
    <3>2. c # 0
      <4> SUFFICES ASSUME c = 0 PROVE FALSE
        OBVIOUS
      <4>1. Start(1) = 0 /\ ~(1 <= Len(sent))
        BY <3>1 DEF LinkInv, SentOK
      <4>2. total + left = 0
        BY <4>1 DEF Start
      <4> QED BY <1>0, <1>1, <4>2
    <3>3. c \in 1..Len(sent) /\ ~(c + 1 <= Len(sent))
      BY <3>1, <3>2
    <3>4. Start(c + 1) = End(c) /\ sent[c].start <= total
      BY <2>2, <3>3 DEF LinkInv, SentOK
    <3>5. Start(c + 1) = total + left
      BY <3>3 DEF Start
    <3>6. PICK s, y \in Nat : s = sent[c].start /\ y = sent[c].len /\ End(c) = s + Pre + y
      BY <3>3, SentFacts DEF LinkInv
    <3>7. s + Pre + y = total + left /\ s <= total
      BY <3>4, <3>5, <3>6
    <3>8. peer = "openssl" /\ left > y => k <= left - y
      BY <1>0, <3>1, <3>6
    <3>9. b <= End(c)
      BY <1>0, <1>1, <1>4, <3>6, <3>7
    <3>10. peer = "openssl" => b <= s + Pre \/ s + Pre <= total
      BY ONLY <1>1, <1>4, <3>7, <3>8, s \in Nat, y \in Nat, b \in Nat, LinkConstants
    <3> QED BY <3>3, <3>6, <3>7, <3>9, <3>10
  <2> QED BY <2>1, <2>2 DEF Span
<1>6. RecordOK(r, total, b)
  <2>1. RecLen(r) <= MaxRec
    BY <1>3
  <2>2. b - total = k
    BY <1>1, <1>4
  <2> QED BY <1>3, <1>5, <2>1, <2>2 DEF RecordOK
<1>7. total' = b /\ total <= b /\ left' \in Nat /\ total' + left' = total + left
  BY <1>0, <1>1, <1>4
<1>8. StreamOK'
  BY <1>0, <1>2, <1>6, <1>7, WireGrows
<1>9. flight' \in Nat
  BY <1>0, <1>1, <1>2, <1>3
<1>10. wire' \in Seq(WireRecord)
  BY <1>0, <1>1, <1>2, AppendProperties
<1> QED BY <1>8, <1>9, <1>10

LEMMA AlertStream ==
  ASSUME LinkInv, NEW kind \in {0, 1}, PeerAlert(kind)
  PROVE  StreamOK' /\ wire' \in Seq(WireRecord) /\ flight' \in Nat
<1> USE LinkConstants, EngineConstants
<1> DEFINE bytes == [k \in 1..AlertLen |-> kind]
<1>0. /\ wire' = Append(wire, [type |-> "alert", data |-> bytes])
      /\ flight' = flight + Hdr + RecLen([type |-> "alert", data |-> bytes])
      /\ UNCHANGED <<avail, in, typeIn, ipl, peer, sent, total, left, inBuf, delivered,
                     failed, phase>>
  BY DEF PeerAlert, Put, engVars, frameVars
<1>1. total \in Nat /\ left \in Nat /\ flight \in Nat /\ wire \in Seq(WireRecord)
  BY DEF LinkInv, LinkTypes
<1>b. bytes \in Seq(Nat) /\ Len(bytes) = AlertLen
  BY DEF AlertLen
<1> HIDE DEF bytes
<1>2. PICK r \in WireRecord : r = [type |-> "alert", data |-> bytes]
  BY <1>b DEF WireRecord
<1>3. r.type = "alert" /\ Len(r.data) = AlertLen /\ RecLen(r) = Iv + AlertLen + Tag
  BY <1>b, <1>2 DEF RecLen
<1>4. RecordOK(r, total, total)
  BY <1>3 DEF RecordOK
<1>5. total' = total /\ total <= total /\ left' \in Nat /\ total' + left' = total + left
  BY <1>0, <1>1
<1>6. StreamOK'
  BY <1>0, <1>1, <1>2, <1>4, <1>5, WireGrows
<1>7. flight' \in Nat
  BY <1>0, <1>1, <1>2, <1>3 DEF AlertLen
<1>8. wire' \in Seq(WireRecord)
  BY <1>0, <1>1, <1>2, AppendProperties
<1> QED BY <1>6, <1>7, <1>8

\* The payload of a record is taken as a whole: by read_plain, which puts it in
\* in_buf, or by the handshake processor.
LEMMA PayloadTaken ==
  ASSUME LinkInv, RecvPldLen > 0, in' = RecvPldAck(in, RecvPldLen), ipl' = <<>>,
         UNCHANGED <<peer, sent, total, left, wire, avail, flight, typeIn, failed, delivered>>,
         phase # "closed",
         typeIn = "app" => Len(inBuf') = Len(inBuf) + Len(ipl),
         typeIn # "app" => inBuf' = inBuf
  PROVE  StreamOK'
<1> USE EngineConstants
<1>0. in.a \in Int /\ in.b \in Int /\ in.c \in Int /\ ipl \in Seq(Nat)
  BY DEF LinkInv, LinkTypes, EngineInv, EngineTypeOK, Registers
<1>1. ~failed /\ in.a < in.b /\ RecvPldLen = in.b - in.a
  BY <1>0 DEF RecvPldLen
<1>2. PICK e, p \in Seq(Nat), q, l \in Nat :
        /\ l = Len(wire) /\ q = Start(Len(delivered) + 1) + Len(inBuf)
        /\ WireOK(e, p, q) /\ IbufOK(q)
  BY <1>1, StreamFacts
<1>3. in.c = 0 /\ in.b - in.a = Len(ipl)
  BY <1>0, <1>1, <1>2 DEF IbufOK
<1>4. in' = MakeReadyIn /\ in'.a = 0 /\ in'.b = 0
  <2>1. in.a + RecvPldLen = in.b
    BY <1>0, <1>1
  <2>2. in' = MakeReadyIn
    BY <1>3, <2>1 DEF RecvPldAck
  <2> QED BY <2>2 DEF MakeReadyIn
<1>5. Taken = 0 /\ Taken' = 0
  BY <1>0, <1>1, <1>4 DEF Taken
<1>6. PICK q1 \in Nat : q1 = q + Held
  <2>1. Held \in Nat
    BY <1>0 DEF Held
  <2> QED BY <2>1
<1>7. Held' = 0
  BY DEF Held
<1>8. (Start(Len(delivered) + 1) + Len(inBuf))' = q1
  <2>1. Start(Len(delivered) + 1)' = Start(Len(delivered) + 1)
    BY DEF Start
  <2>2. PICK s, n \in Nat : s = Start(Len(delivered) + 1) /\ n = Len(inBuf)
    BY <1>1, OpenFacts
  <2>3. Len(inBuf') = n + Held
    <3>1. CASE typeIn = "app"
      BY <2>2, <3>1 DEF Held
    <3>2. CASE typeIn # "app"
      BY <2>2, <3>2 DEF Held
    <3> QED BY <3>1, <3>2
  <2>4. PICK h \in Nat : h = Held
    BY <1>0 DEF Held
  <2> QED BY <1>2, <1>6, <2>1, <2>2, <2>3, <2>4
<1>9. IbufOK(q1)'
  BY <1>4 DEF IbufOK
<1>10. WireOK(e, p, q1)'
  <2>1. \A r, a, b : RecordOK(r, a, b)' = RecordOK(r, a, b)
    BY DEF RecordOK, RecLen, Span, End
  <2>2. p[1] = q1 + 0
    BY <1>2, <1>6 DEF WireOK
  <2>3. p[1] = q1 + Held'
    BY <1>7, <2>2
  <2>4. Taken' + avail' + flight' = Taken + avail + flight
    BY <1>5
  <2> QED BY <1>2, <2>1, <2>3, <2>4 DEF WireOK, RecLen
<1> QED BY <1>8, <1>9, <1>10 DEF StreamOK

\* What recvrec_ack does with the bytes of the first record on the wire, when
\* the engine does not fail.
LEMMA RecvCases ==
  ASSUME LinkInv, EngineRecv, ~failed'
  PROVE  \E n, l \in Nat :
           /\ n >= 1 /\ n <= avail /\ avail' = avail - n /\ l = RecLen(wire[1])
           /\ in.a = in.b /\ ~failed /\ phase = "recv" /\ 1 \in 1..Len(wire)
           /\ UNCHANGED <<flight, peer, sent, total, left, delivered, inBuf, phase>>
           /\ \/ /\ in.a + n < Hdr /\ in'.a = in.a + n /\ in'.b = in.a + n
                 /\ UNCHANGED <<wire, ipl, typeIn>>
              \/ /\ in.a + n = Hdr /\ in'.a = Hdr /\ in'.b = Hdr /\ in'.c = l
                 /\ typeIn' = wire[1].type /\ UNCHANGED <<wire, ipl>>
              \/ /\ in.a >= Hdr /\ n < in.c /\ in'.a = in.a + n /\ in'.b = in.a + n
                 /\ in'.c = in.c - n /\ UNCHANGED <<wire, ipl, typeIn>>
              \/ /\ in.a >= Hdr /\ n = in.c /\ in' = Decrypt([a |-> in.a + n, b |-> in.a + n, c |-> 0])
                 /\ wire' = Tail(wire) /\ ipl' = wire[1].data /\ UNCHANGED typeIn
<1> USE EngineConstants
<1>1. PICK n \in Nat :
        /\ n = Least(RecvRecLen, avail) /\ n >= 1 /\ n <= in.c /\ n <= avail
        /\ ~failed /\ app = 1 /\ phase = "recv" /\ in.a = in.b /\ 1 \in 1..Len(wire)
        /\ Head(wire) = wire[1] /\ RecLen(wire[1]) \in Nat
        /\ EngineRecvRec(n, wire[1].type, RecLen(wire[1]), TRUE)
  BY RecvFacts
<1>2. PICK l \in Nat : l = RecLen(wire[1])
  BY <1>1
<1>0. /\ in.a \in Int /\ in.b \in Int /\ in.c \in Int /\ incrypt = TRUE
  BY DEF LinkInv, HsOK, EngineInv, EngineTypeOK, Registers
<1>3. l >= 1
  <2>1. PICK e, p \in Seq(Nat), q \in Nat : WireOK(e, p, q)
    BY <1>1, StreamFacts
  <2>2. Len(wire[1].data) \in Nat /\ RecLen(wire[1]) = Iv + Len(wire[1].data) + Tag
    BY <1>1, <2>1, RecordFacts DEF LinkInv
  <2> QED BY <1>2, <2>2
<1>4. /\ avail' = avail - n
      /\ UNCHANGED <<flight, peer, sent, total, left, delivered, inBuf, phase>>
      /\ wire' = (IF in.a >= Hdr /\ n = in.c THEN Tail(wire) ELSE wire)
      /\ ipl' = (IF in.a >= Hdr /\ n = in.c THEN wire[1].data ELSE ipl)
  BY <1>1 DEF EngineRecv, peerVars
<1>5. /\ typeIn' = (IF in.a + n = Hdr THEN wire[1].type ELSE typeIn)
      /\ in' = RecvRecAck(in, incrypt, n, l)
  BY <1>1, <1>2 DEF EngineRecvRec
<1>6. in.a < Hdr => in.c = Hdr - in.a
  BY <1>0, <1>1 DEF LinkInv, EngineInv, RegistersSane, InputSane
<1> DEFINE m == [a |-> in.a + n, b |-> in.a + n, c |-> in.c - n]
<1>7. CASE in.a + n < Hdr
  <2>1. in' = m
    BY <1>5, <1>7 DEF RecvRecAck
  <2>2. in'.a = in.a + n /\ in'.b = in.a + n
    BY <2>1
  <2>3. ~(in.a >= Hdr) /\ in.a + n # Hdr
    BY <1>0, <1>7
  <2>4. UNCHANGED <<wire, ipl, typeIn>>
    BY <1>4, <1>5, <2>3
  <2> QED BY <1>1, <1>2, <1>4, <1>7, <2>2, <2>4
<1>8. CASE in.a + n = Hdr
  <2>1. in' = HeaderIn(l)
    BY <1>5, <1>8 DEF RecvRecAck
  <2>2. in'.a = Hdr /\ in'.b = Hdr /\ in'.c = l
    BY <1>3, <2>1 DEF HeaderIn
  <2>3. ~(in.a >= Hdr)
    BY <1>0, <1>1, <1>8
  <2>4. UNCHANGED <<wire, ipl>> /\ typeIn' = wire[1].type
    BY <1>4, <1>5, <1>8, <2>3
  <2> QED BY <1>1, <1>2, <1>4, <1>8, <2>2, <2>4
<1>9. CASE in.a + n > Hdr
  <2>1. in.a >= Hdr /\ in.a + n # Hdr /\ ~(in.a + n < Hdr)
    BY <1>0, <1>1, <1>6, <1>9
  <2>2. typeIn' = typeIn
    BY <1>5, <2>1
  <2>3. CASE n # in.c
    <3>1. n < in.c /\ in.c - n # 0
      BY <1>0, <1>1, <2>3
    <3>2. in' = m
      BY <1>0, <1>5, <2>1, <3>1 DEF RecvRecAck
    <3>3. in'.a = in.a + n /\ in'.b = in.a + n /\ in'.c = in.c - n
      BY <3>2
    <3>4. UNCHANGED <<wire, ipl>>
      BY <1>4, <2>3
    <3> QED BY <1>1, <1>2, <1>4, <2>1, <2>2, <3>1, <3>3, <3>4
  <2>4. CASE n = in.c
    <3>1. in.c - n = 0
      BY <1>0, <2>4
    <3>2. in' = Decrypt([a |-> in.a + n, b |-> in.a + n, c |-> 0])
      BY <1>0, <1>5, <2>1, <3>1 DEF RecvRecAck
    <3>3. wire' = Tail(wire) /\ ipl' = wire[1].data
      BY <1>4, <2>1, <2>4
    <3> QED BY <1>1, <1>2, <1>4, <2>1, <2>2, <2>4, <3>2, <3>3
  <2> QED BY <2>3, <2>4
<1>10. in.a + n < Hdr \/ in.a + n = Hdr \/ in.a + n > Hdr
  BY <1>0
<1> QED BY <1>7, <1>8, <1>9, <1>10, Zenon

\* Bytes of a record that is not complete with them.
LEMMA RecvPartly ==
  ASSUME LinkInv, NEW n \in Nat, n <= avail, avail' = avail - n,
         in.a = in.b, ~failed, phase # "closed", in'.a = in'.b, in'.a = in.a + n,
         UNCHANGED <<wire, ipl, flight, peer, sent, total, left, delivered, inBuf>>,
         ipl = <<>>,
         in'.a >= Hdr => /\ wire # <<>> /\ typeIn' = wire[1].type
                         /\ in'.a + in'.c = Hdr + RecLen(wire[1])
  PROVE  StreamOK'
<1>1. PICK e, p \in Seq(Nat), q, l \in Nat :
        /\ l = Len(wire) /\ q = Start(Len(delivered) + 1) + Len(inBuf)
        /\ WireOK(e, p, q) /\ IbufOK(q)
  BY StreamFacts
<1>2. (Start(Len(delivered) + 1) + Len(inBuf))' = q
  BY <1>1 DEF Start
<1>3. IbufOK(q)'
  BY DEF IbufOK, RecLen
<1>4. Held = 0 /\ Held' = 0
  BY DEF Held
<1>5. Taken' + avail' + flight' = Taken + avail + flight
  <2>1. PICK t \in Int, v, f \in Nat : t = in.a /\ v = avail /\ f = flight
    BY DEF LinkInv, LinkTypes, EngineInv, EngineTypeOK, Registers
  <2>2. Taken = t /\ Taken' = t + n /\ avail' = v - n /\ flight' = f
    BY <2>1 DEF Taken
  <2>3. (t + n) + (v - n) + f = t + v + f
    BY ONLY t \in Int, v \in Nat, f \in Nat, n \in Nat
  <2> QED BY ONLY <2>1, <2>2, <2>3
<1>6. \A r, a, b : RecordOK(r, a, b)' = RecordOK(r, a, b)
  BY DEF RecordOK, RecLen, Span, End
<1>7. WireOK(e, p, q)'
  BY <1>1, <1>4, <1>5, <1>6 DEF WireOK, RecLen
<1> QED BY <1>2, <1>3, <1>7 DEF StreamOK

\* The last byte of the first record: it leaves the wire, and its plaintext is
\* what in_buf has to get next or an alert.
LEMMA RecvWhole ==
  ASSUME LinkInv, NEW n \in Nat, n <= avail, avail' = avail - n, n = in.c,
         in.a = in.b, in.a >= Hdr, ~failed, phase # "closed", 1 \in 1..Len(wire),
         in' = Decrypt([a |-> in.a + n, b |-> in.a + n, c |-> 0]),
         wire' = Tail(wire), ipl' = wire[1].data,
         UNCHANGED <<flight, peer, sent, total, left, delivered, inBuf, typeIn>>
  PROVE  StreamOK'
<1> USE EngineConstants
<1>1. PICK e, p \in Seq(Nat), q, l \in Nat :
        /\ l = Len(wire) /\ q = Start(Len(delivered) + 1) + Len(inBuf)
        /\ WireOK(e, p, q) /\ IbufOK(q)
  BY StreamFacts
<1>0. in.a \in Int /\ in.c \in Int /\ wire \in Seq(WireRecord) /\ avail \in Nat /\ flight \in Nat
  BY DEF LinkInv, LinkTypes, EngineInv, EngineTypeOK, Registers
<1>2. /\ ipl = <<>> /\ typeIn = wire[1].type /\ in.a + n = Hdr + RecLen(wire[1])
  BY <1>0, <1>1 DEF IbufOK
<1>3. PICK a, b, x, y, k \in Nat :
        /\ a = p[1] /\ b = p[2] /\ x = e[1] /\ y = e[2] /\ k = Len(wire[1].data)
        /\ k >= 1 /\ RecLen(wire[1]) = Iv + k + Tag
        /\ wire[1].type = "app" => Span(a, b) /\ k = b - a /\ wire[1].data = Rx!Bytes(a, b - a)
        /\ wire[1].type # "app" => a = b
  <2>1. /\ p[1] \in Nat /\ p[1 + 1] \in Nat /\ e[1] \in Nat /\ e[1 + 1] \in Nat
        /\ Len(wire[1].data) \in Nat /\ Len(wire[1].data) >= 1
        /\ RecLen(wire[1]) = Iv + Len(wire[1].data) + Tag
        /\ wire[1].type = "app" => /\ Span(p[1], p[1 + 1])
                                   /\ Len(wire[1].data) = p[1 + 1] - p[1]
                                   /\ wire[1].data = Rx!Bytes(p[1], p[1 + 1] - p[1])
        /\ wire[1].type # "app" => p[1] = p[1 + 1]
    BY <1>1, RecordFacts DEF LinkInv
  <2>2. 1 + 1 = 2
    OBVIOUS
  <2> QED BY <2>1, <2>2
<1>4. in' = [a |-> Hdr + Iv, b |-> Hdr + Iv + k, c |-> 0]
  <2>1. PICK s \in Int : s = in.a + n /\ s = Hdr + (Iv + k + Tag)
    BY <1>0, <1>2, <1>3
  <2>2. s - Tag = Hdr + Iv + k /\ s - Tag # Hdr + Iv
    <3>1. k >= 1 /\ s = Hdr + (Iv + k + Tag)
      BY <1>3, <2>1
    <3> QED BY ONLY <3>1, k \in Nat, s \in Int, EngineConstants
  <2>3. PICK i : i = [a |-> in.a + n, b |-> in.a + n, c |-> 0] /\ i.a = s
    BY <2>1
  <2>4. Decrypt(i) = [a |-> Hdr + Iv, b |-> s - Tag, c |-> 0]
    BY <2>2, <2>3 DEF Decrypt
  <2> QED BY <2>2, <2>3, <2>4
<1>5. in'.a < in'.b /\ in'.c = 0 /\ in'.b - in'.a = k
  <2>1. in'.a = Hdr + Iv /\ in'.b = Hdr + Iv + k /\ in'.c = 0
    BY <1>4
  <2>2. k \in Nat /\ k >= 1
    BY <1>3
  <2> QED BY ONLY <2>1, <2>2, EngineConstants
<1>6. a = q
  <2>1. p[1] = q + Held /\ Held = 0
    BY <1>1, <1>2 DEF WireOK, Held
  <2> QED BY <1>3, <2>1
<1>7. b = q + Held'
  <2>1. CASE typeIn = "app"
    <3>1. Held' = k /\ k = b - a
      BY <1>2, <1>3, <2>1 DEF Held
    <3> QED BY <1>6, <3>1
  <2>2. CASE typeIn # "app"
    BY <1>2, <1>3, <1>6, <2>2 DEF Held
  <2> QED BY <2>1, <2>2
<1>8. \A u, v : Span(u, v)' = Span(u, v)
  BY DEF Span, End
<1>9. IbufOK(q)'
  <2>1. ASSUME typeIn' = "app" PROVE Span(q, q + k)' /\ ipl' = Rx!Bytes(q, k)
    <3>1. Span(a, b) /\ k = b - a /\ wire[1].data = Rx!Bytes(a, b - a)
      BY <1>2, <1>3, <2>1
    <3>2. q + k = b
      BY <1>6, <3>1
    <3> QED BY <1>6, <1>8, <3>1, <3>2
  <2>2. Len(ipl') = k
    BY <1>3
  <2> QED BY <1>5, <2>1, <2>2 DEF IbufOK
<1>10. PICK f, g \in Seq(Nat) :
         /\ Len(f) = l /\ Len(g) = l
         /\ \A i \in 1..l : f[i] = e[i + 1] /\ g[i] = p[i + 1]
  <2>1. Len(e) = l + 1 /\ Len(p) = l + 1
    BY <1>1 DEF WireOK
  <2>2. e # <<>> /\ p # <<>>
    BY <2>1
  <2>3. /\ Tail(e) \in Seq(Nat) /\ Len(Tail(e)) = Len(e) - 1
        /\ \A i \in 1..Len(Tail(e)) : Tail(e)[i] = e[i + 1]
    BY ONLY <2>2, e \in Seq(Nat), HeadTailProperties
  <2>4. /\ Tail(p) \in Seq(Nat) /\ Len(Tail(p)) = Len(p) - 1
        /\ \A i \in 1..Len(Tail(p)) : Tail(p)[i] = p[i + 1]
    BY ONLY <2>2, p \in Seq(Nat), HeadTailProperties
  <2>5. Len(Tail(e)) = l /\ Len(Tail(p)) = l
    BY <2>1, <2>3, <2>4
  <2>6. \A i \in 1..l : Tail(e)[i] = e[i + 1] /\ Tail(p)[i] = p[i + 1]
    BY <2>3, <2>4, <2>5
  <2> QED BY <2>3, <2>4, <2>5, <2>6, Zenon
<1>11. /\ wire' \in Seq(WireRecord) /\ Len(wire') = l - 1 /\ Len(wire') + 1 = l
       /\ \A i \in 1..(l - 1) : wire'[i] = wire[i + 1]
  <2>1. wire # <<>>
    BY <1>0
  <2>2. /\ Tail(wire) \in Seq(WireRecord) /\ Len(Tail(wire)) = Len(wire) - 1
        /\ \A i \in 1..Len(Tail(wire)) : Tail(wire)[i] = wire[i + 1]
    BY <1>0, <2>1, HeadTailProperties
  <2> QED BY <1>1, <2>2
<1>12. \A u, c, d : RecordOK(u, c, d)' = RecordOK(u, c, d)
  BY DEF RecordOK, RecLen, Span, End
<1>13. (\A i \in 1..Len(wire) : /\ f[i + 1] = f[i] + (Hdr + RecLen(wire[i]))
                                /\ RecordOK(wire[i], g[i], g[i + 1]))'
  <2> SUFFICES ASSUME NEW i \in 1..(l - 1)
               PROVE  (/\ f[i + 1] = f[i] + (Hdr + RecLen(wire[i]))
                       /\ RecordOK(wire[i], g[i], g[i + 1]))'
    BY <1>11
  <2>1. PICK j \in 1..l : j = i + 1
    OBVIOUS
  <2>2. PICK u : u = wire'[i] /\ u = wire[j]
    BY <1>11, <2>1
  <2>3. f[i] = e[j] /\ g[i] = p[j] /\ f[i + 1] = e[j + 1] /\ g[i + 1] = p[j + 1]
    <3>1. i \in 1..l /\ i + 1 = j
      BY <2>1
    <3>2. f[i] = e[i + 1] /\ g[i] = p[i + 1]
      BY <1>10, <3>1
    <3>3. f[j] = e[j + 1] /\ g[j] = p[j + 1]
      BY <1>10
    <3> QED BY <3>1, <3>2, <3>3
  <2>4. e[j + 1] = e[j] + (Hdr + RecLen(u)) /\ RecordOK(u, p[j], p[j + 1])
    BY <1>1, <2>2 DEF WireOK
  <2>5. RecordOK(u, g[i], g[i + 1])'
    BY <1>12, <2>3, <2>4
  <2>6. RecordOK(wire[i], g[i], g[i + 1])' = RecordOK(u, g[i], g[i + 1])'
    BY <2>2 DEF RecordOK, RecLen, Span, End
  <2> QED BY <2>2, <2>3, <2>4, <2>5, <2>6 DEF RecLen
<1>14. f[1] + (Taken' + avail' + flight') = f[l]
  <2>1. PICK t, c \in Int, v, w, z \in Nat :
          t = in.a /\ c = RecLen(wire[1]) /\ v = avail /\ w = flight /\ z = e[l + 1]
    <3>1. Len(e) = l + 1
      BY <1>1 DEF WireOK
    <3>2. l + 1 \in 1..Len(e)
      BY <3>1
    <3>3. e[l + 1] \in Nat
      BY ONLY <3>2, e \in Seq(Nat)
    <3>4. RecLen(wire[1]) \in Int
      BY <1>3
    <3> QED BY <1>0, <3>3, <3>4
  <2>2. x + (t + v + w) = z
    BY <1>1, <1>3, <2>1 DEF WireOK, Taken
  <2>3. y = x + (Hdr + c) /\ t + n = Hdr + c
    <3>1. e[1 + 1] = e[1] + (Hdr + RecLen(wire[1])) /\ 1 + 1 = 2
      BY <1>1 DEF WireOK
    <3> QED BY <1>2, <1>3, <2>1, <3>1
  <2>4. Taken' = 0 /\ avail' = v - n /\ flight' = w
    BY <1>4, <1>5, <2>1 DEF Taken
  <2>5. f[1] = y /\ f[l] = z
    <3>1. 1 \in 1..l /\ l \in 1..l
      BY <1>1
    <3> QED BY <1>3, <1>10, <2>1, <3>1
  <2>6. y + (0 + (v - n) + w) = z
    BY ONLY <2>2, <2>3, t \in Int, c \in Int, v \in Nat, w \in Nat, z \in Nat, x \in Nat,
       y \in Nat, n \in Nat, EngineConstants
  <2> QED BY ONLY <2>4, <2>5, <2>6
<1>15. /\ g[l] = total' /\ \A i \in 1..l : g[i] <= total'
  <2>1. l \in 1..l
    BY <1>1
  <2>2. p[l + 1] = total /\ \A i \in 1..(l + 1) : p[i] <= total
    BY <1>1 DEF WireOK
  <2>3. \A i \in 1..l : i + 1 \in 1..(l + 1)
    OBVIOUS
  <2> QED BY <1>10, <2>1, <2>2, <2>3
<1>16. g[1] = q + Held'
  <2>1. 1 \in 1..l /\ 1 + 1 = 2
    BY <1>1
  <2> QED BY <1>3, <1>7, <1>10, <2>1
<1>17. WireOK(f, g, q)'
  BY <1>10, <1>11, <1>13, <1>14, <1>15, <1>16 DEF WireOK
<1>18. (Start(Len(delivered) + 1) + Len(inBuf))' = q
  BY <1>1 DEF Start
<1> QED BY <1>9, <1>17, <1>18 DEF StreamOK

LEMMA RecvStream ==
  ASSUME LinkInv, EngineRecv
  PROVE  StreamOK'
<1> USE EngineConstants
<1> SUFFICES ASSUME ~failed' PROVE StreamOK'
  BY DEF StreamOK
<1>1. PICK n, l \in Nat :
        /\ n >= 1 /\ n <= avail /\ avail' = avail - n /\ l = RecLen(wire[1])
        /\ in.a = in.b /\ ~failed /\ phase = "recv" /\ 1 \in 1..Len(wire)
        /\ UNCHANGED <<flight, peer, sent, total, left, delivered, inBuf, phase>>
        /\ \/ /\ in.a + n < Hdr /\ in'.a = in.a + n /\ in'.b = in.a + n
              /\ UNCHANGED <<wire, ipl, typeIn>>
           \/ /\ in.a + n = Hdr /\ in'.a = Hdr /\ in'.b = Hdr /\ in'.c = l
              /\ typeIn' = wire[1].type /\ UNCHANGED <<wire, ipl>>
           \/ /\ in.a >= Hdr /\ n < in.c /\ in'.a = in.a + n /\ in'.b = in.a + n
              /\ in'.c = in.c - n /\ UNCHANGED <<wire, ipl, typeIn>>
           \/ /\ in.a >= Hdr /\ n = in.c /\ in' = Decrypt([a |-> in.a + n, b |-> in.a + n, c |-> 0])
              /\ wire' = Tail(wire) /\ ipl' = wire[1].data /\ UNCHANGED typeIn
  BY RecvCases
<1>0. /\ in.a \in Int /\ in.b \in Int /\ in.c \in Int
      /\ avail \in Nat /\ flight \in Nat /\ wire \in Seq(WireRecord)
  BY DEF LinkInv, LinkTypes, EngineInv, EngineTypeOK, Registers
<1>2. PICK q \in Nat : IbufOK(q)
  BY <1>1, StreamFacts
<1>3. /\ ipl = <<>>
      /\ in.a >= Hdr => typeIn = wire[1].type /\ in.a + in.c = Hdr + RecLen(wire[1])
  BY <1>0, <1>1, <1>2 DEF IbufOK
<1>4. wire # <<>>
  BY <1>0, <1>1, EmptySeq
<1>5. CASE /\ in.a + n < Hdr /\ in'.a = in.a + n /\ in'.b = in.a + n
           /\ UNCHANGED <<wire, ipl, typeIn>>
  <2>1. ~(in'.a >= Hdr)
    BY <1>0, <1>5
  <2> QED BY <1>1, <1>3, <1>5, <2>1, RecvPartly
<1>6. CASE /\ in.a + n = Hdr /\ in'.a = Hdr /\ in'.b = Hdr /\ in'.c = l
           /\ typeIn' = wire[1].type /\ UNCHANGED <<wire, ipl>>
  <2>1. in'.a + in'.c = Hdr + RecLen(wire[1]) /\ in'.a = in.a + n /\ in'.a = in'.b
    BY <1>1, <1>6
  <2> QED BY <1>1, <1>3, <1>4, <1>6, <2>1, RecvPartly
<1>7. CASE /\ in.a >= Hdr /\ n < in.c /\ in'.a = in.a + n /\ in'.b = in.a + n
           /\ in'.c = in.c - n /\ UNCHANGED <<wire, ipl, typeIn>>
  <2>1. in'.a + in'.c = in.a + in.c
    BY SMTT(30), <1>0, <1>7
  <2> QED BY <1>1, <1>3, <1>4, <1>7, <2>1, RecvPartly
<1>8. CASE /\ in.a >= Hdr /\ n = in.c
           /\ in' = Decrypt([a |-> in.a + n, b |-> in.a + n, c |-> 0])
           /\ wire' = Tail(wire) /\ ipl' = wire[1].data /\ UNCHANGED typeIn
  BY <1>1, <1>8, RecvWhole
<1> QED BY <1>1, <1>5, <1>6, <1>7, <1>8

-----------------------------------------------------------------------------
(* The inductive invariant is one *)

\* The steps that change nothing the peer's messages and records depend on.
Aside ==
    UNCHANGED <<peer, sent, total, left, wire, in, typeIn, ipl, inBuf, expectedLen,
                delivered, why>>

LEMMA AsideSteps ==
  ASSUME LinkInv, [Next]_vars, UNCHANGED vars \/ DoClose \/ FatalAlert \/ Handle \/ RecvEnds
           \/ (\E n \in 1..OBufLen : EngineSend(n)) \/ SendEnds \/ ReadPlainEnds
           \/ WritePlain \/ WriteEnds \/ CallbackReturns \/ PeerReads
           \/ (\E len \in ReplyLens : SendJson(len)) \/ (\E n \in 1..flight : NetDelivers(n))
  PROVE  /\ FramesInv' /\ StreamOK' /\ flight' \in Nat /\ avail' \in Nat /\ Aside
         /\ phase' = phase \/ phase' \in {"recv", "send", "read", "write", "last", "wait"}
<1>0. flight \in Nat /\ avail \in Nat
  BY DEF LinkInv, LinkTypes
<1>s. ASSUME Aside, flight' \in Nat, avail' \in Nat, avail' + flight' = avail + flight,
             ~failed' => ~failed,
             phase' = phase \/ (phase \notin {"parse", "closed"} /\ phase' # "closed")
      PROVE  FramesInv' /\ StreamOK'
  <2>1. UNCHANGED <<peer, sent, total, left, wire, in, typeIn, ipl, inBuf, expectedLen,
                    delivered, why>>
    BY <1>s DEF Aside
  <2>2. FramesInv'
    BY <1>s, <2>1, FramesSame
  <2>3. phase' # "closed" =>
             /\ phase # "closed"
             /\ (Start(Len(delivered) + 1) + Len(inBuf))' = Start(Len(delivered) + 1) + Len(inBuf)
    BY <1>s, <2>1 DEF Start
  <2>4. StreamOK'
    BY <1>s, <2>1, <2>3, StreamSame
  <2> QED BY <2>2, <2>4
<1>1. CASE UNCHANGED vars
  <2>1. Aside /\ UNCHANGED <<flight, avail, failed, phase>>
    BY <1>1 DEF Aside, vars, engVars, peerVars, netVars, frameVars
  <2> QED BY <1>0, <1>s, <2>1
<1>2. CASE DoClose \/ FatalAlert
  <2>1. Aside /\ UNCHANGED <<flight, avail, phase>> /\ ~failed
    BY <1>2 DEF Aside, DoClose, FatalAlert, HsGoto, HsShutdown, HsSetApp, HsFlush, HsWrite,
       HsFail, peerVars, netVars, frameVars
  <2> QED BY <1>0, <1>s, <2>1
<1>3. CASE Handle \/ RecvEnds \/ SendEnds \/ ReadPlainEnds \/ WriteEnds
  <2>1. /\ Aside /\ UNCHANGED <<flight, avail, failed>>
        /\ phase \notin {"parse", "closed"}
        /\ phase' \in {"recv", "send", "read", "write", "last", "wait"}
    BY <1>3 DEF Aside, Handle, RecvEnds, SendEnds, ReadPlainEnds, WriteEnds, Handling,
       engVars, peerVars, netVars, frameVars
  <2> QED BY <1>0, <1>s, <2>1
<1>4. CASE (\E n \in 1..OBufLen : EngineSend(n)) \/ WritePlain \/ CallbackReturns \/ PeerReads
           \/ (\E len \in ReplyLens : SendJson(len))
  <2>1. Aside /\ UNCHANGED <<flight, avail, failed, phase>>
    BY <1>4 DEF Aside, EngineSend, EngineSendRec, WritePlain, EngineSendApp, CallbackReturns,
       PeerReads, SendJson, engVars, peerVars, netVars, frameVars
  <2> QED BY <1>0, <1>s, <2>1
<1>5. CASE \E n \in 1..flight : NetDelivers(n)
  <2>1. PICK n \in 1..flight : NetDelivers(n)
    BY <1>5
  <2>2. /\ Aside /\ UNCHANGED <<failed, phase>>
        /\ flight' = flight - n /\ avail' = avail + n
    BY <2>1 DEF Aside, NetDelivers, engVars, peerVars, frameVars
  <2>3. flight' \in Nat /\ avail' \in Nat /\ avail' + flight' = avail + flight
    BY <1>0, <2>2
  <2> QED BY <1>s, <2>2, <2>3
<1> QED BY <1>1, <1>2, <1>3, <1>4, <1>5

\* Where the messages, the records and the handler go in the other steps.
PartTypes ==
    /\ peer \in Peers /\ sent \in Seq(Sent) /\ total \in Nat /\ left \in Nat
    /\ wire \in Seq(WireRecord) /\ flight \in Nat /\ avail \in Nat
    /\ ipl \in Seq(Nat) /\ delivered \in Seq(Seq(Nat)) /\ expectedLen \in Nat
    /\ phase \in {"wait", "recv", "send", "read", "parse", "write", "last", "closed"}

LEMMA HandlerTakes ==
  ASSUME LinkInv, ProcessAlert \/ EngineRecv \/ ReadPlain \/ ReadPlainFull
  PROVE  FramesInv' /\ StreamOK' /\ PartTypes'
<1> USE EngineConstants
<1>t. PartTypes
  BY DEF LinkInv, LinkTypes, PartTypes
<1>r. RecvPldLen \in Int
  BY Rooms DEF LinkInv
<1>e. <<>> \in Seq(Nat)
  BY EmptySeq
<1>1. CASE ProcessAlert
  <2>1. /\ HsRead(RecvPldLen) /\ ipl' = <<>>
        /\ UNCHANGED <<peer, sent, total, left, wire, avail, flight, delivered, inBuf,
                       expectedLen, why, phase>>
    BY <1>1 DEF ProcessAlert, HsGoto, peerVars, netVars, frameVars
  <2>2. /\ typeIn # "app" /\ RecvPldLen > 0 /\ in' = RecvPldAck(in, RecvPldLen)
        /\ UNCHANGED <<typeIn, failed>>
    BY <1>r, <2>1 DEF HsRead
  <2>3. FramesInv'
    BY <2>1, FramesSame
  <2>4. StreamOK'
    <3>1. CASE phase = "closed"
      BY <2>1, <3>1 DEF StreamOK
    <3>2. CASE phase # "closed"
      BY <2>1, <2>2, <3>2, PayloadTaken
    <3> QED BY <3>1, <3>2
  <2>5. PartTypes'
    BY <1>t, <1>e, <2>1 DEF PartTypes
  <2> QED BY <2>3, <2>4, <2>5
<1>2. CASE EngineRecv
  <2>1. PICK n \in Nat : /\ n = Least(RecvRecLen, avail) /\ n <= avail /\ phase = "recv"
                         /\ 1 \in 1..Len(wire) /\ Head(wire) = wire[1] /\ wire # <<>>
                         /\ wire[1] \in WireRecord
    BY <1>2, RecvFacts
  <2>2. /\ UNCHANGED <<peer, sent, total, left, flight, delivered, inBuf, expectedLen, phase>>
        /\ why' = (IF failed' THEN "refused" ELSE why) /\ avail' = avail - n
        /\ wire' = Tail(wire) \/ wire' = wire
        /\ ipl' = wire[1].data \/ ipl' = ipl
    BY <1>2, <2>1 DEF EngineRecv, peerVars
  <2>3. failed' => peer # "bear"
    BY <1>2, RefusedForCause
  <2>4. FramesInv'
    BY <2>1, <2>2, <2>3, FramesSame
  <2>5. wire' \in Seq(WireRecord) /\ ipl' \in Seq(Nat) /\ avail' \in Nat
    <3>1. Tail(wire) \in Seq(WireRecord)
      BY <1>t, <2>1, HeadTailProperties DEF PartTypes
    <3>2. wire[1].data \in Seq(Nat)
      BY <2>1 DEF WireRecord
    <3>3. avail - n \in Nat
      BY <1>t, <2>1 DEF PartTypes
    <3> QED BY <1>t, <2>2, <3>1, <3>2, <3>3 DEF PartTypes
  <2>6. PartTypes'
    BY <1>t, <2>2, <2>5 DEF PartTypes
  <2> QED BY <1>2, <2>4, <2>6, RecvStream
<1>3. CASE ReadPlain
  <2>1. /\ FramesInv' /\ ipl' = <<>> /\ Len(inBuf') = Len(inBuf) + Len(ipl)
        /\ phase = "read" /\ phase' = "parse"
        /\ UNCHANGED <<peer, sent, total, left, expectedLen, delivered>>
    BY <1>3, ReadPlainStep
  <2>2. EngineRecvApp(RecvPldLen) /\ UNCHANGED <<wire, avail, flight>>
    BY <1>3 DEF ReadPlain, netVars
  <2>3. /\ typeIn = "app" /\ RecvPldLen > 0 /\ in' = RecvPldAck(in, RecvPldLen)
        /\ UNCHANGED <<typeIn, failed>>
    BY <1>r, <2>2 DEF EngineRecvApp
  <2>4. StreamOK'
    BY <2>1, <2>2, <2>3, PayloadTaken
  <2>5. PartTypes'
    BY <1>t, <1>e, <2>1, <2>2 DEF PartTypes
  <2> QED BY <2>1, <2>4, <2>5
<1>4. CASE ReadPlainFull
  <2>1. FramesInv' /\ phase' = "closed" /\ expectedLen' = 0
    BY <1>4, ReadPlainFullStep
  <2>2. UNCHANGED <<peer, sent, total, left, wire, flight, avail, ipl, delivered>>
    BY <1>4 DEF ReadPlainFull, peerVars, netVars
  <2>3. PartTypes'
    BY <1>t, <2>1, <2>2 DEF PartTypes
  <2> QED BY <2>1, <2>3 DEF StreamOK
<1> QED BY <1>1, <1>2, <1>3, <1>4

LEMMA ParseAndPeer ==
  ASSUME LinkInv, \/ Parse \/ ParseDelivers
                  \/ \E len \in Lens : PeerMessage(len)
                  \/ \E k \in 1..PeerMax : PeerRecord(k)
                  \/ \E kind \in {0, 1} : PeerAlert(kind)
  PROVE  FramesInv' /\ StreamOK' /\ PartTypes'
<1> USE LinkConstants
<1>t. PartTypes
  BY DEF LinkInv, LinkTypes, PartTypes
<1>1. CASE Parse
  <2>1. /\ FramesInv' /\ expectedLen' \in Nat /\ phase' \in {"read", "closed"}
        /\ UNCHANGED <<peer, sent, total, left, delivered, ipl>>
        /\ phase' # "closed" => inBuf' = inBuf
    BY <1>1, ParseStep
  <2>2. UNCHANGED <<wire, in, typeIn, failed, avail, flight>> /\ phase = "parse"
    BY <1>1 DEF Parse, Handling, engVars, netVars
  <2>3. phase' # "closed" =>
             /\ phase # "closed"
             /\ (Start(Len(delivered) + 1) + Len(inBuf))' = Start(Len(delivered) + 1) + Len(inBuf)
    BY <2>1, <2>2 DEF Start
  <2>4. avail' \in Nat /\ flight' \in Nat /\ avail' + flight' = avail + flight
    BY <1>t, <2>2 DEF PartTypes
  <2>5. StreamOK'
    BY <2>1, <2>2, <2>3, <2>4, StreamSame
  <2>6. PartTypes'
    BY <1>t, <2>1, <2>2 DEF PartTypes
  <2> QED BY <2>1, <2>5, <2>6
<1>2. CASE ParseDelivers
  <2>1. /\ FramesInv' /\ expectedLen' = 0 /\ delivered' \in Seq(Seq(Nat))
        /\ phase = "parse" /\ phase' = "parse"
        /\ UNCHANGED <<peer, sent, total, left, ipl>>
        /\ \E q \in Nat : /\ q = Start(Len(delivered) + 1) + Len(inBuf)
                          /\ q = (Start(Len(delivered) + 1) + Len(inBuf))'
    BY <1>2, ParseDeliversStep
  <2>2. UNCHANGED <<wire, in, typeIn, failed, avail, flight>>
    BY <1>2 DEF ParseDelivers, engVars, netVars
  <2>3. avail' \in Nat /\ flight' \in Nat /\ avail' + flight' = avail + flight
    BY <1>t, <2>2 DEF PartTypes
  <2>4. (Start(Len(delivered) + 1) + Len(inBuf))' = Start(Len(delivered) + 1) + Len(inBuf)
    BY <2>1
  <2>5. StreamOK'
    BY <2>1, <2>2, <2>3, <2>4, StreamSame
  <2>6. PartTypes'
    BY <1>t, <2>1, <2>2 DEF PartTypes
  <2> QED BY <2>1, <2>5, <2>6
<1>3. ASSUME NEW len \in Lens, PeerMessage(len) PROVE FramesInv' /\ StreamOK' /\ PartTypes'
  <2>1. FramesInv' /\ StreamOK'
    BY <1>3, MessageStep, MessageStream
  <2>2. /\ left' = left + Pre + len
        /\ UNCHANGED <<peer, total, wire, flight, avail, ipl, delivered, expectedLen, phase>>
    BY <1>3 DEF PeerMessage, netVars, frameVars
  <2>3. sent' \in Seq(Sent)
    <3>1. Len(sent) \in Nat
      BY <1>t DEF PartTypes
    <3> QED BY <1>3, <3>1, MessageAppends
  <2>4. left' \in Nat
    BY <1>t, <2>2 DEF PartTypes
  <2>5. PartTypes'
    BY <1>t, <2>2, <2>3, <2>4 DEF PartTypes
  <2> QED BY <2>1, <2>5
<1>4. ASSUME NEW k \in 1..PeerMax, PeerRecord(k) PROVE FramesInv' /\ StreamOK' /\ PartTypes'
  <2>1. FramesInv' /\ total' \in Nat /\ left' \in Nat
    BY <1>4, RecordStep
  <2>2. StreamOK' /\ wire' \in Seq(WireRecord) /\ flight' \in Nat
    BY <1>4, RecordStream
  <2>3. UNCHANGED <<peer, sent, avail, ipl, delivered, expectedLen, phase>>
    BY <1>4 DEF PeerRecord, Put, frameVars
  <2>4. PartTypes'
    BY <1>t, <2>1, <2>2, <2>3 DEF PartTypes
  <2> QED BY <2>1, <2>2, <2>4
<1>5. ASSUME NEW kind \in {0, 1}, PeerAlert(kind) PROVE FramesInv' /\ StreamOK' /\ PartTypes'
  <2>1. StreamOK' /\ wire' \in Seq(WireRecord) /\ flight' \in Nat
    BY <1>5, AlertStream
  <2>2. UNCHANGED <<peer, sent, total, left, avail, ipl, delivered, expectedLen, phase, inBuf, why>>
    BY <1>5 DEF PeerAlert, Put, frameVars
  <2>3. FramesInv'
    BY <2>2, FramesSame
  <2>4. PartTypes'
    BY <1>t, <2>1, <2>2 DEF PartTypes
  <2> QED BY <2>1, <2>3, <2>4
<1> QED BY <1>1, <1>2, <1>3, <1>4, <1>5

\* Where the handshake processor goes.
LEMMA HsTypes ==
  ASSUME LinkInv, [Next]_vars
  PROVE  hs' \in {"idle", "alert", "shutdown", "leave", "flush", "notify", "last",
                  "fail", "closed"}
<1>0. hs \in {"idle", "alert", "shutdown", "leave", "flush", "notify", "last", "fail", "closed"}
  BY DEF LinkInv, LinkTypes
<1>1. CASE Processor
  BY <1>0, <1>1 DEF Processor, ProcessAlert, DoClose, FatalAlert, HsGoto
<1>2. CASE EngineRecv
  BY <1>0, <1>2 DEF EngineRecv
<1>3. CASE Handle \/ RecvEnds \/ SendEnds \/ ReadPlain \/ ReadPlainFull \/ ReadPlainEnds
           \/ Parse \/ ParseDelivers \/ WritePlain \/ WriteEnds \/ CallbackReturns
  BY <1>0, <1>3 DEF Handle, RecvEnds, SendEnds, ReadPlain, ReadPlainFull, ReadPlainEnds,
     Parse, ParseDelivers, WritePlain, WriteEnds, CallbackReturns
<1>4. CASE \/ \E n \in 1..OBufLen : EngineSend(n)
           \/ \E len \in ReplyLens : SendJson(len)
           \/ \E len \in Lens : PeerMessage(len)
           \/ \E k \in 1..PeerMax : PeerRecord(k)
           \/ \E kind \in {0, 1} : PeerAlert(kind)
           \/ \E n \in 1..flight : NetDelivers(n)
           \/ PeerReads
  BY <1>0, <1>4 DEF EngineSend, SendJson, PeerMessage, PeerRecord, PeerAlert, NetDelivers,
     PeerReads
<1>5. CASE UNCHANGED vars
  BY <1>0, <1>5 DEF vars
<1> QED BY <1>1, <1>2, <1>3, <1>4, <1>5 DEF Next, Handler

LEMMA LinkNext == LinkInv /\ [Next]_vars => LinkInv'
<1> SUFFICES ASSUME LinkInv, [Next]_vars PROVE LinkInv'
  OBVIOUS
<1>1. EngineInv'
  BY LinkEngineStep, EngineNextInv DEF LinkInv
<1>2. HsOK' /\ OutOK'
  BY ClosingStep
<1>3. /\ RepliesIntact' /\ arrived' \in Seq(Nat) /\ opl' \in Seq(Nat)
      /\ outBuf' \in Seq(Nat) /\ accepted' \in Nat
  BY RepliesStep
<1>4. FramesInv' /\ StreamOK' /\ PartTypes'
  <2>1. CASE UNCHANGED vars \/ DoClose \/ FatalAlert \/ Handle \/ RecvEnds
             \/ (\E n \in 1..OBufLen : EngineSend(n)) \/ SendEnds \/ ReadPlainEnds
             \/ WritePlain \/ WriteEnds \/ CallbackReturns \/ PeerReads
             \/ (\E len \in ReplyLens : SendJson(len)) \/ (\E n \in 1..flight : NetDelivers(n))
    <3>1. /\ FramesInv' /\ StreamOK' /\ flight' \in Nat /\ avail' \in Nat /\ Aside
          /\ phase' = phase \/ phase' \in {"recv", "send", "read", "write", "last", "wait"}
      BY <2>1, AsideSteps
    <3>2. PartTypes
      BY DEF LinkInv, LinkTypes, PartTypes
    <3>3. PartTypes'
      BY <3>1, <3>2 DEF PartTypes, Aside
    <3> QED BY <3>1, <3>3
  <2>2. CASE ProcessAlert \/ EngineRecv \/ ReadPlain \/ ReadPlainFull
    BY <2>2, HandlerTakes
  <2>3. CASE \/ Parse \/ ParseDelivers
             \/ \E len \in Lens : PeerMessage(len)
             \/ \E k \in 1..PeerMax : PeerRecord(k)
             \/ \E kind \in {0, 1} : PeerAlert(kind)
    BY <2>3, ParseAndPeer
  <2> QED BY <2>1, <2>2, <2>3 DEF Next, Handler, Processor
<1>5. LinkTypes'
  BY <1>3, <1>4, HsTypes DEF LinkTypes, PartTypes
<1> QED BY <1>1, <1>2, <1>3, <1>4, <1>5 DEF LinkInv, FramesInv

\* Behind the handshake nothing has been sent, received or accepted.
LEMMA LinkInit == Init => LinkInv
<1> SUFFICES ASSUME Init PROVE LinkInv
  OBVIOUS
<1>0. /\ failed = FALSE /\ incrypt = TRUE /\ outcrypt = TRUE /\ shutdown = FALSE /\ app = 1
      /\ in = MakeReadyIn /\ out = MakeReadyOut(TRUE)
      /\ typeIn = "handshake" /\ typeOut = "app"
  BY DEF Init
<1>1. /\ peer \in Peers /\ sent = <<>> /\ total = 0 /\ left = 0
      /\ wire = <<>> /\ flight = 0 /\ avail = 0 /\ arrived = <<>>
      /\ ipl = <<>> /\ opl = <<>> /\ hs = "idle"
  BY DEF Init
<1>2. /\ inBuf = <<>> /\ expectedLen = 0 /\ delivered = <<>>
      /\ phase = "wait" /\ why = "open" /\ outBuf = <<>> /\ accepted = 0
  BY DEF Init
<1>3. Len(sent) = 0 /\ Len(delivered) = 0 /\ Len(inBuf) = 0 /\ Len(wire) = 0 /\ Len(ipl) = 0
  BY <1>1, <1>2
<1>4. EngineInv
  <2>1. InputOK(in, incrypt)
    BY <1>0, ReadyIn
  <2>2. OutputOK(out, outcrypt)
    BY <1>0, ReadyOut
  <2>3. /\ failed \in BOOLEAN /\ incrypt \in BOOLEAN /\ outcrypt \in BOOLEAN
        /\ shutdown \in BOOLEAN /\ typeIn \in RecordTypes /\ typeOut \in RecordTypes
    BY <1>0, Zenon DEF RecordTypes
  <2>4. app \in 0..2
    BY <1>0
  <2>5. EngineTypeOK
    BY <2>1, <2>2, <2>3, <2>4, Zenon DEF EngineTypeOK, InputOK, OutputOK
  <2> QED BY <2>1, <2>2, <2>5 DEF EngineInv, RegistersSane, InputOK, OutputOK
<1>5. LinkTypes
  BY <1>1, <1>2 DEF LinkTypes
<1>6. HsOK /\ OutOK
  BY <1>0, <1>1 DEF HsOK, OutOK, NotifyFlushes
<1>7. Rx!Bytes(0, 0) = <<>>
  <2>1. Rx!Bytes(0, 0) \in Seq(Nat) /\ Len(Rx!Bytes(0, 0)) = 0
    BY BytesSeq
  <2> QED BY <2>1, EmptySeq
<1>8. RepliesIntact
  BY <1>1, <1>2, <1>7 DEF RepliesIntact
<1>9. SentOK
  <2>1. Start(1) = 0
    BY <1>1, <1>3 DEF Start
  <2> QED BY <1>1, <1>3, <2>1 DEF SentOK
<1>10. Start(Len(delivered) + 1) = 0
  BY <1>3, <1>9 DEF SentOK
<1>11. FramesOK
  <2>1. BytesOK(0, 0)
    <3>1. 0 + 0 = 0 /\ 0 <= Rx!Cap
      BY LinkConstants DEF Rx!Cap
    <3> QED BY <1>1, <1>2, <1>7, <1>10, <3>1 DEF BytesOK
  <2>2. FrameLenOK /\ NoneComplete
    BY <1>2, <1>3, LinkConstants DEF FrameLenOK, NoneComplete
  <2> QED BY <1>2, <2>1, <2>2 DEF FramesOK
<1>12. DeliveredIntact /\ ClosedForCause
  BY <1>2, <1>3 DEF DeliveredIntact, Rx!DeliveredIntact, ClosedForCause
<1>13. StreamOK
  <2>0. <<0>> \in Seq(Nat)
    OBVIOUS
  <2>1. PICK e \in Seq(Nat) : e = <<0>>
    BY <2>0, Zenon
  <2>2. Len(e) = 1 /\ e[1] = 0
    BY <2>1
  <2>3. in.a = 0 /\ in.b = 0 /\ in.c = Hdr
    BY <1>0 DEF MakeReadyIn
  <2>4. Taken = 0 /\ Held = 0
    BY <1>0, <2>3 DEF Taken, Held
  <2>5. WireOK(e, e, 0)
    BY <1>1, <1>3, <2>2, <2>4 DEF WireOK
  <2>6. IbufOK(0)
    BY <1>1, <2>3, EngineConstants DEF IbufOK
  <2>7. 0 = Start(Len(delivered) + 1) + Len(inBuf)
    BY <1>3, <1>10
  <2> QED BY <2>5, <2>6, <2>7 DEF StreamOK
<1> QED BY <1>4, <1>5, <1>6, <1>8, <1>9, <1>11, <1>12, <1>13 DEF LinkInv

-----------------------------------------------------------------------------
(* The theorems about the link *)

\* The invariant of the link holds in every execution of tlsv2_handle_client.
THEOREM LinkInductive == Spec => []LinkInv
BY LinkInit, LinkNext, PTL DEF Spec

\* tlsv2_handle_client, the handshake processor and the peer drive the engine
\* through its interface only: every step is one that the record layer alone
\* may take, with sizes that its buffers hold, or leaves it alone.
THEOREM LinkUsesEngine == Spec => [][EngineNext]_engVars
<1>1. LinkInv /\ [Next]_vars => [EngineNext]_engVars
  BY LinkEngineStep
<1> QED BY <1>1, LinkInductive, PTL DEF Spec

\* So below tlsv2_handle_client no record is built or received outside ibuf and
\* obuf either, and the engine never waits for bytes that it has no room for.
THEOREM LinkRegistersSane == Spec => [](EngineTypeOK /\ RegistersSane /\ NeverStuck)
<1>1. LinkInv => EngineTypeOK /\ RegistersSane
  BY DEF LinkInv, EngineInv
<1>2. LinkInv => NeverStuck
  BY NotStuck DEF LinkInv
<1> QED BY <1>1, <1>2, LinkInductive, PTL

\* However the peer cuts its messages into records, and the socket the records
\* into reads, on_json_received gets exactly the messages sent, in order.
THEOREM LinkDelivers == Spec => []DeliveredIntact
<1>1. LinkInv => DeliveredIntact
  BY DEF LinkInv
<1> QED BY <1>1, LinkInductive, PTL

\* What tlsv2_send_json accepted is at the peer, in obuf or in out_buf, with no
\* byte lost, repeated or moved, wherever write_plain ran out of room and send()
\* would have blocked.
THEOREM LinkRepliesIntact == Spec => []RepliesIntact
<1>1. LinkInv => RepliesIntact
  BY DEF LinkInv
<1> QED BY <1>1, LinkInductive, PTL

\* The handshake processor flushes the open record before it answers a
\* close_notify: what write_plain has given to the engine is out before it ends.
THEOREM LinkNotifyFlushes == Spec => []NotifyFlushes
<1>1. LinkInv => NotifyFlushes
  BY DEF LinkInv, OutOK
<1> QED BY <1>1, LinkInductive, PTL

\* The handler gives a client up for its framing only because of the next
\* message, and the engine refuses no record of a peer with its fragment length.
THEOREM LinkClosesForCause == Spec => []ClosedForCause
<1>1. LinkInv => ClosedForCause
  BY DEF LinkInv
<1> QED BY <1>1, LinkInductive, PTL

\* What TypeOK says beyond the invariant of the link.
MoreTypes ==
    /\ over \in BOOLEAN /\ room \in BOOLEAN /\ incall \in BOOLEAN /\ replies \in Nat
    /\ sent \in Seq([start : Nat, len : Lens]) /\ inBuf \in Seq(Nat)
    /\ why \in {"open", "refused", "oversize", "full", "memory"}

LEMMA MoreTypesStep == LinkInv /\ MoreTypes /\ [Next]_vars => MoreTypes'
<1> SUFFICES ASSUME LinkInv, MoreTypes, [Next]_vars PROVE MoreTypes'
  OBVIOUS
<1>0. ipl \in Seq(Nat) /\ total \in Nat /\ left \in Nat
  BY DEF LinkInv, LinkTypes
<1>1. CASE UNCHANGED <<over, room, incall, replies, sent, inBuf, why>>
  BY <1>1 DEF MoreTypes
<1>2. CASE \/ UNCHANGED vars \/ Processor \/ Handle \/ RecvEnds \/ SendEnds \/ ReadPlainEnds
           \/ WritePlain \/ WriteEnds
           \/ \E k \in 1..PeerMax : PeerRecord(k)
           \/ \E n \in 1..flight : NetDelivers(n)
  <2>1. UNCHANGED <<over, room, incall, replies, sent, inBuf, why>>
    BY <1>2 DEF vars, peerVars, netVars, frameVars, appVars, Processor, ProcessAlert, DoClose,
       FatalAlert, HsGoto, Handle, RecvEnds, SendEnds, ReadPlainEnds, WritePlain, WriteEnds,
       PeerRecord, Put, NetDelivers
  <2> QED BY <1>1, <2>1
<1>3. CASE EngineRecv
  <2>1. /\ UNCHANGED <<over, room, incall, replies, sent, inBuf>>
        /\ why' = why \/ why' = "refused"
    BY <1>3 DEF EngineRecv, peerVars, appVars
  <2> QED BY <2>1 DEF MoreTypes
<1>4. CASE (\E n \in 1..OBufLen : EngineSend(n)) \/ PeerReads
  <2>1. UNCHANGED <<over, incall, replies, sent, inBuf, why>> /\ room' \in BOOLEAN
    BY <1>4 DEF EngineSend, PeerReads, peerVars, frameVars, appVars
  <2> QED BY <2>1 DEF MoreTypes
<1>5. CASE ReadPlain
  <2>1. /\ UNCHANGED <<over, room, incall, replies, sent, why>>
        /\ inBuf' = inBuf \o SubSeq(ipl, 1, Len(ipl))
    BY <1>5 DEF ReadPlain, Rx!ReadSome, Rx!sendVars, netVars, appVars
  <2>2. SubSeq(ipl, 1, Len(ipl)) \in Seq(Nat)
    BY <1>0
  <2>3. inBuf' \in Seq(Nat)
    BY <2>1, <2>2 DEF MoreTypes
  <2> QED BY <2>1, <2>3 DEF MoreTypes
<1>6. CASE ReadPlainFull \/ Parse
  <2>1. /\ UNCHANGED <<over, room, incall, replies, sent>>
        /\ inBuf' = inBuf \/ inBuf' = <<>>
        /\ why' = why \/ why' \in {"oversize", "full", "memory"}
    BY <1>6 DEF ReadPlainFull, Parse, Rx!ParseNoHeader, Rx!ParseRefuses, Rx!ParseNoMemory,
       Rx!ParseIncomplete, Rx!Close, Rx!sendVars, peerVars, netVars, appVars
  <2>2. <<>> \in Seq(Nat)
    OBVIOUS
  <2>3. inBuf' \in Seq(Nat)
    BY <2>1, <2>2 DEF MoreTypes
  <2>4. why' \in {"open", "refused", "oversize", "full", "memory"}
    BY <2>1 DEF MoreTypes
  <2> QED BY <2>1, <2>3, <2>4 DEF MoreTypes
<1>7. CASE ParseDelivers
  <2>1. /\ UNCHANGED <<over, room, replies, sent, why>> /\ incall' = TRUE
    BY <1>7 DEF ParseDelivers, Rx!ParseDelivers, Rx!sendVars, netVars
  <2>2. phase' # "closed"
    BY <1>7 DEF ParseDelivers, Rx!ParseDelivers
  <2>3. PICK p, n \in Nat : inBuf' = Rx!Bytes(p, n)
    BY <2>2, LinkNext DEF LinkInv, FramesOK, BytesOK, Rx!Bytes
  <2>4. inBuf' \in Seq(Nat)
    BY <2>3, BytesSeq
  <2> QED BY <2>1, <2>4 DEF MoreTypes
<1>8. CASE (\E len \in ReplyLens : SendJson(len)) \/ CallbackReturns
  <2>1. /\ UNCHANGED <<over, room, sent, inBuf, why>>
        /\ incall' = incall \/ incall' = FALSE
        /\ replies' = replies \/ replies' = replies + 1
    BY <1>8 DEF SendJson, CallbackReturns, peerVars, netVars, frameVars
  <2>2. replies' \in Nat
    BY <2>1 DEF MoreTypes
  <2>3. incall' \in BOOLEAN
    BY <2>1, Zenon DEF MoreTypes
  <2> QED BY <2>1, <2>2, <2>3 DEF MoreTypes
<1>9. CASE \E len \in Lens : PeerMessage(len)
  <2>1. PICK len \in Lens : PeerMessage(len)
    BY <1>9
  <2>2. /\ UNCHANGED <<over, room, incall, replies, inBuf, why>>
        /\ sent' = Append(sent, [start |-> total + left, len |-> len])
    BY <2>1 DEF PeerMessage, netVars, frameVars, appVars
  <2>3. sent' \in Seq([start : Nat, len : Lens])
    BY <1>0, <2>2 DEF MoreTypes
  <2> QED BY <2>2, <2>3 DEF MoreTypes
<1>10. CASE \E kind \in {0, 1} : PeerAlert(kind)
  <2>1. UNCHANGED <<room, incall, replies, sent, inBuf, why>> /\ over' = TRUE
    BY <1>10 DEF PeerAlert, Put, frameVars, appVars
  <2> QED BY <2>1 DEF MoreTypes
<1> QED BY <1>2, <1>3, <1>4, <1>5, <1>6, <1>7, <1>8, <1>9, <1>10 DEF Next, Handler

\* Whatever peer and network do, the fields of the client's entry and of the
\* engine below it keep their types, the length announced in the header too.
THEOREM LinkTypeOK == Spec => []TypeOK
<1>1. ASSUME Init PROVE MoreTypes
  <2>1. over \in BOOLEAN /\ room \in BOOLEAN /\ incall \in BOOLEAN
    BY <1>1, Zenon DEF Init
  <2>2. /\ replies \in Nat /\ sent \in Seq([start : Nat, len : Lens]) /\ inBuf \in Seq(Nat)
        /\ why \in {"open", "refused", "oversize", "full", "memory"}
    BY <1>1 DEF Init
  <2> QED BY <2>1, <2>2 DEF MoreTypes
<1>2. LinkInv /\ MoreTypes => TypeOK
  BY DEF LinkInv, EngineInv, LinkTypes, WireRecord, MoreTypes, TypeOK
<1> QED BY <1>1, <1>2, MoreTypesStep, LinkInductive, PTL DEF Spec
=============================================================================
