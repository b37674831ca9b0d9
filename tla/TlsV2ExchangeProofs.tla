------------------------ MODULE TlsV2ExchangeProofs ------------------------
(***************************************************************************)
(* Proofs about TlsV2Receive and TlsV2Exchange, for messages of any number *)
(* and length cut into any pieces.  The requests are delivered intact, the *)
(* server closes a client for its framing only with cause, and both hold   *)
(* in the exchange because it implements either direction; there, a client *)
(* in lock step never has a reply refused.                                 *)
(***************************************************************************)
EXTENDS TlsV2Exchange, SequenceTheorems, FiniteSetTheorems, TLAPS

(* The inductive invariant of tlsv2_json_try_receive *)

Sent == [start : Nat, len : Nat]
End(m) == sent[m].start + Hdr + sent[m].len
Start(m) == IF m <= Len(sent) THEN sent[m].start ELSE total + left

\* The messages the peer announced lie one behind the other; the last one may
\* still be in writing, but its header is written.
SentOK ==
    /\ sent \in Seq(Sent) /\ total \in Nat /\ left \in Nat
    /\ Start(1) = 0
    /\ \A m \in 1..Len(sent) : Start(m + 1) = End(m) /\ sent[m].start + Hdr <= total
    /\ \A m, k \in 1..Len(sent) : m < k => End(m) <= sent[k].start

\* p is where the next message starts, in_buf holds the n bytes behind it and
\* the wire what is written behind those.
BytesOK(p, n) ==
    /\ p = Start(Len(delivered) + 1) /\ p + n <= total /\ n <= Cap
    /\ inBuf = Bytes(p, n) /\ wire = Bytes(p + n, total - (p + n))

\* The length kept from one turn of the inner loop to the next is that of the
\* message at the head of in_buf.
LengthOK ==
    expectedLen # 0 =>
        /\ Len(delivered) < Len(sent) /\ expectedLen = sent[Len(delivered) + 1].len
        /\ expectedLen <= MaxJson /\ Len(inBuf) >= Hdr

\* Outside the inner loop there is no complete message in in_buf, except for
\* an empty one, behind whose header no other is found.
NoneComplete ==
    phase \in {"wait", "read"} /\ Len(inBuf) >= Hdr =>
        \/ sent[Len(delivered) + 1].len = 0
        \/ /\ sent[Len(delivered) + 1].len <= MaxJson
           /\ Len(inBuf) < Hdr + sent[Len(delivered) + 1].len

OpenOK ==
    phase # "closed" =>
        /\ why = "open" /\ LengthOK /\ NoneComplete
        /\ \E p, n \in Nat : BytesOK(p, n)

RInv ==
    /\ SentOK /\ delivered \in Seq(Seq(Nat)) /\ expectedLen \in Nat
    /\ phase \in {"wait", "read", "parse", "closed"}
    /\ DeliveredIntact /\ ClosedForCause
    /\ OpenOK

-----------------------------------------------------------------------------
(* Bytes and messages *)

\* A run of n bytes is a sequence of length n.
LEMMA BytesSeq ==
  ASSUME NEW a \in Nat, NEW n \in Nat
  PROVE  Bytes(a, n) \in Seq(Nat) /\ Len(Bytes(a, n)) = n
BY DEF Bytes

\* A part of a run is a run.
LEMMA BytesSub ==
  ASSUME NEW a \in Nat, NEW n \in Nat, NEW i \in 1..(n + 1), NEW j \in 0..n, i <= j + 1
  PROVE  SubSeq(Bytes(a, n), i, j) = Bytes(a + (i - 1), j - (i - 1))
BY BytesSeq DEF Bytes

\* Two adjacent runs are one.
LEMMA BytesJoin ==
  ASSUME NEW a \in Nat, NEW n \in Nat, NEW k \in Nat
  PROVE  Bytes(a, n) \o Bytes(a + n, k) = Bytes(a, n + k)
BY BytesSeq DEF Bytes

\* Starts, lengths and ends are numbers, and a message has at least its header.
LEMMA SentFacts ==
  ASSUME SentOK, NEW m \in 1..Len(sent)
  PROVE  /\ sent[m].start \in Nat /\ sent[m].len \in Nat /\ End(m) \in Nat
         /\ End(m) = sent[m].start + Hdr + sent[m].len /\ sent[m].start < End(m)
         /\ Len(sent) \in Nat /\ total \in Nat
<1>1. sent[m] \in Sent
  BY DEF SentOK
<1>2. sent[m].start \in Nat /\ sent[m].len \in Nat
  BY <1>1 DEF Sent
<1>3. Len(sent) \in Nat /\ total \in Nat
  BY DEF SentOK
<1> QED BY <1>2, <1>3, ReceiveConstants DEF End

\* Messages have their starts to themselves.
LEMMA StartsDiffer ==
  ASSUME SentOK, NEW m \in 1..Len(sent), NEW k \in 1..Len(sent), sent[m].start = sent[k].start
  PROVE  m = k
<1>1. m < k => End(m) <= sent[k].start
  BY DEF SentOK
<1>2. k < m => End(k) <= sent[m].start
  BY DEF SentOK
<1>3. /\ sent[m].start < End(m) /\ End(m) \in Nat /\ sent[m].start \in Nat
      /\ sent[k].start < End(k) /\ End(k) \in Nat /\ sent[k].start \in Nat
  BY SentFacts
<1> QED BY <1>1, <1>2, <1>3

\* What in_buf and the wire hold while the connection is open.
LEMMA OpenFacts ==
  ASSUME RInv, phase # "closed"
  PROVE  \E p, n, d \in Nat :
           /\ d = Len(delivered) /\ d <= Len(sent) /\ BytesOK(p, n)
           /\ p = Start(d + 1) /\ p + n <= total /\ n <= Cap
           /\ inBuf = Bytes(p, n) /\ Len(inBuf) = n
           /\ wire = Bytes(p + n, total - (p + n)) /\ Len(wire) = total - (p + n)
<1>1. PICK p, n \in Nat : BytesOK(p, n)
  BY DEF RInv, OpenOK
<1>2. PICK d \in Nat : d = Len(delivered) /\ d <= Len(sent)
  BY DEF RInv, DeliveredIntact
<1>3. /\ p = Start(d + 1) /\ p + n <= total /\ n <= Cap
      /\ inBuf = Bytes(p, n) /\ wire = Bytes(p + n, total - (p + n))
  BY <1>1, <1>2 DEF BytesOK
<1>4. total - (p + n) \in Nat /\ p + n \in Nat
  BY <1>3 DEF RInv, SentOK
<1>5. Len(Bytes(p, n)) = n /\ Len(Bytes(p + n, total - (p + n))) = total - (p + n)
  BY <1>4, BytesSeq
<1> QED BY <1>1, <1>2, <1>3, <1>5

\* in_buf holds a header only if there is a message left to deliver.
LEMMA MessageAtHead ==
  ASSUME RInv, phase # "closed", Len(inBuf) >= Hdr
  PROVE  /\ Len(delivered) + 1 \in 1..Len(sent)
         /\ Start(Len(delivered) + 1) = sent[Len(delivered) + 1].start
<1> USE ReceiveConstants
<1>1. PICK p, n, d \in Nat : /\ d = Len(delivered) /\ d <= Len(sent) /\ p = Start(d + 1)
                             /\ p + n <= total /\ Len(inBuf) = n
  BY OpenFacts
<1>2. total \in Nat /\ left \in Nat /\ Len(sent) \in Nat
  BY DEF RInv, SentOK
<1>3. d # Len(sent)
  <2>1. SUFFICES ASSUME d = Len(sent) PROVE FALSE
    OBVIOUS
  <2>2. p = total + left
    BY <1>1, <1>2, <2>1 DEF Start
  <2> QED BY <1>1, <1>2, <2>2
<1> QED BY <1>1, <1>2, <1>3 DEF Start

\* Once the header is known, the length the inner loop works with is that of
\* the next message.
LEMMA ExpectedIsNext ==
  ASSUME RInv, phase = "parse", HeaderKnown
  PROVE  /\ Len(inBuf) >= Hdr /\ Len(delivered) + 1 \in 1..Len(sent)
         /\ Expected = {sent[Len(delivered) + 1].len}
<1> USE ReceiveConstants
<1>1. Len(inBuf) >= Hdr
  BY DEF HeaderKnown, RInv, OpenOK, LengthOK
<1>2. /\ Len(delivered) + 1 \in 1..Len(sent)
      /\ Start(Len(delivered) + 1) = sent[Len(delivered) + 1].start
  BY <1>1, MessageAtHead
<1>3. CASE expectedLen # 0
  BY <1>1, <1>2, <1>3 DEF RInv, OpenOK, LengthOK, Expected
<1>4. CASE expectedLen = 0
  <2>1. PICK p, n, d \in Nat : /\ d = Len(delivered) /\ p = Start(d + 1)
                               /\ inBuf = Bytes(p, n) /\ Len(inBuf) = n
    BY OpenFacts
  <2>j. PICK j \in 1..Len(sent) : j = d + 1 /\ p = sent[j].start
    BY <1>2, <2>1
  <2>2. \A k \in 1..Hdr : inBuf[k] = p + k
    BY <1>1, <2>1 DEF Bytes
  <2>3. DOMAIN sent = 1..Len(sent)
    BY DEF RInv, SentOK
  <2>4. ASSUME NEW m \in 1..Len(sent), \A k \in 1..Hdr : inBuf[k] = sent[m].start + k
        PROVE  m = j
    <3>1. inBuf[1] = p + 1 /\ inBuf[1] = sent[m].start + 1
      BY <2>2, <2>4
    <3>2. sent[m].start \in Nat
      BY SentFacts DEF RInv
    <3>3. sent[m].start = sent[j].start
      BY <2>j, <3>1, <3>2
    <3> QED BY <3>3, StartsDiffer DEF RInv
  <2>5. {m \in DOMAIN sent : \A k \in 1..Hdr : inBuf[k] = sent[m].start + k} = {j}
    BY <2>j, <2>2, <2>3, <2>4
  <2>6. Announced(inBuf) = {sent[j].len}
    BY <2>5 DEF Announced
  <2> QED BY <1>1, <1>2, <1>4, <2>1, <2>j, <2>6 DEF Expected
<1> QED BY <1>3, <1>4

-----------------------------------------------------------------------------
(* The steps of the peer *)

\* The peer writes the header of a new message.
LEMMA SendHeaderStep ==
  ASSUME RInv, NEW len \in Lens, SendHeader(len)
  PROVE  RInv'
<1> USE ReceiveConstants
<1>0. /\ left = 0 /\ phase # "closed"
      /\ sent' = Append(sent, [start |-> total, len |-> len])
      /\ wire' = wire \o Bytes(total, Hdr) /\ total' = total + Hdr /\ left' = len
      /\ UNCHANGED <<inBuf, expectedLen, delivered, phase, why>>
  BY DEF SendHeader
<1>n. PICK c \in Nat : c = Len(sent)
  BY DEF RInv, SentOK
<1>1. sent \in Seq(Sent) /\ total \in Nat /\ len \in Nat /\ \A m \in 1..c : sent[m] \in Sent
  BY <1>n DEF RInv, SentOK
<1>2. /\ sent' \in Seq(Sent) /\ Len(sent') = c + 1
      /\ \A m \in 1..c : sent'[m] = sent[m]
      /\ sent'[c + 1].start = total /\ sent'[c + 1].len = len
  <2>1. [start |-> total, len |-> len] \in Sent
    BY <1>1 DEF Sent
  <2> QED BY <1>0, <1>n, <1>1, <2>1
<1>3. /\ \A m \in 1..c : End(m)' = End(m) /\ Payload(m)' = Payload(m)
      /\ End(c + 1)' = total + Hdr + len
  BY <1>0, <1>1, <1>2 DEF End, Payload
<1>4. /\ \A m \in 1..(c + 1) : Start(m)' = Start(m)
      /\ Start(c + 2)' = total + Hdr + len
  <2>1. \A m \in 1..c : Start(m)' = Start(m)
    BY <1>n, <1>2 DEF Start
  <2>2. Start(c + 1)' = total /\ Start(c + 1) = total
    BY <1>0, <1>1, <1>n, <1>2 DEF Start
  <2> QED BY <1>0, <1>1, <1>n, <1>2, <2>1, <2>2 DEF Start
<1>5. SentOK'
  <2>1. total' \in Nat /\ left' \in Nat /\ total + Hdr <= total' /\ total <= total'
    BY <1>0, <1>1
  <2>2. Start(1)' = 0
    <3>1. 1 \in 1..(c + 1) /\ Start(1) = 0
      BY DEF RInv, SentOK
    <3> QED BY <1>4, <3>1
  <2>3. ASSUME NEW m \in 1..(c + 1)
        PROVE  Start(m + 1)' = End(m)' /\ sent'[m].start + Hdr <= total'
    <3>1. CASE m \in 1..c
      <4>1. Start(m + 1) = End(m) /\ sent[m].start + Hdr <= total /\ sent[m].start \in Nat
        BY <1>n, <3>1, SentFacts DEF RInv, SentOK
      <4>2. m + 1 \in 1..(c + 1)
        BY <3>1
      <4> QED BY SMTT(30), <1>1, <1>2, <1>3, <1>4, <2>1, <3>1, <4>1, <4>2
    <3>2. CASE m = c + 1
      <4>1. Start(m + 1)' = Start(c + 2)'
        BY <3>2
      <4> QED BY <1>2, <1>3, <1>4, <2>1, <3>2, <4>1
    <3> QED BY <3>1, <3>2
  <2>4. ASSUME NEW m \in 1..(c + 1), NEW k \in 1..(c + 1), m < k
        PROVE  End(m)' <= sent'[k].start
    <3>0. m \in 1..c
      BY <2>4
    <3>1. CASE k \in 1..c
      <4>1. End(m) <= sent[k].start
        BY <1>n, <2>4, <3>0, <3>1 DEF RInv, SentOK
      <4> QED BY <1>2, <1>3, <3>0, <3>1, <4>1
    <3>2. CASE k = c + 1
      <4>1. End(m) <= total
        <5>1. CASE m = c
          <6>1. Start(c + 1) = End(c) /\ Start(c + 1) = total + left
            BY <1>n, <3>0, <5>1 DEF RInv, SentOK, Start
          <6> QED BY <1>0, <1>1, <5>1, <6>1
        <5>2. CASE m < c
          <6>1. c \in 1..c /\ End(m) <= sent[c].start /\ sent[c].start < End(c)
            BY <1>n, <3>0, <5>2, SentFacts DEF RInv, SentOK
          <6>2. Start(c + 1) = End(c) /\ Start(c + 1) = total + left
            BY <1>n, <6>1 DEF RInv, SentOK, Start
          <6>3. End(m) \in Nat /\ End(c) \in Nat /\ sent[c].start \in Nat
            BY <1>n, <3>0, <6>1, SentFacts DEF RInv
          <6> QED BY <1>0, <1>1, <6>1, <6>2, <6>3
        <5> QED BY <3>0, <5>1, <5>2
      <4> QED BY <1>2, <1>3, <3>0, <3>2, <4>1
    <3> QED BY <3>1, <3>2
  <2> QED BY <1>2, <2>1, <2>2, <2>3, <2>4 DEF SentOK
<1>6. PICK p, n, d \in Nat :
        /\ d = Len(delivered) /\ d <= Len(sent)
        /\ p = Start(d + 1) /\ p + n <= total /\ n <= Cap
        /\ inBuf = Bytes(p, n) /\ Len(inBuf) = n
        /\ wire = Bytes(p + n, total - (p + n))
  BY <1>0, OpenFacts
<1>7. BytesOK(p, n)'
  <2>1. Start(d + 1)' = p /\ p + n <= total'
    BY SMTT(30), <1>0, <1>1, <1>4, <1>6, <1>n
  <2>2. wire' = Bytes(p + n, total' - (p + n))
    <3>1. PICK a, k \in Nat : a = p + n /\ k = total - (p + n) /\ total = a + k
      BY <1>1, <1>6
    <3>2. wire' = Bytes(a, k) \o Bytes(a + k, Hdr)
      BY <1>0, <1>6, <3>1
    <3>3. Bytes(a, k) \o Bytes(a + k, Hdr) = Bytes(a, k + Hdr)
      <4>1. a \in Nat /\ k \in Nat /\ Hdr \in Nat
        OBVIOUS
      <4> QED BY ONLY <4>1, BytesJoin
    <3>4. total' - (p + n) = k + Hdr /\ a = p + n
      BY <1>0, <1>1, <3>1
    <3> QED BY <3>2, <3>3, <3>4
  <2>3. Start(Len(delivered) + 1)' = p
    BY <1>0, <1>6, <2>1
  <2> QED BY <1>0, <1>6, <2>1, <2>2, <2>3 DEF BytesOK, Cap
<1>8. DeliveredIntact'
  <2>1. \A m \in 1..d : delivered[m] = Payload(m)'
    BY <1>3, <1>6, <1>n DEF RInv, DeliveredIntact
  <2> QED BY <1>0, <1>2, <1>6, <1>n, <2>1 DEF DeliveredIntact
<1>9. LengthOK' /\ NoneComplete'
  <2>1. Len(inBuf) >= Hdr => d + 1 \in 1..c /\ sent'[d + 1] = sent[d + 1]
    BY <1>0, <1>2, <1>6, <1>n, MessageAtHead
  <2>2. LengthOK'
    BY <1>0, <1>2, <1>6, <1>n, <2>1 DEF RInv, OpenOK, LengthOK
  <2>3. NoneComplete'
    BY <1>0, <1>6, <2>1 DEF RInv, OpenOK, NoneComplete
  <2> QED BY <2>2, <2>3
<1>10. why' = "open"
  BY <1>0 DEF RInv, OpenOK
<1> QED BY <1>0, <1>5, <1>7, <1>8, <1>9, <1>10 DEF RInv, OpenOK, ClosedForCause

\* The peer writes more of the payload.
LEMMA SendPayloadStep ==
  ASSUME RInv, NEW e \in 1..left, SendPayload(e)
  PROVE  RInv'
<1> USE ReceiveConstants
<1>0. /\ phase # "closed" /\ wire' = wire \o Bytes(total, e)
      /\ total' = total + e /\ left' = left - e
      /\ UNCHANGED <<sent, inBuf, expectedLen, delivered, phase, why>>
  BY DEF SendPayload
<1>1. total \in Nat /\ left \in Nat /\ e \in Nat /\ e <= left
  BY DEF RInv, SentOK
<1>2. total' \in Nat /\ left' \in Nat /\ total' + left' = total + left /\ total <= total'
  BY <1>0, <1>1
<1>3. \A m : End(m)' = End(m) /\ Start(m)' = Start(m) /\ Payload(m)' = Payload(m)
  BY <1>0, <1>2 DEF End, Start, Payload
<1>4. SentOK'
  <2>1. ASSUME NEW m \in 1..Len(sent) PROVE sent[m].start + Hdr <= total'
    <3>1. sent[m].start \in Nat /\ sent[m].start + Hdr <= total
      BY SentFacts DEF RInv, SentOK
    <3> QED BY <1>1, <1>2, <3>1
  <2> QED BY <1>0, <1>2, <1>3, <2>1 DEF RInv, SentOK
<1>5. PICK p, n, d \in Nat :
        /\ d = Len(delivered) /\ p = Start(d + 1) /\ p + n <= total /\ n <= Cap
        /\ inBuf = Bytes(p, n) /\ wire = Bytes(p + n, total - (p + n))
  BY <1>0, OpenFacts
<1>6. BytesOK(p, n)'
  <2>1. wire' = Bytes(p + n, total' - (p + n))
    <3>1. PICK a, k \in Nat : a = p + n /\ k = total - (p + n) /\ total = a + k
      BY <1>1, <1>5
    <3>2. wire' = Bytes(a, k) \o Bytes(a + k, e)
      BY <1>0, <1>5, <3>1
    <3>3. Bytes(a, k) \o Bytes(a + k, e) = Bytes(a, k + e)
      <4>1. a \in Nat /\ k \in Nat /\ e \in Nat
        BY <1>1
      <4> QED BY ONLY <4>1, BytesJoin
    <3>4. total' - (p + n) = k + e /\ a = p + n
      BY <1>0, <1>1, <3>1
    <3> QED BY <3>2, <3>3, <3>4
  <2>2. Start(Len(delivered) + 1)' = p /\ p + n <= total'
    BY <1>0, <1>1, <1>2, <1>3, <1>5
  <2> QED BY <1>0, <1>5, <2>1, <2>2 DEF BytesOK, Cap
<1>7. DeliveredIntact' /\ LengthOK' /\ NoneComplete' /\ why' = "open"
  BY <1>0, <1>3 DEF RInv, OpenOK, DeliveredIntact, LengthOK, NoneComplete
<1> QED BY <1>0, <1>4, <1>6, <1>7 DEF RInv, OpenOK, ClosedForCause

-----------------------------------------------------------------------------
(* The steps of the server *)

\* A step that changes no more than the phase, between waiting and reading.
LEMMA WaitReadStep ==
  ASSUME RInv, phase \in {"wait", "read"}, phase' \in {"wait", "read"},
         UNCHANGED <<sendVars, wire, inBuf, expectedLen, delivered, why>>
  PROVE  RInv'
<1>0. UNCHANGED <<sent, total, left, wire, inBuf, expectedLen, delivered, why>>
  BY DEF sendVars
<1>1. PICK p, n \in Nat : BytesOK(p, n)
  BY DEF RInv, OpenOK
<1>2. BytesOK(p, n)'
  BY <1>0, <1>1 DEF BytesOK, Start, Cap
<1>3. SentOK' /\ DeliveredIntact'
  BY <1>0 DEF RInv, SentOK, DeliveredIntact, Start, End, Payload
<1>4. LengthOK' /\ NoneComplete' /\ why' = "open"
  BY <1>0 DEF RInv, OpenOK, LengthOK, NoneComplete
<1> QED BY <1>0, <1>2, <1>3, <1>4 DEF RInv, OpenOK, ClosedForCause

\* SSL_read moves bytes from the wire to in_buf.
LEMMA ReadSomeStep ==
  ASSUME RInv, NEW k \in 1..Cap, ReadSome(k)
  PROVE  RInv'
<1> USE ReceiveConstants
<1>0. /\ phase = "read" /\ phase' = "parse" /\ k <= Len(wire) /\ k <= Cap - Len(inBuf)
      /\ inBuf' = inBuf \o SubSeq(wire, 1, k) /\ wire' = SubSeq(wire, k + 1, Len(wire))
      /\ UNCHANGED <<sent, total, left, expectedLen, delivered, why>>
  BY DEF ReadSome, sendVars
<1>1. PICK p, n, d \in Nat :
        /\ d = Len(delivered) /\ p = Start(d + 1) /\ p + n <= total /\ n <= Cap
        /\ inBuf = Bytes(p, n) /\ Len(inBuf) = n
        /\ wire = Bytes(p + n, total - (p + n)) /\ Len(wire) = total - (p + n)
  BY <1>0, OpenFacts
<1>2. total \in Nat /\ Cap \in Nat /\ k \in Nat
  BY DEF RInv, SentOK, Cap
<1>3. PICK a, w \in Nat : a = p + n /\ w = total - (p + n) /\ total = a + w /\ k <= w
  BY <1>0, <1>1, <1>2
<1>4. inBuf' = Bytes(p, n + k)
  <2>1. SubSeq(Bytes(a, w), 1, k) = Bytes(a + (1 - 1), k - (1 - 1))
    <3>1. 1 \in 1..(w + 1) /\ k \in 0..w /\ 1 <= k + 1
      BY <1>2, <1>3
    <3> QED BY <3>1, BytesSub
  <2>2. a + (1 - 1) = p + n /\ k - (1 - 1) = k
    BY <1>2, <1>3
  <2>3. inBuf' = Bytes(p, n) \o Bytes(p + n, k)
    BY <1>0, <1>1, <1>3, <2>1, <2>2
  <2>4. Bytes(p, n) \o Bytes(p + n, k) = Bytes(p, n + k)
    <3>1. p \in Nat /\ n \in Nat /\ k \in Nat
      BY <1>2
    <3> QED BY ONLY <3>1, BytesJoin
  <2> QED BY <2>3, <2>4
<1>5. wire' = Bytes(p + (n + k), total - (p + (n + k)))
  <2>1. SubSeq(Bytes(a, w), k + 1, w) = Bytes(a + ((k + 1) - 1), w - ((k + 1) - 1))
    <3>1. k + 1 \in 1..(w + 1) /\ w \in 0..w /\ k + 1 <= w + 1
      BY <1>2, <1>3
    <3> QED BY <3>1, BytesSub
  <2>2. a + ((k + 1) - 1) = p + (n + k) /\ w - ((k + 1) - 1) = total - (p + (n + k))
    BY <1>2, <1>3
  <2> QED BY <1>0, <1>1, <1>3, <2>1, <2>2
<1>6. n + k \in Nat /\ n + k <= Cap /\ p + (n + k) <= total
  <2>1. k <= Cap - n
    BY <1>0, <1>1
  <2> QED BY <1>2, <1>3, <2>1
<1>7. Len(inBuf') = n + k
  BY <1>4, <1>6, BytesSeq
<1>8. BytesOK(p, n + k)'
  <2>1. Start(Len(delivered) + 1)' = p
    BY <1>0, <1>1 DEF Start
  <2> QED BY <1>0, <1>4, <1>5, <1>6, <2>1 DEF BytesOK, Cap
<1>9. SentOK' /\ DeliveredIntact'
  BY <1>0 DEF RInv, SentOK, DeliveredIntact, Start, End, Payload
<1>10. LengthOK' /\ NoneComplete' /\ why' = "open"
  <2>1. Len(inBuf) >= Hdr => Len(inBuf') >= Hdr
    BY <1>1, <1>2, <1>7
  <2> QED BY <1>0, <2>1 DEF RInv, OpenOK, LengthOK, NoneComplete
<1> QED BY <1>0, <1>6, <1>8, <1>9, <1>10 DEF RInv, OpenOK, ClosedForCause

\* The server closes the client for a cause.
LEMMA CloseStep ==
  ASSUME RInv, NEW reason, Close(reason), UNCHANGED <<sendVars, wire, delivered>>,
         reason \in {"oversize", "full"} => Len(delivered) + 1 \in 1..Len(sent),
         reason = "oversize" => sent[Len(delivered) + 1].len > MaxJson,
         reason = "full" => sent[Len(delivered) + 1].len = 0
  PROVE  RInv'
<1>0. UNCHANGED <<sent, total, left, delivered>> /\ phase' = "closed" /\ why' = reason
      /\ expectedLen' = 0
  BY DEF sendVars, Close
<1>1. SentOK' /\ DeliveredIntact'
  BY <1>0 DEF RInv, SentOK, DeliveredIntact, Start, End, Payload
<1>2. ClosedForCause'
  <2>1. Len(delivered) \in Nat /\ Len(sent) \in Nat
    BY DEF RInv, SentOK
  <2>2. Len(delivered) + 1 \in 1..Len(sent) => Len(delivered) < Len(sent)
    BY <2>1
  <2> QED BY <1>0, <2>2 DEF ClosedForCause
<1> QED BY <1>0, <1>1, <1>2 DEF RInv, OpenOK

\* in_buf is full outside the inner loop only behind an empty message.
LEMMA ReadFullStep ==
  ASSUME RInv, ReadFull
  PROVE  RInv'
<1> USE ReceiveConstants
<1>0. /\ phase = "read" /\ Len(inBuf) = Cap /\ Close("full")
      /\ UNCHANGED <<sendVars, wire, delivered>>
  BY DEF ReadFull
<1>1. Len(inBuf) >= Hdr /\ Cap = Hdr + MaxJson
  BY <1>0 DEF Cap
<1>2. Len(delivered) + 1 \in 1..Len(sent)
  BY <1>0, <1>1, MessageAtHead
<1>3. sent[Len(delivered) + 1].len \in Nat
  BY <1>2, SentFacts DEF RInv
<1>4. sent[Len(delivered) + 1].len = 0
  BY <1>0, <1>1, <1>3 DEF RInv, OpenOK, NoneComplete
<1> QED BY <1>0, <1>2, <1>4, CloseStep

\* The turns of the inner loop that deliver nothing.
LEMMA ParseOtherStep ==
  ASSUME RInv, ParseNoHeader \/ ParseRefuses \/ ParseNoMemory \/ ParseIncomplete
  PROVE  RInv'
<1> USE ReceiveConstants
<1>1. CASE ParseRefuses
  <2>1. /\ phase = "parse" /\ HeaderKnown /\ \E e \in Expected : e > MaxJson
        /\ Close("oversize") /\ UNCHANGED <<sendVars, wire, delivered>>
    BY <1>1 DEF ParseRefuses
  <2>2. Len(delivered) + 1 \in 1..Len(sent) /\ sent[Len(delivered) + 1].len > MaxJson
    BY <2>1, ExpectedIsNext
  <2> QED BY <2>1, <2>2, CloseStep
<1>2. CASE ParseNoMemory
  BY <1>2, CloseStep DEF ParseNoMemory
<1>3. CASE ParseNoHeader \/ ParseIncomplete
  <2>0. /\ phase = "parse" /\ phase' = "read"
        /\ UNCHANGED <<sent, total, left, wire, inBuf, delivered, why>>
    BY <1>3 DEF ParseNoHeader, ParseIncomplete, sendVars
  <2>1. PICK p, n \in Nat : BytesOK(p, n)
    BY <2>0 DEF RInv, OpenOK
  <2>2. BytesOK(p, n)'
    BY <2>0, <2>1 DEF BytesOK, Start, Cap
  <2>3. SentOK' /\ DeliveredIntact'
    BY <2>0 DEF RInv, SentOK, DeliveredIntact, Start, End, Payload
  <2>4. expectedLen' \in Nat /\ LengthOK' /\ NoneComplete'
    <3>1. CASE ParseNoHeader
      <4>1. expectedLen' = expectedLen /\ expectedLen = 0 /\ ~(Len(inBuf) >= Hdr)
        BY <3>1 DEF ParseNoHeader, HeaderKnown
      <4> QED BY <2>0, <4>1 DEF LengthOK, NoneComplete
    <3>2. CASE ParseIncomplete
      <4>1. PICK e \in Expected : /\ e <= MaxJson
                                  /\ e = 0 \/ Len(inBuf) < Hdr + e
                                  /\ expectedLen' = e
        BY <3>2 DEF ParseIncomplete
      <4>2. /\ Len(inBuf) >= Hdr /\ Len(delivered) + 1 \in 1..Len(sent)
            /\ e = sent[Len(delivered) + 1].len
        BY <2>0, <3>2, <4>1, ExpectedIsNext DEF ParseIncomplete
      <4>3. e \in Nat /\ Len(delivered) \in Nat /\ Len(sent) \in Nat
        BY <4>2, SentFacts DEF RInv
      <4>4. Len(delivered) < Len(sent) /\ e <= MaxJson
        BY <4>1, <4>2, <4>3
      <4>5. LengthOK'
        BY <2>0, <4>1, <4>2, <4>4 DEF LengthOK
      <4>6. NoneComplete'
        BY <2>0, <4>1, <4>2, <4>4 DEF NoneComplete
      <4> QED BY <4>1, <4>3, <4>5, <4>6
    <3> QED BY <1>3, <3>1, <3>2
  <2>5. why' = "open" /\ delivered' \in Seq(Seq(Nat))
    BY <2>0 DEF RInv, OpenOK
  <2> QED BY <2>0, <2>2, <2>3, <2>4, <2>5 DEF RInv, OpenOK, ClosedForCause
<1> QED BY <1>1, <1>2, <1>3

\* A complete message is cut out of in_buf and delivered.
LEMMA ParseDeliversStep ==
  ASSUME RInv, ParseDelivers
  PROVE  /\ RInv'
         /\ Len(delivered) + 1 \in 1..Len(sent) /\ Len(delivered') = Len(delivered) + 1
<1> USE ReceiveConstants
<1>0. /\ phase = "parse" /\ HeaderKnown /\ UNCHANGED <<sent, total, left, wire, phase, why>>
      /\ expectedLen' = 0
  BY DEF ParseDelivers, sendVars
<1>1. PICK e \in Expected :
        /\ e <= MaxJson /\ e > 0 /\ Len(inBuf) >= Hdr + e
        /\ delivered' = Append(delivered, SubSeq(inBuf, Hdr + 1, Hdr + e))
        /\ inBuf' = SubSeq(inBuf, Hdr + e + 1, Len(inBuf))
  BY DEF ParseDelivers
<1>2. /\ Len(delivered) + 1 \in 1..Len(sent) /\ e = sent[Len(delivered) + 1].len
      /\ Len(inBuf) >= Hdr
  BY <1>0, <1>1, ExpectedIsNext
<1>3. PICK p, n, d \in Nat :
        /\ d = Len(delivered) /\ p = Start(d + 1) /\ p + n <= total /\ n <= Cap
        /\ inBuf = Bytes(p, n) /\ Len(inBuf) = n
        /\ wire = Bytes(p + n, total - (p + n))
  BY <1>0, OpenFacts
<1>4. /\ e \in Nat /\ d + 1 \in 1..Len(sent) /\ p = sent[d + 1].start /\ e = sent[d + 1].len
      /\ End(d + 1) = p + Hdr + e /\ Start(d + 2) = p + Hdr + e
  <2>1. d + 1 \in 1..Len(sent) /\ p = sent[d + 1].start /\ e = sent[d + 1].len
    BY <1>0, <1>2, <1>3, MessageAtHead
  <2>2. e \in Nat
    BY <2>1, SentFacts DEF RInv
  <2>3. End(d + 1) = p + Hdr + e
    BY <2>1, <2>2 DEF End
  <2>4. Start((d + 1) + 1) = End(d + 1)
    BY <2>1 DEF RInv, SentOK
  <2>5. Start((d + 1) + 1) = Start(d + 2)
    OBVIOUS
  <2> QED BY <2>1, <2>2, <2>3, <2>4, <2>5
<1>m. n >= Hdr + e
  BY <1>1, <1>3
<1>5. SubSeq(inBuf, Hdr + 1, Hdr + e) = Bytes(p + Hdr, e)
  <2>1. Hdr + 1 \in 1..(n + 1) /\ Hdr + e \in 0..n /\ Hdr + 1 <= (Hdr + e) + 1
    <3>1. e \in Nat
      BY <1>4
    <3>2. Hdr \in Nat /\ Hdr + e <= n
      BY <1>m
    <3> QED BY <3>1, <3>2
  <2>2. SubSeq(Bytes(p, n), Hdr + 1, Hdr + e)
          = Bytes(p + ((Hdr + 1) - 1), (Hdr + e) - ((Hdr + 1) - 1))
    BY <2>1, BytesSub
  <2>3. (Hdr + 1) - 1 = Hdr /\ (Hdr + e) - Hdr = e
    BY <1>4
  <2> QED BY <1>3, <2>2, <2>3
<1>6. PICK f, r \in Nat : f = Hdr + e /\ r = n - f /\ f <= n
  BY <1>4, <1>m
<1>7. inBuf' = Bytes(p + f, r)
  <2>1. f + 1 \in 1..(n + 1) /\ n \in 0..n /\ f + 1 <= n + 1
    BY <1>6
  <2>2. SubSeq(Bytes(p, n), f + 1, n) = Bytes(p + ((f + 1) - 1), n - ((f + 1) - 1))
    BY <2>1, BytesSub
  <2>3. (f + 1) - 1 = f
    OBVIOUS
  <2> QED BY <1>1, <1>3, <1>6, <2>2, <2>3
<1>8. /\ delivered' \in Seq(Seq(Nat)) /\ Len(delivered') = d + 1
      /\ delivered'[d + 1] = Payload(d + 1)
      /\ \A m \in 1..d : delivered'[m] = delivered[m]
  <2>1. p + Hdr \in Nat
    OBVIOUS
  <2>2. Bytes(p + Hdr, e) \in Seq(Nat) /\ Payload(d + 1) = Bytes(p + Hdr, e)
    BY <1>4, <2>1, BytesSeq DEF Payload
  <2>3. delivered \in Seq(Seq(Nat)) /\ delivered' = Append(delivered, Bytes(p + Hdr, e))
    BY <1>1, <1>5 DEF RInv
  <2> QED BY <1>3, <2>2, <2>3
<1>9. BytesOK(p + f, r)'
  <2>1. Start(Len(delivered) + 1)' = p + f
    <3>1. Len(delivered') + 1 = d + 2
      BY <1>8
    <3>2. Start(d + 2)' = Start(d + 2)
      BY <1>0 DEF Start
    <3>3. Start(Len(delivered) + 1)' = Start(d + 2)'
      BY <3>1 DEF Start
    <3>4. p + Hdr + e = p + f
      BY SMTT(30), <1>4, <1>6
    <3> QED BY <1>4, <3>2, <3>3, <3>4
  <2>2. (p + f) + r = p + n /\ r <= Cap
    BY <1>3, <1>6 DEF Cap
  <2>3. wire' = Bytes((p + f) + r, total' - ((p + f) + r))
    BY <1>0, <1>3, <2>2
  <2>4. (p + f) + r <= total'
    BY <1>0, <1>3, <2>2
  <2> QED BY <1>7, <2>1, <2>2, <2>3, <2>4 DEF BytesOK, Cap
<1>10. SentOK'
  BY <1>0 DEF RInv, SentOK, Start, End
<1>11. DeliveredIntact'
  <2>1. ASSUME NEW m \in 1..(d + 1) PROVE delivered'[m] = Payload(m)
    <3>1. CASE m = d + 1
      BY <1>8, <3>1
    <3>2. CASE m \in 1..d
      BY <1>3, <1>8, <3>2 DEF RInv, DeliveredIntact
    <3> QED BY <3>1, <3>2
  <2>2. d + 1 <= Len(sent')
    BY <1>0, <1>4
  <2>3. \A m : Payload(m)' = Payload(m)
    BY <1>0 DEF Payload
  <2> QED BY <1>8, <2>1, <2>2, <2>3 DEF DeliveredIntact
<1>12. LengthOK' /\ NoneComplete' /\ why' = "open" /\ p + f \in Nat
  BY <1>0 DEF RInv, OpenOK, LengthOK, NoneComplete
<1>13. RInv'
  BY <1>0, <1>8, <1>9, <1>10, <1>11, <1>12 DEF RInv, OpenOK, ClosedForCause
<1> QED BY <1>2, <1>3, <1>8, <1>13

-----------------------------------------------------------------------------
(* The theorems about tlsv2_json_try_receive *)

\* The invariant holds before the first byte.
LEMMA ReceiveInit == Init => RInv
<1> SUFFICES ASSUME Init PROVE RInv
  OBVIOUS
<1> USE ReceiveConstants
<1>0. /\ sent = <<>> /\ total = 0 /\ left = 0 /\ wire = <<>> /\ inBuf = <<>>
      /\ expectedLen = 0 /\ delivered = <<>> /\ phase = "wait" /\ why = "open"
  BY DEF Init
<1>1. Len(sent) = 0 /\ Len(delivered) = 0 /\ Len(inBuf) = 0
  BY <1>0
<1>2. SentOK
  <2>1. sent \in Seq(Sent) /\ Start(1) = 0
    BY <1>0, <1>1 DEF Start
  <2> QED BY <1>0, <1>1, <2>1 DEF SentOK
<1>3. Bytes(0, 0) = <<>>
  <2>1. Bytes(0, 0) \in Seq(Nat) /\ Len(Bytes(0, 0)) = 0
    BY BytesSeq
  <2> QED BY <2>1, EmptySeq
<1>4. BytesOK(0, 0)
  <2>1. Start(Len(delivered) + 1) = 0
    BY <1>1, <1>2 DEF SentOK
  <2>2. 0 + 0 = 0 /\ 0 - 0 = 0 /\ 0 <= Cap
    BY DEF Cap
  <2> QED BY <1>0, <1>3, <2>1, <2>2 DEF BytesOK
<1>5. delivered \in Seq(Seq(Nat)) /\ DeliveredIntact /\ ClosedForCause
  BY <1>0, <1>1 DEF DeliveredIntact, ClosedForCause
<1>6. LengthOK /\ NoneComplete
  BY <1>0, <1>1 DEF LengthOK, NoneComplete
<1> QED BY <1>0, <1>2, <1>4, <1>5, <1>6 DEF RInv, OpenOK

\* Every step keeps the invariant.
LEMMA ReceiveNext == RInv /\ [Next]_vars => RInv'
<1> SUFFICES ASSUME RInv, [Next]_vars PROVE RInv'
  OBVIOUS
<1>1. CASE UNCHANGED vars
  <2>0. UNCHANGED <<sent, total, left, wire, inBuf, expectedLen, delivered, phase, why>>
    BY <1>1 DEF vars, sendVars
  <2>1. SentOK' /\ DeliveredIntact' /\ ClosedForCause'
    BY <2>0 DEF RInv, SentOK, DeliveredIntact, ClosedForCause, Start, End, Payload
  <2>2. ASSUME NEW p \in Nat, NEW n \in Nat, BytesOK(p, n) PROVE BytesOK(p, n)'
    BY <2>0, <2>2 DEF BytesOK, Start, Cap
  <2>3. OpenOK'
    BY <2>0, <2>2 DEF RInv, OpenOK, LengthOK, NoneComplete
  <2> QED BY <2>0, <2>1, <2>3 DEF RInv
<1>2. CASE \E len \in Lens : SendHeader(len)
  BY <1>2, SendHeaderStep
<1>3. CASE \E n \in 1..left : SendPayload(n)
  BY <1>3, SendPayloadStep
<1>4. CASE Polled \/ ReadWants
  BY <1>4, WaitReadStep DEF Polled, ReadWants
<1>5. CASE \E n \in 1..Cap : ReadSome(n)
  BY <1>5, ReadSomeStep
<1>6. CASE ReadFull
  BY <1>6, ReadFullStep
<1>7. CASE ParseNoHeader \/ ParseRefuses \/ ParseNoMemory \/ ParseIncomplete
  BY <1>7, ParseOtherStep
<1>8. CASE ParseDelivers
  BY <1>8, ParseDeliversStep
<1> QED
  BY <1>1, <1>2, <1>3, <1>4, <1>5, <1>6, <1>7, <1>8 DEF Next, Receive

\* The inductive invariant of the request direction by itself.
THEOREM ReceiveInductive == Spec => []RInv
BY ReceiveInit, ReceiveNext, PTL DEF Spec

\* However TLS cuts the stream into pieces, and wherever in_buf wraps up a
\* message, on_json_received gets exactly the messages sent, in order.
THEOREM RequestsIntact == Spec => []DeliveredIntact
<1>1. RInv => DeliveredIntact
  BY DEF RInv
<1> QED BY <1>1, ReceiveInductive, PTL

\* tlsv2_json_try_receive gives a client up for its framing only because of the
\* next message: a length above the limit, or an empty one in front of a full
\* in_buf.
THEOREM ClosesForCause == Spec => []ClosedForCause
<1>1. RInv => ClosedForCause
  BY DEF RInv
<1> QED BY <1>1, ReceiveInductive, PTL

-----------------------------------------------------------------------------
(* The exchange implements both directions *)

RP == INSTANCE TlsV2ReplyProofs WITH MaxReplies <- MaxCount

\* What TlsV2Reply assumes of its constants.
LEMMA ReplyAssumption ==
    /\ Hdr \in Nat \ {0} /\ MaxJson \in Nat \ {0}
    /\ ReplyLens \subseteq Nat
    /\ RecMax \in Nat /\ RecMax >= Hdr
    /\ MaxLen \in Nat /\ MaxLen <= MaxJson + 1
    /\ Wrap \in Nat /\ 2 * (MaxJson + 1) < Wrap
    /\ Texts \subseteq 0..(Wrap - 1)
    /\ MaxCount \in Nat
BY ReceiveConstants, ExchangeConstants

\* Every step of the exchange is, for the requests, a step of TlsV2Receive or
\* none at all.
THEOREM ImplementsReceive == ExchangeSpec => Spec
<1>1. ExchangeInit => Init
  BY DEF ExchangeInit
<1>2. [ExchangeNext]_exchangeVars => [Next]_vars
  <2> SUFFICES ASSUME [ExchangeNext]_exchangeVars PROVE [Next]_vars
    OBVIOUS
  <2>1. CASE UNCHANGED exchangeVars
    BY <2>1 DEF exchangeVars
  <2>2. CASE ClientSends \/ ClientWrites
    BY <2>2 DEF ClientSends, ClientWrites, Next
  <2>3. CASE ClientReceives \/ ServerFlushes
    BY <2>3 DEF ClientReceives, ServerFlushes
  <2>4. CASE ServerReads
    BY <2>4 DEF ServerReads, Next, Receive
  <2>5. CASE ServerCloses
    BY <2>5 DEF ServerCloses, Next, Receive
  <2>6. CASE ServerAnswers \/ ServerIgnores
    BY <2>6 DEF ServerAnswers, ServerIgnores, Next, Receive
  <2> QED BY <2>1, <2>2, <2>3, <2>4, <2>5, <2>6 DEF ExchangeNext
<1> QED BY <1>1, <1>2, PTL DEF ExchangeSpec, Spec

\* ... and for the replies a step of TlsV2Reply or none.
THEOREM ImplementsReply == ExchangeSpec => Rep!Spec
<1>1. ExchangeInit => Rep!Init
  BY DEF ExchangeInit
<1>2. [ExchangeNext]_exchangeVars => [Rep!Next]_(Rep!vars)
  <2> SUFFICES ASSUME [ExchangeNext]_exchangeVars PROVE [Rep!Next]_(Rep!vars)
    OBVIOUS
  <2>0. UNCHANGED repVars => UNCHANGED Rep!vars
    BY DEF repVars, Rep!vars, Rep!outVars, Rep!clientVars
  <2>1. CASE UNCHANGED exchangeVars
    BY <2>0, <2>1 DEF exchangeVars
  <2>2. CASE ClientSends \/ ClientWrites \/ ServerReads \/ ServerIgnores
    BY <2>0, <2>2 DEF ClientSends, ClientWrites, ServerReads, ServerIgnores
  <2>3. CASE ClientReceives \/ ServerFlushes \/ ServerCloses
    BY <2>3 DEF ClientReceives, ServerFlushes, ServerCloses, Rep!Next
  <2>4. CASE ServerAnswers
    BY <2>0, <2>4 DEF ServerAnswers, Rep!Next
  <2> QED BY <2>1, <2>2, <2>3, <2>4 DEF ExchangeNext
<1> QED BY <1>1, <1>2, PTL DEF ExchangeSpec, Rep!Spec

\* The requests are delivered intact in the exchange.
THEOREM ExchangeDelivers == ExchangeSpec => [](DeliveredIntact /\ ClosedForCause)
BY ImplementsReceive, RequestsIntact, ClosesForCause, PTL

\* Rep and RP are the same specification: the proofs about TlsV2Reply are about
\* the exchange's replies.
LEMMA SameReply == Rep!Spec => RP!Spec
<1>1. Rep!Init => RP!Init
  BY DEF Rep!Init, RP!Init
<1>2. [Rep!Next]_(Rep!vars) => [RP!Next]_(RP!vars)
  <2> SUFFICES ASSUME [Rep!Next]_(Rep!vars) PROVE [RP!Next]_(RP!vars)
    OBVIOUS
  <2> USE DEF Rep!outVars, RP!outVars, Rep!clientVars, RP!clientVars
  <2>0. CASE UNCHANGED Rep!vars
    BY <2>0 DEF Rep!vars, RP!vars
  <2>1. ASSUME NEW len \in ReplyLens, Rep!QueueSend(len) PROVE RP!QueueSend(len)
    BY <2>1 DEF Rep!QueueSend, RP!QueueSend, Rep!Accepts, RP!Accepts,
       Rep!Offsets, RP!Offsets
  <2>2. CASE Rep!Flush
    <3>1. RP!Flush
      BY <2>2 DEF Rep!Flush, RP!Flush
    <3> QED BY <3>1 DEF RP!Next
  <2>3. CASE Rep!Break
    <3>1. RP!Break
      BY <2>3 DEF Rep!Break, RP!Break
    <3> QED BY <3>1 DEF RP!Next
  <2>4. CASE Rep!Recv
    <3>1. ASSUME NEW n PROVE /\ Rep!Piece(n) = RP!Piece(n)
                             /\ Rep!RecordsAfter(n) = RP!RecordsAfter(n)
      BY DEF Rep!Piece, RP!Piece, Rep!RecordsAfter, RP!RecordsAfter,
         Rep!Taken, RP!Taken
    <3>2. ASSUME NEW b PROVE Rep!Decoded(b) = RP!Decoded(b)
      BY DEF Rep!Decoded, RP!Decoded, Rep!Offsets, RP!Offsets
    <3>3. ASSUME NEW n PROVE Rep!TooLong(n) = RP!TooLong(n)
      BY DEF Rep!TooLong, RP!TooLong
    <3>4. Rep!RecvCall => RP!RecvCall
      BY DEF Rep!RecvCall, RP!RecvCall
    <3>5. Rep!RecvHeader => RP!RecvHeader
      BY <3>1, <3>2, <3>3 DEF Rep!RecvHeader, RP!RecvHeader, Rep!Return, RP!Return
    <3>a. Rep!Asked = RP!Asked
      BY DEF Rep!Asked, RP!Asked, Rep!AsInt, RP!AsInt
    <3>6. Rep!RecvPayload => RP!RecvPayload
      BY <3>1, <3>a DEF Rep!RecvPayload, RP!RecvPayload
    <3>r. Rep!RecvRefused => RP!RecvRefused
      BY <3>a DEF Rep!RecvRefused, RP!RecvRefused, Rep!Return, RP!Return
    <3>7. Rep!RecvReturns => RP!RecvReturns
      BY DEF Rep!RecvReturns, RP!RecvReturns, Rep!Return, RP!Return
    <3>8. Rep!RecvFails => RP!RecvFails
      BY DEF Rep!RecvFails, RP!RecvFails, Rep!Return, RP!Return
    <3> QED BY <2>4, <3>4, <3>5, <3>6, <3>r, <3>7, <3>8 DEF Rep!Recv, RP!Recv, RP!Next
  <2> QED BY <2>0, <2>1, <2>2, <2>3, <2>4 DEF Rep!Next, RP!Next
<1> QED BY <1>1, <1>2, PTL DEF Rep!Spec, RP!Spec

\* In the exchange, a client whose buffer is large enough for the replies gets
\* every accepted reply, complete and in order, also when it sends ahead and
\* some replies are refused.
THEOREM ExchangeRepliesIntact ==
  ASSUME \A len \in ReplyLens : len + 1 <= MaxLen
  PROVE  ExchangeSpec => []RepliesIntact
<1>1. RP!EveryReplyFits
  BY DEF RP!EveryReplyFits
<1>2. RP!Spec => []RP!RepliesIntact
  BY <1>1, ReplyAssumption, RP!FittingRepliesIntact
<1>3. RP!RepliesIntact => RepliesIntact
  BY DEF RP!RepliesIntact, RepliesIntact, Rep!RepliesIntact, RP!Reply, Rep!Reply,
     RP!Offsets, Rep!Offsets
<1> QED BY <1>2, <1>3, SameReply, ImplementsReply, PTL

-----------------------------------------------------------------------------
(* Lock step *)

\* The delivered requests that the application answers.
Answerable == {m \in DOMAIN delivered : sent[m].len \in Known}

\* A client in lock step sends at most one request ahead of the replies it has
\* got, and every answerable request was answered: a request can only be handed
\* over when the client has got every reply before it, and then nothing is left
\* in the out buffer.
LInv ==
    /\ phase # "closed" => ~lost
    /\ window = 1 =>
        /\ refused = 0 /\ Len(sent) <= Len(got) + 1
        /\ Len(queued) = Cardinality(Answerable)

\* No more replies were accepted than requests delivered.
LEMMA AnswerableFacts ==
  ASSUME RInv
  PROVE  /\ IsFiniteSet(Answerable)
         /\ Cardinality(Answerable) \in Nat /\ Cardinality(Answerable) <= Len(delivered)
<1> DEFINE d == Len(delivered)
<1>1. d \in Nat /\ DOMAIN delivered = 1..d
  BY DEF RInv
<1>2. IsFiniteSet(1..d) /\ Cardinality(1..d) = d
  <2>1. IsFiniteSet(1..d) /\ Cardinality(1..d) = IF 1 > d THEN 0 ELSE (d - 1) + 1
    BY <1>1, FS_Interval
  <2> QED BY <1>1, <2>1
<1>3. Answerable \subseteq 1..d
  BY <1>1 DEF Answerable
<1>4. IsFiniteSet(Answerable) /\ Cardinality(Answerable) <= Cardinality(1..d)
  BY <1>2, <1>3, FS_Subset
<1>5. Cardinality(Answerable) \in Nat
  BY <1>4, FS_CardinalityType
<1> QED BY <1>2, <1>4, <1>5

\* The client's steps keep the invariant.
LEMMA ClientKeepsStep ==
  ASSUME RInv, RP!IInv, LInv, ClientSends \/ ClientWrites \/ ClientReceives
  PROVE  LInv'
<1>t. /\ sent \in Seq(Sent) /\ delivered \in Seq(Seq(Nat)) /\ got \in Seq(Seq(Nat))
      /\ Len(delivered) <= Len(sent)
  BY DEF RInv, SentOK, DeliveredIntact, RP!IInv, RP!Types
<1>1. CASE ClientSends
  <2>1. PICK len \in Lens : SendHeader(len)
    BY <1>1 DEF ClientSends
  <2>2. /\ UNCHANGED <<delivered, phase, lost, window, refused, queued, got>>
        /\ sent' = Append(sent, [start |-> total, len |-> len])
        /\ Len(sent) - Len(got) < window
    BY <1>1, <2>1 DEF ClientSends, SendHeader, repVars
  <2>3. Len(sent') = Len(sent) + 1 /\ \A m \in 1..Len(sent) : sent'[m] = sent[m]
    BY <1>t, <2>2
  <2>4. Answerable' = Answerable
    BY <1>t, <2>2, <2>3 DEF Answerable
  <2>5. window = 1 => Len(sent') <= Len(got) + 1
    BY <1>t, <2>2, <2>3
  <2> QED BY <2>2, <2>4, <2>5 DEF LInv
<1>2. CASE ClientWrites
  <2>1. UNCHANGED <<sent, delivered, phase, lost, window, refused, queued, got>>
    BY <1>2 DEF ClientWrites, SendPayload, repVars
  <2> QED BY <2>1 DEF LInv, Answerable
<1>3. CASE ClientReceives
  <2>1. UNCHANGED <<sent, delivered, phase, lost, window, refused, queued>>
    BY <1>3 DEF ClientReceives, vars, sendVars, Rep!Recv, Rep!RecvCall, Rep!RecvHeader,
       Rep!RecvPayload, Rep!RecvRefused, Rep!RecvReturns, Rep!RecvFails, Rep!outVars
  <2>2. got' = got \/ got' = Append(got, cbuf)
    BY <1>3 DEF ClientReceives, Rep!Recv, Rep!RecvCall, Rep!RecvHeader,
       Rep!RecvPayload, Rep!RecvRefused, Rep!RecvReturns, Rep!RecvFails
  <2>3. Len(got') \in Nat /\ Len(got) \in Nat /\ Len(got') >= Len(got)
    <3>1. CASE got' = got
      BY <1>t, <3>1
    <3>2. CASE got' = Append(got, cbuf)
      <4>1. got \in Seq(Seq(Nat) \cup {cbuf}) /\ cbuf \in Seq(Nat) \cup {cbuf}
        BY <1>t
      <4> QED BY <3>2, <4>1, AppendProperties
    <3> QED BY <2>2, <3>1, <3>2
  <2>4. Answerable' = Answerable
    BY <2>1 DEF Answerable
  <2>5. Len(sent) \in Nat
    BY <1>t
  <2> QED BY <2>1, <2>3, <2>4, <2>5 DEF LInv
<1> QED BY <1>1, <1>2, <1>3

\* A request handed over to a client in lock step finds the out buffer empty.
LEMMA OutBufferFree ==
  ASSUME RP!EveryReplyFits, RInv, RP!IInv, RP!RepliesIntact, LInv, ParseDelivers, window = 1
  PROVE  /\ Len(outBuf) = outSent
         /\ Len(delivered) + 1 <= Len(got) + 1
<1>1. Len(delivered) + 1 \in 1..Len(sent)
  BY ParseDeliversStep
<1>2. Len(sent) <= Len(got) + 1 /\ Len(queued) = Cardinality(Answerable)
  BY DEF LInv
<1>3. Cardinality(Answerable) \in Nat /\ Cardinality(Answerable) <= Len(delivered)
  BY AnswerableFacts
<1>4. Len(got) <= Len(queued)
  BY DEF RP!RepliesIntact
<1>5. Len(delivered) \in Nat /\ Len(sent) \in Nat /\ Len(got) \in Nat
  BY DEF RInv, SentOK, RP!IInv, RP!Types
<1>6. Len(got) = Len(queued)
  BY <1>1, <1>2, <1>3, <1>4, <1>5
<1>7. ~lost
  BY DEF LInv, ParseDelivers
<1> QED BY <1>1, <1>2, <1>5, <1>6, <1>7, ReplyAssumption, RP!NothingPending

\* The delivery of a request keeps the invariant, answered or not.
LEMMA DeliveryKeepsStep ==
  ASSUME RP!EveryReplyFits, RInv, RP!IInv, RP!RepliesIntact, LInv,
         ServerAnswers \/ ServerIgnores
  PROVE  LInv'
<1>0. ParseDelivers /\ UNCHANGED window
  BY DEF ServerAnswers, ServerIgnores
<1>1. PICK d \in Nat : d = Len(delivered)
  BY DEF RInv
<1>2. /\ UNCHANGED <<sent, phase>> /\ phase # "closed"
      /\ d + 1 \in 1..Len(sent) /\ Len(delivered') = d + 1
      /\ delivered' \in Seq(Seq(Nat))
  BY <1>0, <1>1, ParseDeliversStep DEF ParseDelivers, sendVars, RInv
<1>3. UNCHANGED <<lost, got>>
  BY DEF ServerAnswers, ServerIgnores, repVars, Rep!QueueSend, Rep!clientVars
<1>4. DOMAIN delivered = 1..d /\ DOMAIN delivered' = 1..(d + 1)
  BY <1>1, <1>2 DEF RInv
<1>5. ~lost'
  BY <1>2, <1>3 DEF LInv
<1>6. CASE window # 1
  BY <1>0, <1>5, <1>6 DEF LInv
<1>7. CASE window = 1
  <2>0. refused = 0 /\ Len(sent) <= Len(got) + 1 /\ Len(queued) = Cardinality(Answerable)
    BY <1>7 DEF LInv
  <2>1. CASE ServerIgnores
    <3>1. sent[d + 1].len \notin Known /\ UNCHANGED <<queued, refused>>
      BY <1>1, <2>1 DEF ServerIgnores, repVars
    <3>2. Answerable' = Answerable
      BY <1>1, <1>2, <1>4, <3>1 DEF Answerable
    <3> QED BY <1>0, <1>2, <1>3, <1>5, <2>0, <3>1, <3>2 DEF LInv
  <2>2. CASE ServerAnswers
    <3>1. PICK len \in ReplyLens :
            \/ Rep!QueueSend(len) /\ UNCHANGED refused
            \/ ~Rep!Accepts(len)
      BY <2>2 DEF ServerAnswers
    <3>2. Rep!Accepts(len)
      <4>1. len \in Nat /\ len + 1 <= MaxLen /\ MaxLen <= MaxJson + 1
            /\ MaxLen \in Nat /\ MaxJson \in Nat
        BY ReplyAssumption DEF RP!EveryReplyFits
      <4>2. len <= MaxJson
        BY <4>1
      <4>3. Len(outBuf) = outSent
        BY <1>0, <1>7, OutBufferFree
      <4> QED BY <4>2, <4>3 DEF Rep!Accepts
    <3>3. Rep!QueueSend(len) /\ UNCHANGED refused
      BY <3>1, <3>2
    <3>4. queued \in Seq(RP!Msg)
      BY DEF RP!IInv, RP!QueueOK
    <3>5. Len(queued') = Len(queued) + 1
      <4>1. PICK x : queued' = Append(queued, x)
        BY <3>3 DEF Rep!QueueSend
      <4>2. queued \in Seq(RP!Msg \cup {x}) /\ x \in RP!Msg \cup {x}
        BY <3>4
      <4> QED BY <4>1, <4>2, AppendProperties
    <3>6. Answerable' = Answerable \cup {d + 1} /\ d + 1 \notin Answerable
      BY <1>1, <1>2, <1>4, <2>2 DEF Answerable, ServerAnswers
    <3>7. Cardinality(Answerable') = Cardinality(Answerable) + 1
      BY <3>6, AnswerableFacts, FS_AddElement
    <3> QED BY <1>0, <1>2, <1>3, <1>5, <2>0, <3>3, <3>5, <3>7 DEF LInv
  <2> QED BY <2>1, <2>2
<1> QED BY <1>6, <1>7

\* Every step of the exchange keeps the invariant of lock step.
LEMMA LockStepNext ==
  ASSUME RP!EveryReplyFits, RInv, RP!IInv, RP!RepliesIntact, LInv,
         [ExchangeNext]_exchangeVars
  PROVE  LInv'
<1>1. CASE UNCHANGED exchangeVars
  <2>1. UNCHANGED <<sent, delivered, phase, lost, window, refused, queued, got>>
    BY <1>1 DEF exchangeVars, vars, sendVars, repVars
  <2> QED BY <2>1 DEF LInv, Answerable
<1>2. CASE ClientSends \/ ClientWrites \/ ClientReceives
  BY <1>2, ClientKeepsStep
<1>3. CASE ServerReads
  <2>1. UNCHANGED <<sent, delivered, lost, window, refused, queued, got>> /\ phase # "closed"
    BY <1>3 DEF ServerReads, repVars, Polled, ReadSome, ReadWants, ParseNoHeader,
       ParseIncomplete, sendVars
  <2> QED BY <2>1 DEF LInv, Answerable
<1>4. CASE ServerFlushes
  <2>1. UNCHANGED <<sent, delivered, phase, lost, window, refused, queued, got>>
    BY <1>4 DEF ServerFlushes, vars, sendVars, Rep!Flush, Rep!clientVars
  <2> QED BY <2>1 DEF LInv, Answerable
<1>5. CASE ServerCloses
  <2>1. UNCHANGED <<sent, delivered, window, refused, queued, got>> /\ phase' = "closed"
    BY <1>5 DEF ServerCloses, Rep!Break, Rep!clientVars, ReadFull, ParseRefuses,
       ParseNoMemory, Close, sendVars
  <2> QED BY <2>1 DEF LInv, Answerable
<1>6. CASE ServerAnswers \/ ServerIgnores
  BY <1>6, DeliveryKeepsStep
<1> QED BY <1>1, <1>2, <1>3, <1>4, <1>5, <1>6 DEF ExchangeNext

\* For every size of message, record and buffer, as long as the client's buffer
\* holds any reply: a client that waits for the reply before it sends its next
\* request has none refused, whatever it sends and however slowly the server
\* flushes; the server is never more than one reply ahead of it, and the n-th
\* reply answers the n-th request the application knows.
THEOREM LockStepHolds ==
  ASSUME \A len \in ReplyLens : len + 1 <= MaxLen
  PROVE  ExchangeSpec => []LockStep
<1>1. RP!EveryReplyFits
  BY DEF RP!EveryReplyFits
<1>2. ExchangeSpec => []RInv
  BY ImplementsReceive, ReceiveInductive, PTL
<1>3. RP!Spec => []RP!IInv
  <2>1. RP!HeadersOnly
    BY <1>1 DEF RP!HeadersOnly
  <2> QED BY <2>1, ReplyAssumption, RP!Inductive
<1>4. RP!Spec => []RP!RepliesIntact
  BY <1>1, ReplyAssumption, RP!FittingRepliesIntact
<1>5. ExchangeInit => LInv
  <2> SUFFICES ASSUME ExchangeInit PROVE LInv
    OBVIOUS
  <2>1. sent = <<>> /\ delivered = <<>> /\ got = <<>> /\ queued = <<>>
        /\ lost = FALSE /\ refused = 0
    BY DEF ExchangeInit, Init, Rep!Init
  <2>2. Answerable = {}
    BY <2>1 DEF Answerable
  <2>3. Cardinality({}) = 0
    BY FS_EmptySet
  <2> QED BY <2>1, <2>2, <2>3 DEF LInv
<1>6. RInv /\ RP!IInv /\ RP!RepliesIntact /\ LInv /\ [ExchangeNext]_exchangeVars => LInv'
  BY <1>1, LockStepNext
<1>7. RInv /\ RP!RepliesIntact /\ RP!IInv /\ LInv => LockStep
  <2> SUFFICES ASSUME RInv, RP!RepliesIntact, RP!IInv, LInv, window = 1
               PROVE  /\ refused = 0
                      /\ Len(queued) = Cardinality(Answerable)
                      /\ Len(queued) <= Len(got) + 1
    BY DEF LockStep, Answerable
  <2>1. refused = 0 /\ Len(sent) <= Len(got) + 1 /\ Len(queued) = Cardinality(Answerable)
    BY DEF LInv
  <2>2. Cardinality(Answerable) \in Nat /\ Cardinality(Answerable) <= Len(delivered)
    BY AnswerableFacts
  <2>3. Len(delivered) <= Len(sent)
    BY DEF RInv, DeliveredIntact
  <2>4. Len(delivered) \in Nat /\ Len(sent) \in Nat /\ Len(got) \in Nat
    BY DEF RInv, SentOK, RP!IInv, RP!Types
  <2> QED BY <2>1, <2>2, <2>3, <2>4
<1> QED BY <1>2, <1>3, <1>4, <1>5, <1>6, <1>7, ImplementsReply, SameReply, PTL
     DEF ExchangeSpec
=============================================================================
