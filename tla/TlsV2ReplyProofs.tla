-------------------------- MODULE TlsV2ReplyProofs --------------------------
(***************************************************************************)
(* Proofs about TlsV2Reply, for messages, records and buffers of any size: *)
(* what tlsv2_client_recv_json returns are whole messages in their order,  *)
(* the payload it reads fits the caller's buffer, and a caller whose       *)
(* buffer is large enough gets every message.                              *)
(***************************************************************************)
EXTENDS TlsV2Reply, SequenceTheorems, TLAPS

\* The caller's buffer is large enough for everything the server sends.
EveryReplyFits == \A len \in ReplyLens : len + 1 <= MaxLen

\* No part of a payload reads as a length that fits the buffer, as it is with
\* JSON text.
TextsTooLong == \A n \in Texts : n + 1 > MaxLen

\* A client never mistakes a part of a payload for a header of its own.
HeadersOnly == EveryReplyFits \/ TextsTooLong

-----------------------------------------------------------------------------
(* The inductive invariant *)

Msg == [start : Nat, len : Nat]
End(m) == queued[m].start + Hdr + queued[m].len
Start(m) == IF m <= Len(queued) THEN queued[m].start ELSE outTotal

\* The accepted messages lie one behind the other in the stream.
QueueOK ==
    /\ queued \in Seq(Msg) /\ outTotal \in Nat
    /\ Start(1) = 0
    /\ \A m \in 1..Len(queued) : /\ Start(m + 1) = End(m) /\ End(m) <= outTotal
                                 /\ queued[m].len \in ReplyLens /\ queued[m].len <= MaxJson
    /\ \A m, k \in 1..Len(queued) : m < k => End(m) <= queued[k].start

\* What out_buf holds is the last message; if some of it is written, then at
\* least its header.
OutOK ==
    \/ outBuf = <<>> /\ outSent = 0
    \/ /\ Len(queued) > 0
       /\ outBuf = Offsets(queued[Len(queued)].start, Hdr + queued[Len(queued)].len)
       /\ outSent \in 0..((Hdr + queued[Len(queued)].len) - 1)
       /\ outSent = 0 \/ outSent >= Hdr

Written == outTotal - Len(outBuf) + outSent

\* The bytes behind the first a up to the first b belong to one message, and
\* begin with its whole header or behind it.
InMessage(a, b) ==
    \E m \in 1..Len(queued) :
        /\ \/ a = queued[m].start /\ b - a >= Hdr
           \/ a >= queued[m].start + Hdr
        /\ b <= End(m)

\* The records on their way are cut at s: the first is what the client reads
\* next, the last ends where the server has come to.
Cuts(s) ==
    /\ s \in Seq(Nat) /\ Len(s) = Len(back) + 1
    /\ \A i \in 1..Len(back) :
           /\ s[i] < s[i + 1]
           /\ back[i] = Offsets(s[i], s[i + 1] - s[i])
           /\ InMessage(s[i], s[i + 1])
    /\ ~lost => s[Len(s)] = Written

\* got[i] is message f[i].
Whole(f) ==
    /\ f \in Seq(Nat) /\ Len(f) = Len(got)
    /\ \A i \in 1..Len(got) : f[i] \in 1..Len(queued) /\ got[i] = Reply(f[i])
    /\ \A i, j \in 1..Len(got) : i < j => f[i] < f[j]

\* The client reads a payload: not with the length 2^32 - 1, for which nothing is
\* read.
Reading == cphase = "payload" /\ nlen # Wrap - 1

\* The messages returned end before the client's place in the stream; while it
\* reads a payload, c is the message and cbuf the part of it read so far.
Place(s, f, c) ==
    /\ ~Reading => \A i \in 1..Len(got) : End(f[i]) <= s[1]
    /\ Reading =>
           /\ c \in 1..Len(queued) /\ nlen = queued[c].len /\ nlen + 1 <= MaxLen
           /\ Len(cbuf) \in 0..nlen /\ cbuf = Offsets(queued[c].start + Hdr, Len(cbuf))
           /\ s[1] = queued[c].start + Hdr + Len(cbuf)
           /\ \A i \in 1..Len(got) : End(f[i]) <= queued[c].start

\* With a buffer that is large enough no message is skipped; between two calls
\* the client stands at the next one, unless the connection broke in one.
InTurn(s, f, c) ==
    EveryReplyFits =>
        /\ \A i \in 1..Len(got) : f[i] = i
        /\ Reading => c = Len(got) + 1
        /\ ~Reading => s[1] = Start(Len(got) + 1) \/ (lost /\ back = <<>>)

ClientOK(s, f, c) == Cuts(s) /\ Whole(f) /\ Place(s, f, c) /\ InTurn(s, f, c)

Types ==
    /\ back \in Seq(Seq(Nat)) /\ lost \in BOOLEAN /\ got \in Seq(Seq(Nat))
    /\ cphase \in {"app", "header", "payload"} /\ (cphase = "header" => cbuf = <<>>)
    /\ cphase = "payload" /\ nlen = Wrap - 1 => cbuf = <<>>

IInv ==
    /\ Types /\ QueueOK /\ OutOK
    /\ \E s \in Seq(Nat), f \in Seq(Nat), c \in Nat : ClientOK(s, f, c)

-----------------------------------------------------------------------------
(* What the proofs need of the sizes. *)
LEMMA Sizes ==
  /\ Hdr \in Nat \ {0} /\ MaxJson \in Nat \ {0}
  /\ ReplyLens \subseteq Nat
  /\ RecMax \in Nat /\ RecMax >= Hdr
  /\ MaxLen \in Nat /\ MaxLen <= MaxJson + 1
  /\ Wrap \in Nat /\ Wrap > MaxJson + 2 /\ Wrap > 2 * MaxLen
BY ReplyConstants

-----------------------------------------------------------------------------
(* Runs of offsets *)

\* A run of n offsets is a sequence of length n.
LEMMA OffsetsSeq ==
  ASSUME NEW a \in Nat, NEW n \in Nat
  PROVE  Offsets(a, n) \in Seq(Nat) /\ Len(Offsets(a, n)) = n
BY DEF Offsets

\* A part of a run is a run.
LEMMA OffsetsSub ==
  ASSUME NEW a \in Nat, NEW n \in Nat, NEW i \in 1..(n + 1), NEW j \in 0..n, i <= j + 1
  PROVE  SubSeq(Offsets(a, n), i, j) = Offsets(a + i - 1, j - i + 1)
BY OffsetsSeq DEF Offsets

\* Two adjacent runs are one.
LEMMA OffsetsJoin ==
  ASSUME NEW a \in Nat, NEW n \in Nat, NEW k \in Nat
  PROVE  Offsets(a, n) \o Offsets(a + n, k) = Offsets(a, n + k)
BY OffsetsSeq DEF Offsets

\* A run that is not empty begins in one place.
LEMMA OffsetsFirst ==
  ASSUME NEW a \in Nat, NEW n \in Nat \ {0}
  PROVE  Offsets(a, n)[1] = a + 1
BY DEF Offsets

\* The empty run.
LEMMA OffsetsNone ==
  ASSUME NEW a \in Nat
  PROVE  Offsets(a, 0) = <<>>
<1>1. Offsets(a, 0) \in Seq(Nat) /\ Len(Offsets(a, 0)) = 0
  BY OffsetsSeq
<1> QED BY <1>1, EmptySeq

-----------------------------------------------------------------------------
(* The messages *)

\* Starts, lengths and ends are numbers, and a message has at least its header.
LEMMA MsgFacts ==
  ASSUME QueueOK, NEW m \in 1..Len(queued)
  PROVE  /\ queued[m].start \in Nat /\ queued[m].len \in Nat /\ End(m) \in Nat
         /\ End(m) = queued[m].start + Hdr + queued[m].len
         /\ queued[m].start + Hdr <= End(m) /\ queued[m].start < End(m)
         /\ Len(queued) \in Nat /\ End(m) <= outTotal /\ outTotal \in Nat
         /\ queued[m].len <= MaxJson /\ queued[m].len \in ReplyLens
<1>1. queued[m] \in Msg
  BY DEF QueueOK
<1>2. queued[m].start \in Nat /\ queued[m].len \in Nat
  BY <1>1 DEF Msg
<1>3. Len(queued) \in Nat /\ End(m) <= outTotal /\ outTotal \in Nat /\ queued[m].len <= MaxJson
      /\ queued[m].len \in ReplyLens
  BY DEF QueueOK
<1> QED BY <1>2, <1>3, Sizes DEF End

\* Messages do not overlap: one whose end is not behind the start of another
\* comes before it.
LEMMA MsgOrder ==
  ASSUME QueueOK, NEW m \in 1..Len(queued), NEW k \in 1..Len(queued),
         End(m) <= queued[k].start
  PROVE  m < k
<1>1. CASE m = k
  BY <1>1, MsgFacts
<1>2. CASE k < m
  <2>1. End(k) <= queued[m].start
    BY <1>2 DEF QueueOK
  <2> QED BY <2>1, MsgFacts
<1> QED BY <1>1, <1>2

\* A place behind a header and before the end of its message is in no other
\* message's header, nor is it the start of a message.
LEMMA NoHeaderInside ==
  ASSUME QueueOK, NEW m \in 1..Len(queued), NEW k \in 1..Len(queued), NEW a \in Nat,
         a >= queued[m].start + Hdr, a < End(m)
  PROVE  ~(a >= queued[k].start /\ a < queued[k].start + Hdr)
<1> USE Sizes
<1>f. /\ queued[m].start \in Nat /\ End(m) \in Nat
      /\ queued[k].start \in Nat /\ queued[k].start + Hdr <= End(k) /\ End(k) \in Nat
  BY MsgFacts
<1>1. CASE m = k
  BY <1>1, <1>f
<1>2. CASE k < m
  <2>1. End(k) <= queued[m].start
    BY <1>2 DEF QueueOK
  <2> QED BY <2>1, <1>f
<1>3. CASE m < k
  <2>1. End(m) <= queued[k].start
    BY <1>3 DEF QueueOK
  <2> QED BY <2>1, <1>f
<1> QED BY <1>1, <1>2, <1>3

-----------------------------------------------------------------------------
(* The records *)

\* The first record, n bytes from p on.
LEMMA FirstRecord ==
  ASSUME QueueOK, Types, NEW s, Cuts(s), back # <<>>
  PROVE  \E p \in Nat, k \in Nat \ {0} :
           /\ Len(back) \in Nat \ {0} /\ s[1] = p /\ s[2] = p + k
           /\ Head(back) = Offsets(p, k) /\ Len(Head(back)) = k
           /\ InMessage(p, p + k)
<1>1. Len(back) \in Nat \ {0} /\ Head(back) = back[1] /\ 1 \in 1..Len(back)
  BY EmptySeq DEF Types
<1>2. s[1] \in Nat /\ s[2] \in Nat
  BY <1>1 DEF Cuts
<1>3. s[1] < s[2] /\ back[1] = Offsets(s[1], s[2] - s[1]) /\ InMessage(s[1], s[2])
  BY <1>1 DEF Cuts
<1>4. PICK p \in Nat, k \in Nat \ {0} : s[1] = p /\ k = s[2] - s[1] /\ s[2] = p + k
  BY <1>2, <1>3
<1>5. Head(back) = Offsets(p, k) /\ InMessage(p, p + k)
  BY <1>1, <1>3, <1>4
<1>6. Len(Offsets(p, k)) = k
  BY OffsetsSeq
<1> QED BY <1>1, <1>4, <1>5, <1>6

\* SSL_read takes the beginning of the first record; what remains is cut as
\* before, provided the piece does not end inside a header.
LEMMA TakeKeepsCuts ==
  ASSUME QueueOK, Types, NEW s, Cuts(s), back # <<>>, NEW n \in Nat \ {0},
         n >= Hdr \/ \A m \in 1..Len(queued) : s[1] # queued[m].start,
         back' = RecordsAfter(n), UNCHANGED <<outVars, lost>>
  PROVE  /\ Taken(n) \in 1..n /\ s[1] + Taken(n) <= s[2]
         /\ Piece(n) = Offsets(s[1], Taken(n))
         /\ back' \in Seq(Seq(Nat))
         /\ \E z \in Seq(Nat) : Cuts(z)' /\ z[1] = s[1] + Taken(n)
<1> USE Sizes
<1>1. PICK p \in Nat, k \in Nat \ {0} :
        /\ Len(back) \in Nat \ {0} /\ s[1] = p /\ s[2] = p + k
        /\ Head(back) = Offsets(p, k) /\ Len(Head(back)) = k
        /\ InMessage(p, p + k)
  BY FirstRecord
<1>t. PICK t \in Nat : t = Taken(n)
  BY <1>1 DEF Taken
<1>2. t \in 1..n /\ t <= k /\ (t < k => t = n)
  BY <1>1, <1>t DEF Taken
<1>3. Piece(n) = Offsets(p, t)
  <2>1. SubSeq(Offsets(p, k), 1, t) = Offsets(p + 1 - 1, t - 1 + 1)
    <3>1. k \in Nat /\ 1 \in 1..(k + 1) /\ t \in 0..k /\ 1 <= t + 1
      BY <1>2
    <3> QED BY <3>1, OffsetsSub
  <2>2. p + 1 - 1 = p /\ t - 1 + 1 = t
    OBVIOUS
  <2>3. Piece(n) = SubSeq(Offsets(p, k), 1, t)
    BY <1>1, <1>t DEF Piece
  <2> QED BY <2>1, <2>2, <2>3
<1>g. /\ Taken(n) \in 1..n /\ s[1] + Taken(n) <= s[2]
      /\ Piece(n) = Offsets(s[1], Taken(n))
  BY <1>1, <1>t, <1>2, <1>3
<1>b. PICK e \in Nat \ {0} : Len(back) = e
  BY <1>1
<1>s. /\ s \in Seq(Nat) /\ Len(s) = e + 1 /\ \A i \in 1..(e + 1) : s[i] \in Nat
      /\ \A i \in 1..e : /\ s[i] < s[i + 1]
                         /\ back[i] = Offsets(s[i], s[i + 1] - s[i])
                         /\ InMessage(s[i], s[i + 1])
      /\ ~lost => s[e + 1] = Written
  <2>1. s \in Seq(Nat) /\ Len(s) = e + 1
    BY <1>b DEF Cuts
  <2>2. \A i \in 1..(e + 1) : s[i] \in Nat
    BY <2>1
  <2>3. \A i \in 1..e : /\ s[i] < s[i + 1]
                        /\ back[i] = Offsets(s[i], s[i + 1] - s[i])
                        /\ InMessage(s[i], s[i + 1])
    BY <1>b DEF Cuts
  <2>4. ~lost => s[e + 1] = Written
    BY <2>1 DEF Cuts
  <2> QED BY <2>1, <2>2, <2>3, <2>4
<1>u. Written' = Written /\ lost' = lost
  BY DEF outVars, Written
<1>v. ASSUME NEW a, NEW b, InMessage(a, b) PROVE InMessage(a, b)'
  BY <1>v DEF outVars, InMessage, End
<1>4. CASE t = k
  <2>1. back' = Tail(back)
    BY <1>1, <1>t, <1>4 DEF RecordsAfter
  <2> DEFINE z == Tail(s)
  <2>2. /\ back' \in Seq(Seq(Nat)) /\ Len(back') = e - 1
        /\ \A i \in 1..(e - 1) : back'[i] = back[i + 1]
    BY <1>b, <2>1 DEF Types
  <2>3. z \in Seq(Nat) /\ Len(z) = e /\ \A i \in 1..e : z[i] = s[i + 1]
    BY <1>b, <1>s, SMTT(30)
  <2> HIDE DEF z
  <2>4. z[1] = s[1] + t /\ z[e] = s[e + 1]
    <3>1. 1 \in 1..e /\ e \in 1..e
      BY <1>b
    <3>2. z[1] = s[1 + 1] /\ z[e] = s[e + 1]
      BY <2>3, <3>1
    <3>3. s[1 + 1] = s[2]
      OBVIOUS
    <3> QED BY <1>1, <1>4, <3>2, <3>3
  <2>5. ASSUME NEW i \in 1..(e - 1)
        PROVE  /\ z[i] < z[i + 1]
               /\ back'[i] = Offsets(z[i], z[i + 1] - z[i])
               /\ InMessage(z[i], z[i + 1])'
    <3>1. i \in 1..e /\ i + 1 \in 1..e /\ z[i] = s[i + 1] /\ z[i + 1] = s[(i + 1) + 1]
          /\ back'[i] = back[i + 1]
      BY SMTT(30), <1>b, <2>2, <2>3
    <3>2. /\ s[i + 1] < s[(i + 1) + 1]
          /\ back[i + 1] = Offsets(s[i + 1], s[(i + 1) + 1] - s[i + 1])
          /\ InMessage(s[i + 1], s[(i + 1) + 1])
      BY <1>s, <3>1
    <3> QED BY <1>v, <3>1, <3>2
  <2>6. Cuts(z)'
    <3>1. Len(z) = Len(back') + 1
      BY <1>b, <2>2, <2>3
    <3>2. ~lost' => z[Len(z)] = Written'
      BY <1>s, <1>u, <2>3, <2>4
    <3> QED BY <2>2, <2>3, <2>5, <3>1, <3>2 DEF Cuts
  <2> QED BY <1>g, <1>t, <2>2, <2>3, <2>4, <2>6
<1>5. CASE t < k
  <2> DEFINE rest == SubSeq(Head(back), t + 1, k)
             z == <<p + t>> \o Tail(s)
  <2>1. back' = <<rest>> \o Tail(back)
    <3>1. Taken(n) = t /\ Taken(n) # Len(Head(back)) /\ Len(Head(back)) = k
      BY <1>1, <1>t, <1>5
    <3> QED BY <3>1 DEF RecordsAfter
  <2>2. rest = Offsets(p + t, k - t)
    <3>1. SubSeq(Offsets(p, k), t + 1, k) = Offsets(p + (t + 1) - 1, k - (t + 1) + 1)
      <4>1. k \in Nat /\ t + 1 \in 1..(k + 1) /\ k \in 0..k /\ t + 1 <= k + 1
        BY <1>2, <1>5
      <4> QED BY <4>1, OffsetsSub
    <3>2. p + (t + 1) - 1 = p + t /\ k - (t + 1) + 1 = k - t
      OBVIOUS
    <3> QED BY <1>1, <3>1, <3>2
  <2>r. rest \in Seq(Nat)
    <3>1. p + t \in Nat /\ k - t \in Nat
      BY <1>5
    <3>2. Offsets(p + t, k - t) \in Seq(Nat)
      BY <3>1, OffsetsSeq
    <3> QED BY <2>2, <3>2
  <2> HIDE DEF rest
  <2>3. /\ back' \in Seq(Seq(Nat)) /\ Len(back') = e /\ back'[1] = rest
        /\ \A i \in 2..e : back'[i] = back[i]
    BY <1>b, <2>1, <2>r DEF Types
  <2>4. z \in Seq(Nat) /\ Len(z) = e + 1 /\ z[1] = p + t /\ \A i \in 2..(e + 1) : z[i] = s[i]
    BY <1>b, <1>s
  <2> HIDE DEF z
  <2>z. z[2] = p + k
    BY <1>b, <1>1, <2>4
  <2>5. InMessage(p + t, p + k)
    <3>1. PICK m \in 1..Len(queued) :
            /\ (p = queued[m].start /\ (p + k) - p >= Hdr) \/ p >= queued[m].start + Hdr
            /\ p + k <= End(m)
      BY <1>1 DEF InMessage
    <3>2. queued[m].start \in Nat
      BY MsgFacts
    <3>3. p = queued[m].start => t >= Hdr
      BY <1>1, <1>2, <1>5
    <3>4. p + t >= queued[m].start + Hdr
      BY <3>1, <3>2, <3>3
    <3> QED BY <3>1, <3>4 DEF InMessage
  <2>6. ASSUME NEW i \in 1..e
        PROVE  z[i] < z[i + 1] /\ back'[i] = Offsets(z[i], z[i + 1] - z[i])
               /\ InMessage(z[i], z[i + 1])'
    <3>1. CASE i = 1
      <4>1. InMessage(p + t, p + k)'
        BY <1>v, <2>5
      <4>2. (p + k) - (p + t) = k - t /\ p + t < p + k
        BY <1>5
      <4> QED BY <2>2, <2>3, <2>4, <2>z, <3>1, <4>1, <4>2
    <3>2. CASE i # 1
      <4>1. z[i] = s[i] /\ z[i + 1] = s[i + 1] /\ back'[i] = back[i]
        <5>1. i \in 2..e /\ i \in 2..(e + 1) /\ i + 1 \in 2..(e + 1)
          BY <1>b, <3>2
        <5> QED BY <2>3, <2>4, <5>1
      <4> QED BY <1>s, <1>v, <4>1
    <3> QED BY <3>1, <3>2
  <2>7. Cuts(z)'
    <3>1. ~lost' => z[Len(z)] = Written'
      BY <1>b, <1>s, <1>u, <2>4
    <3> QED BY <2>3, <2>4, <2>6, <3>1 DEF Cuts
  <2> QED BY <1>1, <1>g, <1>t, <2>3, <2>4, <2>7
<1> QED BY <1>2, <1>4, <1>5

\* What the length of a message means in 32 bits.
LEMMA NotWrapped ==
  ASSUME NEW n \in Nat, n + 1 < Wrap
  PROVE  TooLong(n) <=> n + 1 > MaxLen
<1>1. (n + 1) % Wrap = n + 1
  BY Sizes
<1> QED BY <1>1 DEF TooLong

\* recv_json decodes the length of a message at its start; anywhere else it
\* decodes a part of a payload.
LEMMA DecodesHeaders ==
  ASSUME QueueOK, Types, NEW s, Cuts(s), back # <<>>, NEW n \in Decoded(Piece(Hdr)),
         Taken(Hdr) \in 1..Hdr, Piece(Hdr) = Offsets(s[1], Taken(Hdr))
  PROVE  \/ \E m \in 1..Len(queued) :
              s[1] = queued[m].start /\ n = queued[m].len /\ Taken(Hdr) = Hdr
         \/ (\A m \in 1..Len(queued) : s[1] # queued[m].start) /\ n \in Texts
<1> USE Sizes
<1>1. PICK p \in Nat, k \in Nat \ {0} :
        /\ s[1] = p /\ s[2] = p + k /\ Len(Head(back)) = k /\ InMessage(p, p + k)
  BY FirstRecord
<1>d. DOMAIN queued = 1..Len(queued)
  BY DEF QueueOK
<1>2. PICK j \in 1..Len(queued) :
        /\ (p = queued[j].start /\ (p + k) - p >= Hdr) \/ p >= queued[j].start + Hdr
        /\ p + k <= End(j)
  BY <1>1 DEF InMessage
<1>t. PICK t \in 1..Hdr : t = Taken(Hdr) /\ Piece(Hdr) = Offsets(p, t)
  BY <1>1
<1>f. Piece(Hdr)[1] = p + 1
  BY <1>t, OffsetsFirst
<1>3. CASE p = queued[j].start /\ (p + k) - p >= Hdr
  <2>1. t = Hdr
    BY <1>1, <1>3, <1>t DEF Taken
  <2>2. Piece(Hdr) = Offsets(queued[j].start, Hdr)
    BY <1>3, <1>t, <2>1
  <2>3. ASSUME NEW m \in 1..Len(queued), Piece(Hdr) = Offsets(queued[m].start, Hdr)
        PROVE  queued[m].start = p /\ m = j
    <3>1. queued[m].start \in Nat /\ queued[j].start \in Nat
      BY MsgFacts
    <3>2. queued[m].start = p
      BY SMTT(30), <1>f, <2>3, <3>1, OffsetsFirst
    <3>3. ~(m < j) /\ ~(j < m)
      <4>1. m < j => End(m) <= queued[j].start
        BY DEF QueueOK
      <4>2. j < m => End(j) <= queued[m].start
        BY DEF QueueOK
      <4>3. /\ queued[m].start < End(m) /\ End(m) \in Nat
            /\ queued[j].start < End(j) /\ End(j) \in Nat
        BY MsgFacts
      <4> QED BY <1>3, <3>1, <3>2, <4>1, <4>2, <4>3
    <3> QED BY <3>2, <3>3
  <2>4. {m \in DOMAIN queued : Piece(Hdr) = Offsets(queued[m].start, Hdr)} = {j}
    BY <1>d, <2>2, <2>3
  <2>5. n = queued[j].len
    BY <2>4 DEF Decoded
  <2> QED BY <1>1, <1>3, <1>t, <2>1, <2>5
<1>4. CASE p >= queued[j].start + Hdr
  <2>1. ASSUME NEW m \in 1..Len(queued)
        PROVE  queued[m].start \in Nat /\ ~(p >= queued[m].start /\ p < queued[m].start + Hdr)
    <3>1. p < End(j)
      BY <1>1, <1>2, MsgFacts
    <3> QED BY <1>4, <3>1, MsgFacts, NoHeaderInside
  <2>2. \A m \in 1..Len(queued) : p # queued[m].start
    BY <2>1
  <2>3. ASSUME NEW m \in 1..Len(queued) PROVE Piece(Hdr) # Offsets(queued[m].start, Hdr)
    <3>1. Offsets(queued[m].start, Hdr)[1] = queued[m].start + 1
      BY <2>1, OffsetsFirst
    <3> QED BY <1>f, <2>1, <2>2, <3>1
  <2>4. ASSUME NEW m \in 1..Len(queued)
        PROVE  Piece(Hdr)[1] \notin queued[m].start + 1 .. queued[m].start + Hdr
    BY <1>f, <2>1, SMTT(30)
  <2>5. n \in Texts
    BY <1>d, <2>3, <2>4 DEF Decoded
  <2> QED BY <1>1, <2>2, <2>5
<1> QED BY <1>2, <1>3, <1>4

-----------------------------------------------------------------------------
(* The server's steps *)

\* A message is accepted behind the ones before.
LEMMA QueueStep ==
  ASSUME IInv, NEW len \in ReplyLens, QueueSend(len)
  PROVE  IInv'
<1> USE Sizes
<1>0. /\ queued' = Append(queued, [start |-> outTotal, len |-> len])
      /\ outTotal' = outTotal + Hdr + len /\ len <= MaxJson /\ Len(outBuf) = outSent
      /\ outBuf' = Offsets(outTotal, Hdr + len) /\ outSent' = 0
      /\ UNCHANGED <<back, lost, cphase, nlen, cbuf, got>>
  BY DEF QueueSend, Accepts, clientVars
<1>n. PICK n \in Nat : n = Len(queued)
  BY DEF IInv, QueueOK
<1>1. /\ queued \in Seq(Msg) /\ outTotal \in Nat /\ len \in Nat
      /\ \A m \in 1..n : queued[m] \in Msg
  BY <1>n DEF IInv, QueueOK
<1>2. /\ queued' \in Seq(Msg) /\ Len(queued') = n + 1
      /\ \A m \in 1..n : queued'[m] = queued[m]
      /\ queued'[n + 1].start = outTotal /\ queued'[n + 1].len = len
  <2>1. [start |-> outTotal, len |-> len] \in Msg
    BY <1>1 DEF Msg
  <2> QED BY <1>0, <1>n, <1>1, <2>1
<1>3. /\ \A m \in 1..n : End(m)' = End(m)
      /\ End(n + 1)' = outTotal'
  BY <1>0, <1>1, <1>2 DEF End
<1>4. /\ \A m \in 1..(n + 1) : Start(m)' = Start(m)
      /\ Start(n + 2)' = outTotal'
  <2>1. \A m \in 1..n : Start(m)' = Start(m)
    BY <1>n, <1>2 DEF Start
  <2>2. Start(n + 1)' = outTotal /\ Start(n + 1) = outTotal
    BY <1>n, <1>2 DEF Start
  <2> QED BY <1>n, <1>2, <2>1, <2>2 DEF Start
<1>5. QueueOK'
  <2>1. outTotal' \in Nat /\ outTotal <= outTotal'
    BY <1>0, <1>1
  <2>2. Start(1)' = 0
    BY <1>4 DEF IInv, QueueOK
  <2>3. ASSUME NEW m \in 1..(n + 1)
        PROVE  /\ Start(m + 1)' = End(m)' /\ End(m)' <= outTotal'
               /\ queued'[m].len \in ReplyLens /\ queued'[m].len <= MaxJson
    <3>1. CASE m \in 1..n
      <4>1. /\ Start(m + 1) = End(m) /\ End(m) <= outTotal /\ End(m) \in Nat
            /\ queued[m].len \in ReplyLens /\ queued[m].len <= MaxJson
        BY <1>n, <3>1, MsgFacts DEF IInv, QueueOK
      <4>2. m + 1 \in 1..(n + 1)
        BY <3>1
      <4> QED BY <1>1, <1>2, <1>3, <1>4, <2>1, <3>1, <4>1, <4>2
    <3>2. CASE m = n + 1
      <4>1. Start(m + 1)' = Start(n + 2)'
        BY <3>2
      <4> QED BY <1>0, <1>2, <1>3, <1>4, <2>1, <3>2, <4>1
    <3> QED BY <3>1, <3>2
  <2>4. ASSUME NEW m \in 1..(n + 1), NEW k \in 1..(n + 1), m < k
        PROVE  End(m)' <= queued'[k].start
    <3>1. CASE k \in 1..n
      <4>1. m \in 1..n /\ End(m) <= queued[k].start
        BY <1>n, <2>4, <3>1 DEF IInv, QueueOK
      <4> QED BY <1>2, <1>3, <3>1, <4>1
    <3>2. CASE k = n + 1
      <4>1. m \in 1..n /\ End(m) <= outTotal
        BY <1>n, <2>4, <3>2 DEF IInv, QueueOK
      <4> QED BY <1>2, <1>3, <3>2, <4>1
    <3> QED BY <3>1, <3>2
  <2> QED BY <1>2, <2>1, <2>2, <2>3, <2>4 DEF QueueOK
<1>6. OutOK'
  <2>1. outBuf' = Offsets(queued'[n + 1].start, Hdr + queued'[n + 1].len)
    BY <1>0, <1>2
  <2>2. outSent' \in 0..((Hdr + queued'[n + 1].len) - 1)
    BY <1>0, <1>1, <1>2
  <2> QED BY <1>0, <1>2, <2>1, <2>2 DEF OutOK
<1>7. PICK s \in Seq(Nat), f \in Seq(Nat), c \in Nat : ClientOK(s, f, c)
  BY DEF IInv
<1>8. Cuts(s)'
  <2>1. ASSUME NEW a, NEW b, InMessage(a, b) PROVE InMessage(a, b)'
    <3>1. PICK m \in 1..n : /\ \/ a = queued[m].start /\ b - a >= Hdr
                               \/ a >= queued[m].start + Hdr
                            /\ b <= End(m)
      BY <1>n, <2>1 DEF InMessage
    <3>2. m \in 1..(n + 1)
      OBVIOUS
    <3> QED BY <1>2, <1>3, <3>1, <3>2 DEF InMessage
  <2>2. Written' = outTotal /\ Written = outTotal
    <3>1. Len(outBuf') = Hdr + len
      BY <1>0, <1>1, OffsetsSeq
    <3>2. Len(outBuf) \in Nat
      BY <1>0, OffsetsSeq, MsgFacts DEF IInv, OutOK
    <3>3. Written = outTotal
      BY <1>0, <1>1, <3>2 DEF Written
    <3>4. Written' = (outTotal + Hdr + len) - (Hdr + len) + 0
      BY <1>0, <3>1 DEF Written
    <3> QED BY <1>1, <3>3, <3>4
  <2> QED BY <1>0, <1>7, <2>1, <2>2 DEF ClientOK, Cuts
<1>9. Whole(f)'
  <2>1. ASSUME NEW i \in 1..Len(got) PROVE f[i] \in 1..Len(queued') /\ got[i] = Reply(f[i])'
    <3>1. f[i] \in 1..n /\ got[i] = Reply(f[i])
      BY <1>n, <1>7 DEF ClientOK, Whole
    <3> QED BY <1>2, <3>1, SMTT(30) DEF Reply
  <2> QED BY <1>0, <1>7, <2>1 DEF ClientOK, Whole
<1>10. Place(s, f, c)'
  <2>1. \A i \in 1..Len(got) : f[i] \in 1..n
    BY <1>n, <1>7 DEF ClientOK, Whole
  <2>2. \A i \in 1..Len(got) : End(f[i])' = End(f[i])
    BY <1>3, <2>1
  <2>3. c \in 1..n => c \in 1..Len(queued') /\ queued'[c] = queued[c]
    BY <1>2
  <2> QED BY <1>0, <1>n, <1>7, <2>2, <2>3 DEF ClientOK, Place, Reading
<1>11. InTurn(s, f, c)'
  <2>1. ASSUME EveryReplyFits PROVE Len(got) + 1 \in 1..(n + 1)
    <3>1. Len(got) \in Nat
      BY DEF IInv, Types
    <3>2. ASSUME Len(got) > 0 PROVE Len(got) <= n
      <4>1. Len(got) \in 1..Len(got)
        BY <3>1, <3>2
      <4> QED BY SMTT(30), <1>n, <1>7, <2>1, <4>1 DEF ClientOK, InTurn, Whole, Reading
    <3> QED BY <3>1, <3>2
  <2>2. ASSUME EveryReplyFits PROVE Start(Len(got) + 1)' = Start(Len(got) + 1)
    BY <1>0, <1>4, <2>1, <2>2
  <2> QED BY <1>0, <1>7, <2>2 DEF ClientOK, InTurn, Reading
<1>12. Types'
  BY <1>0 DEF IInv, Types
<1> QED BY <1>5, <1>6, <1>7, <1>8, <1>9, <1>10, <1>11, <1>12 DEF IInv, ClientOK

\* The next record of out_buf is written.
LEMMA FlushStep ==
  ASSUME IInv, Flush
  PROVE  IInv'
<1> USE Sizes
<1>0. UNCHANGED <<queued, outTotal, lost, cphase, nlen, cbuf, got>> /\ lost = FALSE
      /\ outSent < Len(outBuf)
  BY DEF Flush, clientVars, IInv, Types
<1>q. QueueOK /\ QueueOK' /\ Types
  BY <1>0 DEF IInv, QueueOK, Start, End
<1>1. PICK q \in 1..Len(queued) :
        /\ q = Len(queued)
        /\ outBuf = Offsets(queued[q].start, Hdr + queued[q].len)
        /\ outSent \in 0..((Hdr + queued[q].len) - 1)
        /\ outSent = 0 \/ outSent >= Hdr
  <2>1. outBuf # <<>> \/ outSent # 0
    BY <1>0
  <2>2. Len(queued) \in Nat
    BY <1>q DEF QueueOK
  <2> QED BY <2>1, <2>2 DEF IInv, OutOK
<1>2. PICK st \in Nat, all \in Nat :
        /\ st = queued[q].start /\ all = Hdr + queued[q].len /\ all >= Hdr
        /\ End(q) = st + all /\ outTotal = st + all
  <2>1. Start(q + 1) = End(q) /\ Start(q + 1) = outTotal
    BY <1>q, <1>1 DEF QueueOK, Start
  <2>2. queued[q].start \in Nat /\ queued[q].len \in Nat
        /\ End(q) = queued[q].start + Hdr + queued[q].len
    BY <1>q, MsgFacts
  <2>3. /\ Hdr + queued[q].len \in Nat /\ Hdr + queued[q].len >= Hdr
        /\ End(q) = queued[q].start + (Hdr + queued[q].len)
    BY <2>2
  <2> QED BY <2>1, <2>2, <2>3
<1>3. outBuf = Offsets(st, all) /\ Len(outBuf) = all /\ outSent \in 0..(all - 1) /\ outSent \in Nat
  <2>0. st = queued[q].start /\ all = Hdr + queued[q].len
    BY <1>2
  <2>1. outBuf = Offsets(st, all) /\ outSent \in 0..(all - 1)
    BY <1>1, <2>0, Zenon
  <2> QED BY <2>1, OffsetsSeq
<1>4. PICK n \in Nat :
        /\ n = IF all - outSent > RecMax THEN RecMax ELSE all - outSent
        /\ back' = Append(back, SubSeq(outBuf, outSent + 1, outSent + n))
        /\ IF n = all - outSent THEN outBuf' = <<>> /\ outSent' = 0
                                ELSE outSent' = outSent + n /\ UNCHANGED outBuf
  BY <1>3 DEF Flush
<1>5. /\ n > 0 /\ outSent + n <= all /\ (outSent = 0 => n >= Hdr)
      /\ (n # all - outSent => outSent + n < all /\ n >= Hdr)
  <2>1. all - outSent \in Nat /\ all - outSent > 0
    BY <1>3
  <2>2. n = IF all - outSent > RecMax THEN RecMax ELSE all - outSent
    BY <1>4
  <2> QED BY SMTT(30), <1>2, <1>3, <2>1, <2>2
<1>6. PICK a \in Nat : a = st + outSent
  BY <1>3
<1>7. SubSeq(outBuf, outSent + 1, outSent + n) = Offsets(a, n)
  <2>1. outSent + 1 \in 1..(all + 1) /\ outSent + n \in 0..all /\ outSent + 1 <= (outSent + n) + 1
    BY <1>3, <1>5
  <2>2. SubSeq(Offsets(st, all), outSent + 1, outSent + n)
          = Offsets(st + (outSent + 1) - 1, (outSent + n) - (outSent + 1) + 1)
    BY <2>1, OffsetsSub
  <2>3. st + (outSent + 1) - 1 = a /\ (outSent + n) - (outSent + 1) + 1 = n
    BY <1>3, <1>6
  <2> QED BY <1>3, <2>2, <2>3
<1>8. OutOK'
  <2>1. CASE n = all - outSent
    BY <1>4, <2>1 DEF OutOK
  <2>2. CASE n # all - outSent
    <3>1. /\ outSent' \in 0..(all - 1) /\ outSent' >= Hdr /\ outBuf' = outBuf
      BY <1>3, <1>4, <1>5, <2>2
    <3>2. /\ Len(queued') = q /\ q > 0 /\ outBuf' = Offsets(queued'[q].start, Hdr + queued'[q].len)
          /\ outSent' \in 0..((Hdr + queued'[q].len) - 1)
      <4>1. st = queued[q].start /\ all = Hdr + queued[q].len
        BY <1>2
      <4>2. Len(queued') = q /\ q > 0 /\ queued' = queued
        BY <1>0, <1>1
      <4> QED BY <1>3, <3>1, <4>1, <4>2, Zenon
    <3> QED BY <3>1, <3>2 DEF OutOK
  <2> QED BY <2>1, <2>2
<1>9. Written = a /\ Written' = a + n
  <2>1. Written = a
    BY <1>2, <1>3, <1>6 DEF Written
  <2>2. CASE n = all - outSent
    <3>1. Len(outBuf') = 0 /\ outSent' = 0
      BY <1>4, <2>2
    <3>2. Written' = (st + all) - 0 + 0
      BY <1>0, <1>2, <3>1 DEF Written
    <3> QED BY <1>3, <1>6, <2>1, <2>2, <3>2
  <2>3. CASE n # all - outSent
    <3>1. Len(outBuf') = all /\ outSent' = outSent + n
      BY <1>3, <1>4, <2>3
    <3>2. Written' = (st + all) - all + (outSent + n)
      BY <1>0, <1>2, <3>1 DEF Written
    <3> QED BY <1>3, <1>6, <2>1, <3>2
  <2> QED BY <2>2, <2>3
<1>10. InMessage(a, a + n)'
  <2>1. \/ a = queued[q].start /\ (a + n) - a >= Hdr
        \/ a >= queued[q].start + Hdr
    <3>1. CASE outSent = 0
      BY <1>2, <1>5, <1>6, <3>1
    <3>2. CASE outSent >= Hdr
      BY <1>2, <1>3, <1>6, <3>2
    <3> QED BY <1>1, <3>1, <3>2
  <2>2. a + n <= End(q)
    <3>1. a + n = st + (outSent + n)
      BY <1>3, <1>6
    <3>2. outSent + n \in Nat /\ outSent + n <= all
      BY <1>3, <1>5
    <3>3. End(q) = st + all
      BY <1>2
    <3> QED BY <3>1, <3>2, <3>3
  <2>3. InMessage(a, a + n)
    BY <2>1, <2>2 DEF InMessage
  <2> QED BY <1>0, <2>3 DEF InMessage, End
<1>11. PICK s \in Seq(Nat), f \in Seq(Nat), c \in Nat : ClientOK(s, f, c)
  BY DEF IInv
<1>b. PICK e \in Nat : e = Len(back)
  BY DEF IInv, Types
<1>12. /\ Len(s) = e + 1 /\ s[e + 1] = a
       /\ \A i \in 1..e : /\ s[i] < s[i + 1]
                          /\ back[i] = Offsets(s[i], s[i + 1] - s[i])
                          /\ InMessage(s[i], s[i + 1])
  <2>1. Len(s) = e + 1
    BY <1>b, <1>11 DEF ClientOK, Cuts
  <2>2. s[e + 1] = a
    BY <1>0, <1>9, <1>11, <2>1 DEF ClientOK, Cuts
  <2> QED BY <1>b, <1>11, <2>1, <2>2 DEF ClientOK, Cuts
<1> DEFINE z == Append(s, a + n)
<1>13. z \in Seq(Nat) /\ Len(z) = e + 2 /\ z[e + 2] = a + n /\ \A i \in 1..(e + 1) : z[i] = s[i]
  BY <1>12
<1> HIDE DEF z
<1>14. /\ back' \in Seq(Seq(Nat)) /\ Len(back') = e + 1 /\ back'[e + 1] = Offsets(a, n)
       /\ \A i \in 1..e : back'[i] = back[i]
  <2>1. Offsets(a, n) \in Seq(Nat)
    BY OffsetsSeq
  <2>2. back \in Seq(Seq(Nat)) /\ back' = Append(back, Offsets(a, n))
    BY <1>4, <1>7 DEF IInv, Types
  <2> QED BY <1>b, <2>1, <2>2
<1>15. Cuts(z)'
  <2>1. ASSUME NEW i \in 1..(e + 1)
        PROVE  /\ z[i] < z[i + 1]
               /\ back'[i] = Offsets(z[i], z[i + 1] - z[i])
               /\ InMessage(z[i], z[i + 1])'
    <3>1. CASE i = e + 1
      <4>1. z[i] = a /\ z[i + 1] = a + n /\ (a + n) - a = n /\ a < a + n
        BY <1>5, <1>12, <1>13, <3>1
      <4> QED BY <1>10, <1>14, <3>1, <4>1
    <3>2. CASE i \in 1..e
      <4>1. z[i] = s[i] /\ z[i + 1] = s[i + 1] /\ back'[i] = back[i]
        <5>1. i \in 1..(e + 1) /\ i + 1 \in 1..(e + 1)
          BY <3>2
        <5> QED BY <1>13, <1>14, <3>2, <5>1
      <4>2. InMessage(s[i], s[i + 1]) => InMessage(s[i], s[i + 1])'
        BY <1>0 DEF InMessage, End
      <4> QED BY <1>12, <3>2, <4>1, <4>2
    <3> QED BY <3>1, <3>2
  <2>2. z[Len(z)] = Written'
    BY <1>9, <1>13
  <2> QED BY <1>13, <1>14, <2>1, <2>2 DEF Cuts
<1>16. z[1] = s[1]
  BY <1>13
<1>17. Whole(f)' /\ Place(z, f, c)'
  BY <1>0, <1>11, <1>16 DEF ClientOK, Whole, Place, Reply, End, Reading
<1>18. InTurn(z, f, c)'
  BY <1>0, <1>11, <1>16 DEF ClientOK, InTurn, Start, Reading
<1>19. Types'
  BY <1>0, <1>14 DEF IInv, Types
<1>20. z \in Seq(Nat)
  BY <1>13
<1> QED BY <1>q, <1>8, <1>15, <1>17, <1>18, <1>19, <1>20 DEF IInv, ClientOK

\* The connection breaks.
LEMMA BreakStep ==
  ASSUME IInv, Break
  PROVE  IInv'
<1>0. /\ UNCHANGED <<queued, outTotal, back, cphase, nlen, cbuf, got>>
      /\ lost = FALSE /\ lost' = TRUE /\ outBuf' = <<>> /\ outSent' = 0
  BY DEF Break, clientVars, IInv, Types
<1>1. QueueOK' /\ OutOK' /\ Types'
  BY <1>0 DEF IInv, QueueOK, OutOK, Types, Start, End
<1>2. PICK s \in Seq(Nat), f \in Seq(Nat), c \in Nat : ClientOK(s, f, c)
  BY DEF IInv
<1>3. Cuts(s)'
  BY <1>0, <1>2 DEF ClientOK, Cuts, InMessage, End
<1>4. Whole(f)' /\ Place(s, f, c)'
  BY <1>0, <1>2 DEF ClientOK, Whole, Place, Reply, End, Reading
<1>5. InTurn(s, f, c)'
  BY <1>0, <1>2 DEF ClientOK, InTurn, Start, Reading
<1> QED BY <1>1, <1>2, <1>3, <1>4, <1>5 DEF IInv, ClientOK

-----------------------------------------------------------------------------
(* The client's steps *)

\* What the steps of tlsv2_client_recv_json leave alone.
LEMMA ServerUntouched ==
  ASSUME QueueOK, OutOK, UNCHANGED <<outVars, lost>>
  PROVE  /\ QueueOK' /\ OutOK' /\ queued' = queued /\ outTotal' = outTotal
         /\ \A m : End(m)' = End(m) /\ Start(m)' = Start(m) /\ Reply(m)' = Reply(m)
BY DEF outVars, QueueOK, OutOK, Start, End, Reply

\* A call begins.
LEMMA RecvCallStep ==
  ASSUME IInv, RecvCall
  PROVE  IInv'
<1>0. /\ UNCHANGED <<outVars, lost>> /\ UNCHANGED <<back, got>>
      /\ cphase = "app" /\ cphase' = "header" /\ cbuf' = <<>>
  BY DEF RecvCall
<1>1. QueueOK' /\ OutOK' /\ queued' = queued
      /\ \A m : End(m)' = End(m) /\ Start(m)' = Start(m) /\ Reply(m)' = Reply(m)
  BY <1>0, ServerUntouched DEF IInv
<1>2. PICK s \in Seq(Nat), f \in Seq(Nat), c \in Nat : ClientOK(s, f, c)
  BY DEF IInv
<1>3. Cuts(s)'
  BY <1>0, <1>2 DEF ClientOK, Cuts, InMessage, End, outVars, Written
<1>4. Whole(f)' /\ Place(s, f, c)' /\ InTurn(s, f, c)'
  BY <1>0, <1>1, <1>2 DEF ClientOK, Whole, Place, InTurn, Reading
<1>5. Types'
  BY <1>0 DEF IInv, Types
<1> QED BY <1>1, <1>2, <1>3, <1>4, <1>5 DEF IInv, ClientOK

\* A header, or what is taken for one, is read.
LEMMA RecvHeaderStep ==
  ASSUME HeadersOnly, IInv, RecvHeader
  PROVE  IInv'
<1> USE Sizes
<1>0. /\ UNCHANGED <<outVars, lost>> /\ UNCHANGED <<cbuf, got>>
      /\ cphase = "header" /\ back # <<>> /\ back' = RecordsAfter(Hdr) /\ cbuf = <<>>
  BY DEF RecvHeader, IInv, Types
<1>q. QueueOK /\ Types /\ OutOK
  BY DEF IInv
<1>1. PICK n \in Decoded(Piece(Hdr)) :
        /\ nlen' = n
        /\ \/ TooLong(n) /\ cphase' = "app"
           \/ ~TooLong(n) /\ cphase' = "payload"
  BY DEF RecvHeader, Return
<1>2. QueueOK' /\ OutOK' /\ queued' = queued /\ outTotal' = outTotal
      /\ \A m : End(m)' = End(m) /\ Start(m)' = Start(m) /\ Reply(m)' = Reply(m)
  BY <1>0, <1>q, ServerUntouched
<1>3. PICK s \in Seq(Nat), f \in Seq(Nat), c \in Nat : ClientOK(s, f, c)
  BY DEF IInv
<1>4. /\ Taken(Hdr) \in 1..Hdr /\ s[1] + Taken(Hdr) <= s[2]
      /\ Piece(Hdr) = Offsets(s[1], Taken(Hdr))
      /\ back' \in Seq(Seq(Nat))
      /\ \E z \in Seq(Nat) : Cuts(z)' /\ z[1] = s[1] + Taken(Hdr)
  BY <1>0, <1>q, <1>3, TakeKeepsCuts DEF ClientOK
<1>5. PICK z \in Seq(Nat) : Cuts(z)' /\ z[1] = s[1] + Taken(Hdr)
  BY <1>4
<1>p. PICK p \in Nat, k \in Nat \ {0} : s[1] = p /\ s[2] = p + k /\ InMessage(p, p + k)
  BY <1>0, <1>q, <1>3, FirstRecord DEF ClientOK
<1>7. Whole(f)' /\ Types'
  BY <1>0, <1>1, <1>2, <1>3, <1>4, <1>q DEF ClientOK, Whole, Types
<1>8. \A i \in 1..Len(got) : End(f[i]) <= p /\ End(f[i]) \in Nat
  <2>1. \A i \in 1..Len(got) : End(f[i]) <= p
    BY <1>0, <1>3, <1>p DEF ClientOK, Place, Reading
  <2>2. ASSUME NEW i \in 1..Len(got) PROVE End(f[i]) \in Nat
    <3>1. f[i] \in 1..Len(queued)
      BY <1>3 DEF ClientOK, Whole
    <3> QED BY <1>q, <3>1, MsgFacts
  <2> QED BY <2>1, <2>2
<1>9. ASSUME EveryReplyFits
      PROVE  Len(got) + 1 \in 1..Len(queued) /\ p = queued[Len(got) + 1].start
  <2>1. p = Start(Len(got) + 1)
    BY <1>0, <1>3, <1>9, <1>p DEF ClientOK, InTurn, Reading
  <2>2. p < outTotal
    <3>1. PICK m \in 1..Len(queued) : p + k <= End(m)
      BY <1>p DEF InMessage
    <3>2. End(m) <= outTotal /\ End(m) \in Nat /\ outTotal \in Nat
      BY <1>q, MsgFacts
    <3> QED BY <3>1, <3>2
  <2>3. outTotal \in Nat /\ Len(got) \in Nat /\ Len(queued) \in Nat
    BY <1>q DEF QueueOK, Types
  <2>4. Len(got) + 1 <= Len(queued)
    BY <2>1, <2>2, <2>3 DEF Start
  <2> QED BY <2>1, <2>3, <2>4 DEF Start
<1>d. \/ \E m \in 1..Len(queued) :
           p = queued[m].start /\ n = queued[m].len /\ Taken(Hdr) = Hdr
      \/ (\A m \in 1..Len(queued) : p # queued[m].start) /\ n \in Texts
  BY <1>0, <1>q, <1>3, <1>4, <1>p, DecodesHeaders DEF ClientOK
<1>6. \/ \E m \in 1..Len(queued) :
           p = queued[m].start /\ n = queued[m].len /\ Taken(Hdr) = Hdr
      \/ /\ \A m \in 1..Len(queued) : p # queued[m].start
         /\ TooLong(n) \/ n = Wrap - 1
  <2>1. ASSUME n \in Texts, TextsTooLong PROVE TooLong(n) \/ n = Wrap - 1
    <3>1. n \in 0..(Wrap - 1) /\ n + 1 > MaxLen
      BY <2>1, ReplyConstants DEF TextsTooLong
    <3>2. n = Wrap - 1 \/ n + 1 < Wrap
      BY <3>1
    <3> QED BY <3>1, <3>2, NotWrapped
  <2>2. EveryReplyFits => \E m \in 1..Len(queued) : p = queued[m].start
    BY <1>9
  <2> QED BY <1>d, <2>1, <2>2 DEF HeadersOnly
<1>10. CASE TooLong(n) \/ n = Wrap - 1
  <2>1. ~Reading'
    BY <1>1, <1>10 DEF Reading
  <2>2. Place(z, f, c)'
    <3>1. z[1] \in Nat /\ z[1] >= p
      BY SMTT(30), <1>4, <1>5, <1>p
    <3>2. \A i \in 1..Len(got) : End(f[i])' <= z[1]
      BY <1>2, <1>8, <3>1
    <3> QED BY <1>0, <2>1, <3>2 DEF Place
  <2>3. ~EveryReplyFits
    <3>1. SUFFICES ASSUME EveryReplyFits PROVE FALSE
      OBVIOUS
    <3>2. PICK m \in 1..Len(queued) : n = queued[m].len
      BY <1>6, <1>9, <3>1
    <3>3. n \in Nat /\ n <= MaxJson /\ n \in ReplyLens
      BY <1>q, <3>2, MsgFacts
    <3>4. n + 1 <= MaxLen /\ n + 1 < Wrap /\ n # Wrap - 1
      BY <3>1, <3>3 DEF EveryReplyFits
    <3> QED BY <1>10, <3>3, <3>4, NotWrapped
  <2>4. InTurn(z, f, c)'
    BY <2>3 DEF InTurn
  <2> QED BY <1>2, <1>5, <1>7, <2>2, <2>4 DEF IInv, ClientOK
<1>11. CASE ~TooLong(n) /\ n # Wrap - 1
  <2>1. Reading' /\ nlen' = n
    BY <1>1, <1>11 DEF Reading
  <2>2. PICK m \in 1..Len(queued) : p = queued[m].start /\ n = queued[m].len /\ Taken(Hdr) = Hdr
    BY <1>6, <1>11
  <2>3. n \in Nat /\ n <= MaxJson /\ n + 1 <= MaxLen
    <3>1. n \in Nat /\ n <= MaxJson
      BY <1>q, <2>2, MsgFacts
    <3>2. n + 1 < Wrap
      BY <3>1
    <3> QED BY <1>11, <3>1, <3>2, NotWrapped
  <2>4. Place(z, f, m)'
    <3>1. Len(cbuf') = 0 /\ cbuf' = Offsets(queued[m].start + Hdr, 0)
      <4>1. queued[m].start + Hdr \in Nat
        BY <2>2
      <4> QED BY <1>0, <4>1, OffsetsNone
    <3>2. z[1] = queued[m].start + Hdr + 0
      BY <1>5, <1>p, <2>2
    <3>3. \A i \in 1..Len(got) : End(f[i])' <= queued[m].start
      BY <1>2, <1>8, <2>2
    <3> QED BY <1>0, <1>2, <2>1, <2>2, <2>3, <3>1, <3>2, <3>3 DEF Place
  <2>5. InTurn(z, f, m)'
    <3>1. ASSUME EveryReplyFits PROVE m = Len(got) + 1
      <4>1. Len(got) + 1 \in 1..Len(queued) /\ queued[Len(got) + 1].start = queued[m].start
        BY <1>9, <2>2, <3>1
      <4>2. PICK j \in 1..Len(queued) : j = Len(got) + 1
        BY <4>1
      <4>3. j < m => End(j) <= queued[m].start
        BY <1>q DEF QueueOK
      <4>4. m < j => End(m) <= queued[j].start
        BY <1>q DEF QueueOK
      <4>5. /\ queued[m].start < End(m) /\ queued[j].start < End(j)
            /\ queued[m].start \in Nat /\ End(m) \in Nat /\ End(j) \in Nat
        BY <1>q, MsgFacts
      <4> QED BY SMTT(30), <4>1, <4>2, <4>3, <4>4, <4>5
    <3> QED BY <1>0, <1>3, <2>1, <3>1 DEF ClientOK, InTurn
  <2> QED BY <1>2, <1>5, <1>7, <2>4, <2>5 DEF IInv, ClientOK
<1> QED BY <1>10, <1>11

\* Of a payload that fits, SSL_read is asked for the bytes that are missing.
LEMMA AskedIsRest ==
  ASSUME nlen \in Nat, nlen + 1 <= MaxLen, Len(cbuf) \in 0..nlen
  PROVE  Asked = nlen - Len(cbuf)
<1>1. PICK d \in Nat : d = nlen - Len(cbuf) /\ d <= nlen
  OBVIOUS
<1>2. 2 * d < Wrap
  BY <1>1, Sizes
<1> QED BY <1>1, <1>2 DEF Asked, AsInt

\* With the length 2^32 - 1 it is asked for -1 bytes, and the payload is not
\* complete.
LEMMA AskedWrapped ==
  ASSUME Types, cphase = "payload", nlen = Wrap - 1
  PROVE  Asked = -1 /\ Len(cbuf) # nlen
<1>1. Len(cbuf) = 0
  BY DEF Types
<1>2. nlen - Len(cbuf) = Wrap - 1 /\ Wrap \in Nat /\ Wrap > 2
  BY <1>1, Sizes
<1>3. ~(2 * (Wrap - 1) < Wrap)
  BY <1>2
<1>4. Asked = (Wrap - 1) - Wrap
  BY <1>2, <1>3 DEF Asked, AsInt
<1> QED BY <1>1, <1>2, <1>4

\* A piece of the payload is read.
LEMMA RecvPayloadStep ==
  ASSUME IInv, RecvPayload
  PROVE  IInv'
<1> USE Sizes
<1>q. QueueOK /\ Types /\ OutOK
  BY DEF IInv
<1>0. /\ UNCHANGED <<outVars, lost>> /\ UNCHANGED <<cphase, nlen, got>>
      /\ cphase = "payload" /\ back # <<>> /\ Len(cbuf) < nlen
  BY DEF RecvPayload
<1>a. cbuf' = cbuf \o Piece(Asked) /\ back' = RecordsAfter(Asked)
  BY DEF RecvPayload
<1>r. Reading /\ Reading'
  <2>1. Asked > 0
    BY DEF RecvPayload
  <2> QED BY <1>0, <1>q, <2>1, AskedWrapped DEF Reading
<1>1. QueueOK' /\ OutOK' /\ queued' = queued
      /\ \A m : End(m)' = End(m) /\ Start(m)' = Start(m) /\ Reply(m)' = Reply(m)
  BY <1>0, <1>q, ServerUntouched
<1>2. PICK s \in Seq(Nat), f \in Seq(Nat), c \in Nat : ClientOK(s, f, c)
  BY DEF IInv
<1>3. /\ c \in 1..Len(queued) /\ nlen = queued[c].len /\ nlen + 1 <= MaxLen
      /\ Len(cbuf) \in 0..nlen /\ cbuf = Offsets(queued[c].start + Hdr, Len(cbuf))
      /\ s[1] = queued[c].start + Hdr + Len(cbuf)
      /\ \A i \in 1..Len(got) : End(f[i]) <= queued[c].start
  BY <1>r, <1>2 DEF ClientOK, Place
<1>4. PICK b \in Nat, k \in Nat, len \in Nat :
        /\ b = queued[c].start + Hdr /\ k = Len(cbuf) /\ len = nlen
        /\ End(c) = b + len /\ k < len
  <2>1. /\ queued[c].start \in Nat /\ queued[c].len \in Nat
        /\ End(c) = queued[c].start + Hdr + queued[c].len
    BY <1>3, <1>q, MsgFacts
  <2>2. Len(cbuf) \in Nat /\ nlen \in Nat /\ queued[c].start + Hdr \in Nat
        /\ End(c) = (queued[c].start + Hdr) + nlen
    BY SMTT(30), <1>3, <2>1
  <2> QED BY <1>0, <2>2
<1>n. PICK n \in Nat \ {0} : n = Asked /\ n = len - k
  <2>1. len - k \in Nat \ {0}
    BY <1>4
  <2>2. Asked = nlen - Len(cbuf)
    BY <1>3, <1>4, AskedIsRest
  <2> QED BY <1>4, <2>1, <2>2
<1>5. \A m \in 1..Len(queued) : s[1] # queued[m].start
  <2>1. s[1] = b + k /\ b + k \in Nat /\ b + k >= queued[c].start + Hdr /\ b + k < End(c)
    <3>1. s[1] = b + k
      BY <1>3, <1>4
    <3>2. b + k >= b /\ b + k < b + len
      BY <1>4
    <3> QED BY SMTT(30), <1>4, <3>1, <3>2
  <2>2. ASSUME NEW m \in 1..Len(queued) PROVE b + k # queued[m].start
    <3>1. ~(b + k >= queued[m].start /\ b + k < queued[m].start + Hdr)
      BY <1>q, <1>3, <2>1, NoHeaderInside
    <3>2. queued[m].start \in Nat
      BY <1>q, MsgFacts
    <3> QED BY <3>1, <3>2
  <2> QED BY <2>1, <2>2
<1>6. /\ Taken(n) \in 1..n /\ Piece(n) = Offsets(s[1], Taken(n)) /\ back' \in Seq(Seq(Nat))
      /\ \E z \in Seq(Nat) : Cuts(z)' /\ z[1] = s[1] + Taken(n)
  BY <1>0, <1>a, <1>q, <1>n, <1>2, <1>5, TakeKeepsCuts DEF ClientOK
<1>t. PICK t \in 1..n : t = Taken(n)
  BY <1>6
<1>7. PICK z \in Seq(Nat) : Cuts(z)' /\ z[1] = s[1] + t
  BY <1>6, <1>t
<1>8. cbuf' = Offsets(b, k + t) /\ Len(cbuf') = k + t /\ k + t \in 0..len
  <2>1. cbuf = Offsets(b, k) /\ Piece(n) = Offsets(b + k, t)
    BY <1>3, <1>4, <1>6, <1>t
  <2>2. cbuf' = Offsets(b, k) \o Offsets(b + k, t)
    BY <1>a, <1>n, <2>1
  <2>3. t \in Nat /\ k + t \in Nat /\ k + t \in 0..len
    BY <1>4, <1>n
  <2>4. Offsets(b, k) \o Offsets(b + k, t) = Offsets(b, k + t)
    <3>1. b \in Nat /\ k \in Nat /\ t \in Nat
      BY <2>3
    <3> QED BY ONLY <3>1, OffsetsJoin
  <2>5. Len(Offsets(b, k + t)) = k + t
    BY <2>3, OffsetsSeq
  <2> QED BY <2>2, <2>3, <2>4, <2>5
<1>9. Place(z, f, c)'
  <2>1. z[1] = b + (k + t)
    BY <1>3, <1>4, <1>7
  <2> QED BY <1>0, <1>r, <1>1, <1>3, <1>4, <1>8, <2>1 DEF Place
<1>10. Whole(f)' /\ InTurn(z, f, c)' /\ Types'
  BY <1>0, <1>r, <1>1, <1>2, <1>6, <1>q DEF ClientOK, Whole, InTurn, Types, Reading
<1> QED BY <1>1, <1>7, <1>9, <1>10 DEF IInv, ClientOK

\* SSL_read refuses: the call returns and stays where it was in the stream.
LEMMA RecvRefusedStep ==
  ASSUME IInv, RecvRefused
  PROVE  IInv'
<1>q. QueueOK /\ Types /\ OutOK
  BY DEF IInv
<1>0. /\ UNCHANGED <<outVars, lost>> /\ UNCHANGED <<back, got>>
      /\ cphase' = "app" /\ Asked < 0
  BY DEF RecvRefused, Return
<1>1. QueueOK' /\ OutOK' /\ queued' = queued
      /\ \A m : End(m)' = End(m) /\ Start(m)' = Start(m) /\ Reply(m)' = Reply(m)
  BY <1>0, <1>q, ServerUntouched
<1>2. PICK s \in Seq(Nat), f \in Seq(Nat), c \in Nat : ClientOK(s, f, c)
  BY DEF IInv
<1>3. ~Reading
  <2> SUFFICES ASSUME Reading PROVE FALSE
    OBVIOUS
  <2>1. /\ c \in 1..Len(queued) /\ nlen = queued[c].len /\ nlen + 1 <= MaxLen
        /\ Len(cbuf) \in 0..nlen
    BY <1>2 DEF ClientOK, Place
  <2>2. nlen \in Nat
    BY <1>q, <2>1, MsgFacts
  <2> QED BY <1>0, <2>1, <2>2, AskedIsRest
<1>4. Cuts(s)'
  BY <1>0, <1>2 DEF ClientOK, Cuts, InMessage, End, outVars, Written
<1>5. ~Reading'
  BY <1>0 DEF Reading
<1>6. Whole(f)' /\ Place(s, f, c)'
  BY <1>0, <1>1, <1>2, <1>3, <1>5 DEF ClientOK, Whole, Place
<1>7. InTurn(s, f, c)'
  BY <1>0, <1>1, <1>2, <1>3, <1>5 DEF ClientOK, InTurn
<1>8. Types'
  BY <1>0, <1>q DEF Types
<1> QED BY <1>1, <1>2, <1>4, <1>6, <1>7, <1>8 DEF IInv, ClientOK

\* A message is returned.
LEMMA RecvReturnsStep ==
  ASSUME IInv, RecvReturns
  PROVE  IInv'
<1> USE Sizes
<1>q. QueueOK /\ Types /\ OutOK
  BY DEF IInv
<1>0. /\ UNCHANGED <<outVars, lost>> /\ UNCHANGED <<back, nlen, cbuf>>
      /\ cphase = "payload" /\ cphase' = "app" /\ Len(cbuf) = nlen /\ got' = Append(got, cbuf)
  BY DEF RecvReturns, Return
<1>r. Reading /\ ~Reading'
  BY <1>0, <1>q, AskedWrapped DEF Reading
<1>1. QueueOK' /\ OutOK' /\ queued' = queued
      /\ \A m : End(m)' = End(m) /\ Start(m)' = Start(m) /\ Reply(m)' = Reply(m)
  BY <1>0, <1>q, ServerUntouched
<1>2. PICK s \in Seq(Nat), f \in Seq(Nat), c \in Nat : ClientOK(s, f, c)
  BY DEF IInv
<1>3. /\ c \in 1..Len(queued) /\ nlen = queued[c].len
      /\ cbuf = Offsets(queued[c].start + Hdr, Len(cbuf))
      /\ s[1] = queued[c].start + Hdr + Len(cbuf)
      /\ \A i \in 1..Len(got) : End(f[i]) <= queued[c].start
  BY <1>r, <1>2 DEF ClientOK, Place
<1>4. cbuf = Reply(c) /\ s[1] = End(c) /\ queued[c].start < End(c)
      /\ queued[c].start \in Nat /\ End(c) \in Nat
  BY <1>0, <1>3, <1>q, MsgFacts DEF Reply, End
<1>5. cbuf \in Seq(Nat)
  <2>0. queued[c].start \in Nat /\ queued[c].len \in Nat
    BY <1>3, <1>q, MsgFacts
  <2>1. queued[c].start + Hdr \in Nat /\ queued[c].len \in Nat
    BY <2>0
  <2>2. Offsets(queued[c].start + Hdr, queued[c].len) \in Seq(Nat)
    BY <2>1, OffsetsSeq
  <2> QED BY <1>0, <1>3, <2>2
<1>g. PICK g \in Nat : g = Len(got)
  BY <1>q DEF Types
<1>6. /\ got' \in Seq(Seq(Nat)) /\ Len(got') = g + 1 /\ got'[g + 1] = cbuf
      /\ \A i \in 1..g : got'[i] = got[i]
  BY <1>0, <1>5, <1>g, <1>q DEF Types
<1> DEFINE h == Append(f, c)
<1>7. /\ h \in Seq(Nat) /\ Len(h) = g + 1 /\ h[g + 1] = c
      /\ \A i \in 1..g : h[i] = f[i]
  BY <1>2, <1>g DEF ClientOK, Whole
<1> HIDE DEF h
<1>8. \A i \in 1..g : f[i] \in 1..Len(queued) /\ got[i] = Reply(f[i]) /\ f[i] < c
      /\ End(f[i]) \in Nat /\ End(f[i]) <= queued[c].start
  <2>1. ASSUME NEW i \in 1..g PROVE f[i] \in 1..Len(queued) /\ got[i] = Reply(f[i])
    BY <1>2, <1>g DEF ClientOK, Whole
  <2>2. ASSUME NEW i \in 1..g PROVE f[i] < c /\ End(f[i]) \in Nat /\ End(f[i]) <= queued[c].start
    <3>1. End(f[i]) <= queued[c].start
      BY <1>3, <1>g
    <3>2. f[i] \in 1..Len(queued)
      BY <2>1
    <3> QED BY <1>3, <1>q, <3>1, <3>2, MsgOrder, MsgFacts
  <2> QED BY <2>1, <2>2
<1>9. Whole(h)'
  <2>1. ASSUME NEW i \in 1..(g + 1) PROVE h[i] \in 1..Len(queued) /\ got'[i] = Reply(h[i])
    <3>1. CASE i = g + 1
      BY <1>3, <1>4, <1>6, <1>7, <3>1
    <3>2. CASE i \in 1..g
      BY <1>6, <1>7, <1>8, <3>2
    <3> QED BY <3>1, <3>2
  <2>2. ASSUME NEW i \in 1..(g + 1), NEW j \in 1..(g + 1), i < j PROVE h[i] < h[j]
    <3>0. i \in 1..g
      BY <2>2
    <3>1. CASE j = g + 1
      BY <1>7, <1>8, <3>0, <3>1
    <3>2. CASE j \in 1..g
      <4>1. f[i] < f[j]
        BY <1>2, <1>g, <2>2, <3>0, <3>2 DEF ClientOK, Whole
      <4> QED BY <1>7, <3>0, <3>2, <4>1
    <3> QED BY <3>1, <3>2
  <2> QED BY <1>1, <1>6, <1>7, <2>1, <2>2 DEF Whole
<1>10. Place(s, h, c)'
  <2>1. ASSUME NEW i \in 1..(g + 1) PROVE End(h[i])' <= s[1]
    <3>1. CASE i = g + 1
      BY <1>1, <1>4, <1>7, <3>1
    <3>2. CASE i \in 1..g
      BY SMTT(30), <1>1, <1>4, <1>7, <1>8, <3>2
    <3> QED BY <3>1, <3>2
  <2> QED BY <1>r, <1>6, <2>1 DEF Place
<1>11. InTurn(s, h, c)'
  <2>1. ASSUME EveryReplyFits
        PROVE  (\A i \in 1..(g + 1) : h[i] = i) /\ s[1] = Start(g + 2)
    <3>1. c = g + 1 /\ \A i \in 1..g : f[i] = i
      BY <1>r, <1>2, <1>g, <2>1 DEF ClientOK, InTurn
    <3>2. Start(c + 1) = End(c)
      BY <1>3, <1>q DEF QueueOK
    <3>3. Start(c + 1) = Start(g + 2)
      BY <3>1
    <3>4. \A i \in 1..(g + 1) : h[i] = i
      BY <1>7, <3>1
    <3> QED BY <1>4, <3>2, <3>3, <3>4
  <2>2. Start(Len(got) + 1)' = Start(g + 2)
    <3>1. Len(got') + 1 = g + 2
      BY <1>6
    <3> QED BY <1>1, <3>1
  <2> QED BY <1>r, <1>6, <2>1, <2>2 DEF InTurn
<1>12. Cuts(s)'
  BY <1>0, <1>2 DEF ClientOK, Cuts, InMessage, End, outVars, Written
<1>13. Types'
  BY <1>0, <1>6, <1>q DEF Types
<1>14. h \in Seq(Nat)
  BY <1>7
<1> QED BY <1>1, <1>9, <1>10, <1>11, <1>12, <1>13, <1>14 DEF IInv, ClientOK

\* SSL_read fails: the call returns and stays where it was in the stream.
LEMMA RecvFailsStep ==
  ASSUME IInv, RecvFails
  PROVE  IInv'
<1>q. QueueOK /\ Types /\ OutOK
  BY DEF IInv
<1>0. /\ UNCHANGED <<outVars, lost>> /\ UNCHANGED <<back, got>>
      /\ lost /\ back = <<>> /\ cphase' = "app"
  BY DEF RecvFails, Return
<1>1. QueueOK' /\ OutOK' /\ queued' = queued
      /\ \A m : End(m)' = End(m) /\ Start(m)' = Start(m) /\ Reply(m)' = Reply(m)
  BY <1>0, <1>q, ServerUntouched
<1>2. PICK s \in Seq(Nat), f \in Seq(Nat), c \in Nat : ClientOK(s, f, c)
  BY DEF IInv
<1>3. Cuts(s)'
  BY <1>0, <1>2 DEF ClientOK, Cuts, InMessage, End, outVars, Written
<1>4. Whole(f)' /\ InTurn(s, f, c)'
  BY <1>0, <1>1, <1>2 DEF ClientOK, Whole, InTurn, Reading
<1>5. ASSUME NEW i \in 1..Len(got) PROVE End(f[i]) <= s[1]
  <2>1. CASE ~Reading
    BY <1>2, <2>1 DEF ClientOK, Place
  <2>2. CASE Reading
    <3>1. /\ c \in 1..Len(queued) /\ Len(cbuf) \in 0..nlen /\ nlen = queued[c].len
          /\ s[1] = queued[c].start + Hdr + Len(cbuf) /\ End(f[i]) <= queued[c].start
      BY <1>2, <2>2 DEF ClientOK, Place
    <3>2. f[i] \in 1..Len(queued)
      BY <1>2 DEF ClientOK, Whole
    <3>3. queued[c].start \in Nat /\ queued[c].len \in Nat /\ End(f[i]) \in Nat
      BY <1>q, <3>1, <3>2, MsgFacts
    <3>4. Len(cbuf) \in Nat /\ Hdr \in Nat
      BY <3>1, <3>3, Sizes
    <3>5. PICK a \in Nat, h \in Nat, k \in Nat :
            a = queued[c].start /\ h = Hdr /\ k = Len(cbuf)
      BY <3>3, <3>4
    <3>6. s[1] = a + h + k /\ End(f[i]) <= a
      BY <3>1, <3>5
    <3>7. a <= a + h + k /\ a + h + k \in Nat
      OBVIOUS
    <3> QED BY <3>3, <3>6, <3>7
  <2> QED BY <2>1, <2>2
<1>6. Place(s, f, c)'
  BY <1>0, <1>1, <1>5 DEF Place, Reading
<1>7. Types'
  BY <1>0, <1>q DEF Types
<1> QED BY <1>1, <1>2, <1>3, <1>4, <1>6, <1>7 DEF IInv, ClientOK

-----------------------------------------------------------------------------
(* The theorems *)

\* The invariant holds before the first message.
LEMMA InitInv == Init => IInv
<1> SUFFICES ASSUME Init PROVE IInv
  OBVIOUS
<1>0. /\ queued = <<>> /\ outTotal = 0 /\ outBuf = <<>> /\ outSent = 0
      /\ back = <<>> /\ lost = FALSE /\ cphase = "app" /\ got = <<>>
  BY DEF Init
<1>1. Len(queued) = 0 /\ Len(got) = 0 /\ Len(back) = 0 /\ Len(outBuf) = 0
  BY <1>0
<1>2. Types /\ OutOK
  BY <1>0, EmptySeq DEF Types, OutOK
<1>3. QueueOK
  <2>1. queued \in Seq(Msg) /\ Start(1) = 0
    BY <1>0, <1>1 DEF Start
  <2> QED BY <1>0, <1>1, <2>1 DEF QueueOK
<1>4. PICK s \in Seq(Nat) : Len(s) = 1 /\ s[1] = 0
  <2>1. <<0>> \in Seq(Nat) /\ Len(<<0>>) = 1 /\ <<0>>[1] = 0
    OBVIOUS
  <2> QED BY <2>1
<1>5. PICK f \in Seq(Nat) : Len(f) = 0
  BY EmptySeq
<1>6. Cuts(s)
  <2>1. Written = 0
    <3>1. Len(outBuf) = 0 /\ outTotal = 0 /\ outSent = 0
      BY <1>0, <1>1
    <3> QED BY <3>1 DEF Written
  <2> QED BY <1>0, <1>1, <1>4, <2>1 DEF Cuts
<1>7. Whole(f) /\ Place(s, f, 0)
  BY <1>0, <1>1, <1>5 DEF Whole, Place, Reading
<1>8. InTurn(s, f, 0)
  BY <1>0, <1>1, <1>3, <1>4 DEF InTurn, QueueOK, Reading
<1> QED BY <1>2, <1>3, <1>6, <1>7, <1>8 DEF IInv, ClientOK

\* Every step keeps the invariant.
LEMMA NextInv ==
  ASSUME HeadersOnly
  PROVE  IInv /\ [Next]_vars => IInv'
<1> SUFFICES ASSUME IInv, [Next]_vars PROVE IInv'
  OBVIOUS
<1>1. CASE UNCHANGED vars
  <2>1. UNCHANGED <<queued, outTotal, outBuf, outSent, back, lost, cphase, nlen, cbuf, got>>
    BY <1>1 DEF vars, outVars, clientVars
  <2>2. Types' /\ QueueOK' /\ OutOK'
    BY <2>1 DEF IInv, Types, QueueOK, OutOK, Start, End
  <2>3. PICK s \in Seq(Nat), f \in Seq(Nat), c \in Nat : ClientOK(s, f, c)
    BY DEF IInv
  <2>4. Cuts(s)'
    BY <2>1, <2>3 DEF ClientOK, Cuts, InMessage, End, Written
  <2>5. Whole(f)' /\ Place(s, f, c)' /\ InTurn(s, f, c)'
    BY <2>1, <2>3 DEF ClientOK, Whole, Place, InTurn, Reply, Start, End, Reading
  <2> QED BY <2>2, <2>4, <2>5 DEF IInv, ClientOK
<1>2. CASE \E len \in ReplyLens : QueueSend(len)
  BY <1>2, QueueStep
<1>3. CASE Flush
  BY <1>3, FlushStep
<1>4. CASE Break
  BY <1>4, BreakStep
<1>5. CASE Recv
  BY <1>5, RecvCallStep, RecvHeaderStep, RecvPayloadStep, RecvRefusedStep,
     RecvReturnsStep, RecvFailsStep DEF Recv
<1> QED BY <1>1, <1>2, <1>3, <1>4, <1>5 DEF Next

\* The inductive invariant holds in every reachable state.
THEOREM Inductive ==
  ASSUME HeadersOnly
  PROVE  Spec => []IInv
BY InitInv, NextInv, PTL DEF Spec

\* Whatever the sizes of messages, records and buffers, what recv_json returns
\* are whole messages, each once and in their order, also behind a message that
\* was too long: if no part of a payload reads as a length that fits.
THEOREM WholeMessagesOnly ==
  ASSUME TextsTooLong
  PROVE  Spec => []SkipsWholeMessages
<1>1. ASSUME IInv PROVE SkipsWholeMessages
  <2>1. PICK f \in Seq(Nat) : Whole(f)
    BY <1>1 DEF IInv, ClientOK
  <2>2. DOMAIN got = 1..Len(got) /\ DOMAIN queued = 1..Len(queued)
    BY <1>1 DEF IInv, Types, QueueOK
  <2>3. f \in [DOMAIN got -> DOMAIN queued]
    <3>1. DOMAIN f = DOMAIN got /\ \A i \in DOMAIN got : f[i] \in DOMAIN queued
      BY <2>1, <2>2 DEF Whole
    <3>2. f = [i \in DOMAIN f |-> f[i]]
      BY <2>1
    <3> QED BY <3>1, <3>2
  <2> QED BY <2>1, <2>2, <2>3 DEF Whole, SkipsWholeMessages
<1>2. HeadersOnly
  BY DEF HeadersOnly
<1> QED BY <1>1, <1>2, Inductive, PTL

\* A caller whose buffer is large enough for every message gets the queued
\* messages one by one, complete and in order.
THEOREM FittingRepliesIntact ==
  ASSUME EveryReplyFits
  PROVE  Spec => []RepliesIntact
<1>1. ASSUME IInv PROVE RepliesIntact
  <2>1. PICK f \in Seq(Nat) : /\ Whole(f) /\ \A i \in 1..Len(got) : f[i] = i
    BY <1>1 DEF IInv, ClientOK, InTurn, Reading
  <2>2. \A i \in 1..Len(got) : i \in 1..Len(queued) /\ got[i] = Reply(i)
    BY <2>1 DEF Whole
  <2>3. Len(got) \in Nat /\ Len(queued) \in Nat
    BY <1>1 DEF IInv, Types, QueueOK
  <2>4. Len(got) <= Len(queued)
    <3>1. CASE Len(got) = 0
      BY <2>3, <3>1
    <3>2. CASE Len(got) > 0
      <4>1. Len(got) \in 1..Len(got)
        BY <2>3, <3>2
      <4> QED BY <2>2, <2>3, <4>1
    <3> QED BY <2>3, <3>1, <3>2
  <2> QED BY <2>2, <2>4 DEF RepliesIntact
<1>2. HeadersOnly
  BY DEF HeadersOnly
<1> QED BY <1>1, <1>2, Inductive, PTL

\* When the client has got every message, the out buffer is empty.
LEMMA NothingPending ==
  ASSUME EveryReplyFits, IInv, ~lost, Len(got) = Len(queued)
  PROVE  Len(outBuf) = outSent
<1> USE Sizes
<1>q. QueueOK /\ Types
  BY DEF IInv
<1>1. PICK s \in Seq(Nat), f \in Seq(Nat), c \in Nat : ClientOK(s, f, c)
  BY DEF IInv
<1>2. SUFFICES ASSUME outBuf # <<>> \/ outSent # 0 PROVE FALSE
  OBVIOUS
<1>3. PICK q \in 1..Len(queued) :
        /\ q = Len(queued)
        /\ outBuf = Offsets(queued[q].start, Hdr + queued[q].len)
        /\ outSent \in 0..((Hdr + queued[q].len) - 1)
  <2>1. Len(queued) \in Nat
    BY <1>q DEF QueueOK
  <2>2. /\ Len(queued) > 0
        /\ outBuf = Offsets(queued[Len(queued)].start, Hdr + queued[Len(queued)].len)
        /\ outSent \in 0..((Hdr + queued[Len(queued)].len) - 1)
    BY <1>2 DEF IInv, OutOK
  <2>3. Len(queued) \in 1..Len(queued)
    BY <2>1, <2>2
  <2> QED BY <2>2, <2>3, Zenon
<1>4. ~Reading
  <2>1. SUFFICES ASSUME Reading PROVE FALSE
    OBVIOUS
  <2>2. c = Len(got) + 1 /\ c \in 1..Len(queued)
    BY <1>1, <2>1 DEF ClientOK, InTurn, Place
  <2> QED BY <1>3, <2>2
<1>5. s[1] = outTotal
  <2>1. s[1] = Start(q + 1)
    BY <1>1, <1>3, <1>4 DEF ClientOK, InTurn
  <2> QED BY <1>3, <2>1 DEF Start
<1>6. back = <<>>
  <2>1. SUFFICES ASSUME back # <<>> PROVE FALSE
    OBVIOUS
  <2>2. PICK p \in Nat, k \in Nat \ {0} : s[1] = p /\ InMessage(p, p + k)
    BY <1>1, <1>q, <2>1, FirstRecord DEF ClientOK
  <2>3. PICK m \in 1..Len(queued) : p + k <= End(m)
    BY <2>2 DEF InMessage
  <2>4. End(m) <= outTotal /\ End(m) \in Nat /\ outTotal \in Nat
    BY <1>q, MsgFacts
  <2> QED BY <1>5, <2>2, <2>3, <2>4
<1>7. Len(back) = 0 /\ Len(s) = 1
  BY <1>1, <1>6 DEF ClientOK, Cuts
<1>8. Written = outTotal
  BY <1>1, <1>5, <1>7 DEF ClientOK, Cuts
<1>9. queued[q].start \in Nat /\ queued[q].len \in Nat /\ outTotal \in Nat
  BY <1>q, MsgFacts
<1>10. PICK all \in Nat : all = Hdr + queued[q].len
  BY <1>9
<1>11. Len(outBuf) = all /\ outSent \in 0..(all - 1)
  <2>1. outBuf = Offsets(queued[q].start, all) /\ outSent \in 0..(all - 1)
    BY <1>3, <1>10
  <2> QED BY <1>9, <2>1, OffsetsSeq
<1> QED BY <1>8, <1>9, <1>11 DEF Written

-----------------------------------------------------------------------------
(* The caller's buffer, for a client in step with the stream or out of it *)

\* What is on its way, what was decoded and how far the payload is read.
FitInv ==
    /\ queued \in Seq([start : Nat, len : 0..MaxJson]) /\ outTotal \in Nat
    /\ outBuf \in Seq(Nat) /\ outSent \in 0..Len(outBuf)
    /\ back \in Seq(Seq(Nat)) /\ cbuf \in Seq(Nat) /\ nlen \in 0..(Wrap - 1)
    /\ cphase = "header" => cbuf = <<>>
    /\ cphase = "payload" => \/ nlen + 1 <= MaxLen /\ Len(cbuf) <= nlen
                             \/ nlen = Wrap - 1 /\ cbuf = <<>>

\* A number that passes the comparison fits, or wraps to 0.
LEMMA PassesOrWraps ==
  ASSUME NEW n \in 0..(Wrap - 1), ~TooLong(n)
  PROVE  n + 1 <= MaxLen \/ n = Wrap - 1
<1>1. CASE n + 1 < Wrap
  BY <1>1, NotWrapped, Sizes
<1>2. CASE ~(n + 1 < Wrap)
  BY <1>2, Sizes
<1> QED BY <1>1, <1>2

\* Whatever the bytes, what is decoded is a 32-bit number.
LEMMA Decodes32 ==
  ASSUME FitInv, NEW b, NEW n \in Decoded(b)
  PROVE  n \in 0..(Wrap - 1)
<1>1. ASSUME NEW m \in DOMAIN queued PROVE queued[m].len \in 0..(Wrap - 1)
  <2>1. queued[m] \in [start : Nat, len : 0..MaxJson]
    <3>1. queued \in Seq([start : Nat, len : 0..MaxJson])
      BY DEF FitInv
    <3>2. m \in 1..Len(queued)
      BY <3>1
    <3> QED BY ONLY <3>1, <3>2, ElementOfSeq
  <2>2. queued[m].len \in 0..MaxJson
    BY <2>1
  <2> QED BY <2>2, Sizes
<1> QED BY <1>1, ReplyConstants DEF Decoded

\* A part of a sequence is one.
LEMMA PartOfSeq ==
  ASSUME NEW q \in Seq(Nat), NEW i \in Nat, NEW j \in 0..Len(q)
  PROVE  SubSeq(q, i + 1, j) \in Seq(Nat)
<1>1. \A x \in (i + 1)..j : x \in 1..Len(q)
  OBVIOUS
<1>2. \A x \in (i + 1)..j : q[x] \in Nat
  BY <1>1
<1>3. i + 1 \in Int /\ j \in Int
  OBVIOUS
<1> QED BY ONLY <1>2, <1>3, SubSeqProperties

\* A read takes at most what it was asked for.
LEMMA PieceShort ==
  ASSUME back \in Seq(Seq(Nat)), back # <<>>, NEW n \in Nat
  PROVE  /\ Piece(n) \in Seq(Nat) /\ Len(Piece(n)) <= n
         /\ RecordsAfter(n) \in Seq(Seq(Nat))
<1>1. PICK h \in Seq(Nat) : h = Head(back)
  BY EmptySeq
<1>2. PICK k \in Nat : k = Len(h)
  BY <1>1
<1>3. PICK t \in 0..k : t = Taken(n) /\ t <= n
  BY <1>1, <1>2 DEF Taken
<1>4. SubSeq(h, 1, t) \in Seq(Nat) /\ Len(SubSeq(h, 1, t)) = t
  <2>1. \A x \in 1..t : h[x] \in Nat
    BY <1>2, <1>3
  <2>2. 1 \in Int /\ t \in Int /\ (IF 1 <= t THEN t - 1 + 1 ELSE 0) = t
    BY <1>3
  <2>3. /\ SubSeq(h, 1, t) \in Seq(Nat)
        /\ Len(SubSeq(h, 1, t)) = IF 1 <= t THEN t - 1 + 1 ELSE 0
    BY ONLY <2>1, <2>2, SubSeqProperties
  <2> QED BY <2>2, <2>3
<1>5. SubSeq(h, t + 1, k) \in Seq(Nat)
  BY <1>2, <1>3, PartOfSeq
<1>6. Tail(back) \in Seq(Seq(Nat))
  OBVIOUS
<1>7. <<SubSeq(h, t + 1, k)>> \o Tail(back) \in Seq(Seq(Nat))
  BY <1>5, <1>6
<1>8. Piece(n) = SubSeq(h, 1, t)
  BY <1>1, <1>3 DEF Piece
<1>9. RecordsAfter(n) \in {Tail(back), <<SubSeq(h, t + 1, k)>> \o Tail(back)}
  BY <1>1, <1>2, <1>3 DEF RecordsAfter
<1> QED BY <1>3, <1>4, <1>6, <1>7, <1>8, <1>9

\* The server's steps keep FitInv.
LEMMA ServerFit ==
  ASSUME FitInv, (\E len \in ReplyLens : QueueSend(len)) \/ Flush \/ Break
  PROVE  FitInv'
<1>0. UNCHANGED <<cphase, nlen, cbuf>>
  BY DEF QueueSend, Flush, Break, clientVars
<1>1. CASE \E len \in ReplyLens : QueueSend(len)
  <2>1. PICK len \in ReplyLens : QueueSend(len)
    BY <1>1
  <2>2. len \in Nat /\ len <= MaxJson
    BY <2>1, Sizes DEF QueueSend, Accepts
  <2>3. PICK x \in [start : Nat, len : 0..MaxJson] : queued' = Append(queued, x)
    <3>1. [start |-> outTotal, len |-> len] \in [start : Nat, len : 0..MaxJson]
      BY <2>2, Sizes DEF FitInv
    <3> QED BY <2>1, <3>1 DEF QueueSend
  <2>4. queued' \in Seq([start : Nat, len : 0..MaxJson])
    BY <2>3 DEF FitInv
  <2>5. Hdr + len \in Nat /\ outTotal \in Nat
    BY <2>2, Sizes DEF FitInv
  <2>6. outBuf' \in Seq(Nat) /\ outSent' = 0 /\ outTotal' \in Nat /\ UNCHANGED back
    <3>1. Offsets(outTotal, Hdr + len) \in Seq(Nat)
      BY <2>5, OffsetsSeq
    <3>2. outTotal + Hdr + len \in Nat
      BY <2>2, <2>5, Sizes
    <3> QED BY <2>1, <3>1, <3>2 DEF QueueSend
  <2>7. outSent' \in 0..Len(outBuf')
    BY <2>6
  <2> QED BY <1>0, <2>4, <2>6, <2>7 DEF FitInv
<1>2. CASE Flush
  <2>1. PICK k \in Nat, u \in Nat : k = Len(outBuf) /\ u = outSent /\ u < k
    BY <1>2 DEF FitInv, Flush
  <2>2. PICK n \in Nat :
          /\ n <= k - u
          /\ back' = Append(back, SubSeq(outBuf, u + 1, u + n))
          /\ \/ outBuf' = <<>> /\ outSent' = 0
             \/ outSent' = u + n /\ UNCHANGED outBuf
    <3>1. (IF k - u > RecMax THEN RecMax ELSE k - u) \in Nat
          /\ (IF k - u > RecMax THEN RecMax ELSE k - u) <= k - u
      BY <2>1, Sizes
    <3> QED BY <1>2, <2>1, <3>1 DEF Flush
  <2>3. SubSeq(outBuf, u + 1, u + n) \in Seq(Nat)
    <3>1. outBuf \in Seq(Nat) /\ u + n \in 0..Len(outBuf)
      BY <2>1, <2>2 DEF FitInv
    <3> QED BY <3>1, PartOfSeq
  <2>4. back' \in Seq(Seq(Nat))
    BY <2>2, <2>3 DEF FitInv
  <2>5. outBuf' \in Seq(Nat) /\ outSent' \in 0..Len(outBuf')
    <3>1. CASE outBuf' = <<>> /\ outSent' = 0
      BY <3>1
    <3>2. CASE outSent' = u + n /\ UNCHANGED outBuf
      BY <2>1, <2>2, <3>2 DEF FitInv
    <3> QED BY <2>2, <3>1, <3>2
  <2>6. UNCHANGED <<queued, outTotal>>
    BY <1>2 DEF Flush
  <2> QED BY <1>0, <2>4, <2>5, <2>6 DEF FitInv
<1>3. CASE Break
  <2>1. UNCHANGED <<queued, outTotal, back>> /\ outBuf' = <<>> /\ outSent' = 0
    BY <1>3 DEF Break
  <2>2. outBuf' \in Seq(Nat) /\ outSent' \in 0..Len(outBuf')
    BY <2>1
  <2> QED BY <1>0, <2>1, <2>2 DEF FitInv
<1> QED BY <1>1, <1>2, <1>3

\* So do the client's.
LEMMA ClientFit ==
  ASSUME FitInv, Recv
  PROVE  FitInv'
<1>0. UNCHANGED outVars
  BY DEF Recv, RecvCall, RecvHeader, RecvPayload, RecvRefused, RecvReturns, RecvFails
<1>o. /\ queued' \in Seq([start : Nat, len : 0..MaxJson]) /\ outTotal' \in Nat
      /\ outBuf' \in Seq(Nat) /\ outSent' \in 0..Len(outBuf')
  BY <1>0 DEF FitInv, outVars
<1>1. CASE RecvCall
  <2>1. cphase' = "header" /\ nlen' = 0 /\ cbuf' = <<>> /\ UNCHANGED back
    BY <1>1 DEF RecvCall
  <2>2. nlen' \in 0..(Wrap - 1) /\ cbuf' \in Seq(Nat)
    BY <2>1, Sizes
  <2> QED BY <1>o, <2>1, <2>2 DEF FitInv
<1>2. CASE RecvHeader
  <2>1. PICK n \in Decoded(Piece(Hdr)) :
          /\ nlen' = n
          /\ cphase' = "app" \/ (~TooLong(n) /\ cphase' = "payload")
    BY <1>2 DEF RecvHeader, Return
  <2>2. cbuf = <<>> /\ UNCHANGED cbuf /\ back # <<>> /\ back' = RecordsAfter(Hdr)
    BY <1>2 DEF RecvHeader, FitInv
  <2>3. n \in 0..(Wrap - 1)
    BY <2>1, Decodes32
  <2>4. back' \in Seq(Seq(Nat))
    BY <2>2, PieceShort, Sizes DEF FitInv
  <2>5. cphase' = "payload" => \/ n + 1 <= MaxLen /\ Len(cbuf') <= n
                               \/ n = Wrap - 1 /\ cbuf' = <<>>
    <3>1. Len(cbuf') = 0 /\ cbuf' = <<>>
      BY <2>2
    <3> QED BY <2>1, <2>3, <3>1, PassesOrWraps
  <2>6. cphase' # "header" /\ cbuf' \in Seq(Nat)
    BY <2>1, <2>2
  <2> QED BY <1>o, <2>1, <2>3, <2>4, <2>5, <2>6 DEF FitInv
<1>3. CASE RecvPayload
  <2>0. /\ cphase = "payload" /\ back # <<>> /\ Asked > 0
        /\ cbuf' = cbuf \o Piece(Asked) /\ back' = RecordsAfter(Asked)
        /\ UNCHANGED <<cphase, nlen>>
    BY <1>3 DEF RecvPayload
  <2>1. PICK k \in Nat, len \in Nat : k = Len(cbuf) /\ len = nlen /\ len \in 0..(Wrap - 1)
    BY Sizes DEF FitInv
  <2>2. len + 1 <= MaxLen /\ k <= len
    <3>1. SUFFICES ASSUME len = Wrap - 1, k = 0 PROVE FALSE
      BY <2>0, <2>1 DEF FitInv
    <3>2. Asked = AsInt(Wrap - 1)
      BY <2>1, <3>1, Sizes DEF Asked
    <3>3. AsInt(Wrap - 1) = -1
      BY Sizes DEF AsInt
    <3> QED BY <2>0, <3>2, <3>3
  <2>3. PICK n \in Nat : n = Asked /\ n = len - k
    <3>1. Asked = nlen - Len(cbuf)
      BY <2>1, <2>2, AskedIsRest
    <3>2. len - k \in Nat
      BY <2>2
    <3> QED BY <2>1, <3>1, <3>2
  <2>4. Piece(n) \in Seq(Nat) /\ Len(Piece(n)) <= n /\ back' \in Seq(Seq(Nat))
    BY <2>0, <2>3, PieceShort DEF FitInv
  <2>5. cbuf \in Seq(Nat) /\ cbuf' = cbuf \o Piece(n)
    BY <2>0, <2>3 DEF FitInv
  <2>6. cbuf' \in Seq(Nat) /\ Len(cbuf') = k + Len(Piece(n))
    BY <2>1, <2>4, <2>5
  <2>7. Len(cbuf') <= len
    <3>1. PICK j \in Nat : j = Len(Piece(n)) /\ j <= n
      BY <2>4
    <3> QED BY <2>2, <2>3, <2>6, <3>1
  <2>8. nlen' = len /\ cphase' = "payload"
    BY <2>0, <2>1
  <2> QED BY <1>o, <2>1, <2>2, <2>4, <2>6, <2>7, <2>8 DEF FitInv
<1>4. CASE RecvRefused \/ RecvReturns \/ RecvFails
  <2>1. cphase' = "app" /\ UNCHANGED <<back, nlen, cbuf>>
    BY <1>4 DEF RecvRefused, RecvReturns, RecvFails, Return
  <2> QED BY <1>o, <2>1 DEF FitInv
<1> QED BY <1>1, <1>2, <1>3, <1>4 DEF Recv

\* tlsv2_client_recv_json never writes outside the caller's buffer, whatever
\* 32-bit number it takes for a length: one that passes nlen + 1 > maxlen only
\* because the sum is 0 becomes a request for -1 bytes, which SSL_read refuses.
THEOREM PayloadFits == Spec => []FitsBuffer
<1>1. Init => FitInv
  <2> SUFFICES ASSUME Init PROVE FitInv
    OBVIOUS
  <2>1. /\ queued = <<>> /\ outTotal = 0 /\ outBuf = <<>> /\ outSent = 0
        /\ back = <<>> /\ cphase = "app" /\ nlen = 0 /\ cbuf = <<>>
    BY DEF Init
  <2>2. /\ queued \in Seq([start : Nat, len : 0..MaxJson]) /\ outBuf \in Seq(Nat)
        /\ back \in Seq(Seq(Nat)) /\ cbuf \in Seq(Nat)
    BY <2>1
  <2>3. outSent \in 0..Len(outBuf) /\ nlen \in 0..(Wrap - 1) /\ outTotal \in Nat
    BY <2>1, Sizes
  <2> QED BY <2>1, <2>2, <2>3 DEF FitInv
<1>2. FitInv /\ [Next]_vars => FitInv'
  <2> SUFFICES ASSUME FitInv, [Next]_vars PROVE FitInv'
    OBVIOUS
  <2>1. CASE UNCHANGED vars
    BY <2>1 DEF vars, outVars, clientVars, FitInv
  <2> QED BY <2>1, ServerFit, ClientFit DEF Next
<1>3. ASSUME FitInv PROVE FitsBuffer
  <2> SUFFICES ASSUME cphase = "payload", Asked >= 0 PROVE Len(cbuf) + Asked + 1 <= MaxLen
    BY DEF FitsBuffer
  <2>1. PICK k \in Nat, len \in Nat : k = Len(cbuf) /\ len = nlen
    BY <1>3, Sizes DEF FitInv
  <2>2. len + 1 <= MaxLen /\ k <= len
    <3>1. SUFFICES ASSUME len = Wrap - 1, k = 0 PROVE FALSE
      BY <1>3, <2>1 DEF FitInv
    <3>2. Asked = AsInt(Wrap - 1)
      BY <2>1, <3>1, Sizes DEF Asked
    <3>3. AsInt(Wrap - 1) = -1
      BY Sizes DEF AsInt
    <3> QED BY <3>2, <3>3
  <2>3. Asked = len - k
    BY <2>1, <2>2, AskedIsRest
  <2> QED BY <2>1, <2>2, <2>3, Sizes
<1> QED BY <1>1, <1>2, <1>3, PTL DEF Spec
=============================================================================
