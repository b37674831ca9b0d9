---------------------------- MODULE GfnsWsProofs ----------------------------
(***************************************************************************)
(* Proofs about GfnsWs, for every number of WebSockets, handles, frames    *)
(* and bytes: the map of handles leads to live objects only, a program     *)
(* that closes its newest handle first keeps its handles, and frames       *)
(* are returned in order as long as the reader is in step with them.       *)
(***************************************************************************)
EXTENDS GfnsWs, FiniteSetTheorems, SequenceTheorems, TLAPS

(* The inductive invariant: the objects and their handles *)

Phases == {"idle", "handshake", "header", "ext", "mask", "payload"}

\* What is allocated was opened, and the running call works on one of those; a
\* WebSocket in its handshake has no handle yet.
ObjectsOK ==
    /\ live \subseteq used /\ used \subseteq Ws
    /\ DOMAIN held \subseteq used
    /\ phase \in Phases
    /\ busy \in Ws \cup {NoWs} /\ (phase = "idle" <=> busy = NoWs)
    /\ phase = "handshake" =>
           busy \notin DOMAIN held /\ \A h \in DOMAIN handles : handles[h] # busy

\* As long as handles are closed in the reverse order of their opening, they are
\* 1..n, and the program's handles and the map are inverse to each other.
StackOfHandles ==
    /\ \E n \in Nat : DOMAIN handles = 1..n
    /\ \A h \in DOMAIN handles : handles[h] \in DOMAIN held /\ held[handles[h]] = h
    /\ \A w \in DOMAIN held : held[w] \in DOMAIN handles /\ handles[held[w]] = w

RegistryInv == ObjectsOK /\ HandlesAlive /\ (~reused => StackOfHandles)

(* ... and the stream of one WebSocket *)

Frame == [ext : {0, 2, 8}, len : Nat, end : Nat]

\* The frames a server wrote lie one behind the other.
FramesOK(w) ==
    /\ frames[w] \in Seq(Frame)
    /\ \A m \in 1..Len(frames[w]) :
           frames[w][m].end = Start(w, m) + 2 + frames[w][m].ext + frames[w][m].len
    /\ \A a, b \in 1..(Len(frames[w]) + 1) : a < b => Start(w, a) < Start(w, b)

BytesOK(w) ==
    /\ pos[w] \in Nat /\ arrived[w] \in Nat
    /\ pos[w] <= arrived[w] /\ arrived[w] <= Written(w)
    /\ recvd[w] \in Seq(Nat \X Nat)

\* The frame the reader is in, and where it stands in it.
Current(w) == Len(recvd[w]) + 1

InFrame(w) ==
    /\ Current(w) <= Len(frames[w])
    /\ phase = "ext" => /\ rx.ext = frames[w][Current(w)].ext /\ ~rx.masked
                        /\ pos[w] = Start(w, Current(w)) + 2
    /\ phase = "payload" => /\ rx.len = frames[w][Current(w)].len
                            /\ pos[w] = frames[w][Current(w)].end - rx.len

InStep(w) ==
    /\ Len(recvd[w]) <= Len(frames[w])
    /\ \A m \in 1..Len(recvd[w]) : recvd[w][m] = Payload(w, m)
    /\ sync[w] = "long" => /\ Current(w) <= Len(frames[w])
                           /\ frames[w][Current(w)].len > BufSize
    /\ sync[w] = "in" =>
        /\ busy = w => phase \in {"header", "ext", "payload"}
        /\ busy # w \/ phase = "header" => pos[w] = Start(w, Current(w))
        /\ busy = w /\ phase \in {"ext", "payload"} => InFrame(w)

\* Nothing is read before the handshake is over.
Unread(w) ==
    w \notin used \/ (phase = "handshake" /\ busy = w) =>
        recvd[w] = <<>> /\ sync[w] = "none"

RxOK == rx \in [masked : BOOLEAN, ext : {0, 2, 8}, len : Nat]

StreamType ==
    /\ DOMAIN frames = Ws /\ DOMAIN arrived = Ws /\ DOMAIN pos = Ws
    /\ DOMAIN recvd = Ws /\ DOMAIN sync = Ws

StreamInv ==
    /\ RxOK /\ StreamType
    /\ \A w \in Ws : FramesOK(w) /\ BytesOK(w) /\ InStep(w) /\ Unread(w)

IInv == RegistryInv /\ StreamInv

-----------------------------------------------------------------------------
(* The registry *)

\* A read of gfns_ws_recv leaves the registry alone and goes on with the same
\* WebSocket or returns.
LEMMA ReadsControl ==
  ASSUME Reads \/ ReadFails
  PROVE  /\ UNCHANGED registry
         /\ phase \in {"header", "ext", "mask", "payload"}
         /\ \/ phase' = "idle" /\ busy' = NoWs
            \/ phase' \in {"ext", "mask", "payload"} /\ busy' = busy
<1>1. CASE ReadFails
  BY <1>1 DEF ReadFails, Fails
<1>2. CASE Reads
  <2>1. PICK r \in Decoded :
          IF Got(busy, Want) < Want THEN Fails("cut")
          ELSE IF FieldBehind(r) = "refused" THEN Fails("long")
          ELSE IF FieldBehind(r) = "done"
          THEN /\ recvd' = [recvd EXCEPT ![busy] =
                              IF sync[busy] = "in" THEN Append(@, <<pos[busy], pos'[busy]>>) ELSE @]
               /\ phase' = "idle" /\ busy' = NoWs /\ rx' = NoFrame /\ UNCHANGED sync
          ELSE phase' = FieldBehind(r) /\ rx' = r /\ UNCHANGED <<busy, recvd, sync>>
    BY <1>2 DEF Reads
  <2>2. FieldBehind(r) \in {"ext", "mask", "payload", "done", "refused"}
    BY DEF FieldBehind
  <2>3. \/ phase' = "idle" /\ busy' = NoWs
        \/ phase' \in {"ext", "mask", "payload"} /\ busy' = busy
    BY <2>1, <2>2 DEF Fails
  <2> QED BY <1>2, <2>3 DEF Reads
<1> QED BY <1>1, <1>2

\* The new element of the map, and the handle the program is given.
LEMMA NewElementKeepsRegistry ==
  ASSUME RegistryInv, phase = "handshake", NEW h \in {NewHandle} \cup Explicit,
         handles' = [k \in DOMAIN handles \cup {h} |-> IF k = h THEN busy ELSE handles[k]],
         held' = [w \in DOMAIN held \cup {busy} |-> IF w = busy THEN h ELSE held[w]],
         reused' = (reused \/ h # NewHandle),
         phase' = "idle", busy' = NoWs, UNCHANGED <<live, used>>
  PROVE  RegistryInv'
<1> USE GfnsConstants DEF RegistryInv, ObjectsOK, Phases
<1>1. busy \in Ws /\ busy \in live /\ busy \notin DOMAIN held
      /\ \A k \in DOMAIN handles : handles[k] # busy
  BY DEF HandlesAlive
<1>2. ObjectsOK'
  BY <1>1
<1>3. /\ DOMAIN handles' = DOMAIN handles \cup {h} /\ handles'[h] = busy
      /\ \A k \in DOMAIN handles : k # h => handles'[k] = handles[k]
  OBVIOUS
<1>4. HandlesAlive'
  BY <1>1, <1>3 DEF HandlesAlive
<1>5. ASSUME ~reused' PROVE StackOfHandles'
  <2>1. ~reused /\ h = NewHandle /\ StackOfHandles
    BY <1>5
  <2>2. PICK n \in Nat : DOMAIN handles = 1..n
    BY <2>1 DEF StackOfHandles
  <2>3. h = n + 1
    <3>1. Cardinality(1..n) = n
      BY FS_Interval
    <3> QED BY <2>1, <2>2, <3>1 DEF NewHandle
  <2>4. h \notin DOMAIN handles /\ DOMAIN handles' = 1..(n + 1) /\ n + 1 \in Nat
    BY <1>3, <2>2, <2>3
  <2>5. /\ DOMAIN held' = DOMAIN held \cup {busy} /\ held'[busy] = h
        /\ \A w \in DOMAIN held : held'[w] = held[w]
    BY <1>1
  <2>6. \A k \in DOMAIN handles' : handles'[k] \in DOMAIN held' /\ held'[handles'[k]] = k
    BY <1>3, <2>1, <2>4, <2>5 DEF StackOfHandles
  <2>7. \A w \in DOMAIN held' : held'[w] \in DOMAIN handles' /\ handles'[held'[w]] = w
    BY <1>3, <2>1, <2>4, <2>5 DEF StackOfHandles
  <2>8. \E k \in Nat : DOMAIN handles' = 1..k
    BY <2>4
  <2> QED BY <2>6, <2>7, <2>8 DEF StackOfHandles
<1> QED BY <1>2, <1>4, <1>5

\* gf_ws_close takes one element out of the map and frees what it led to; the
\* handles stay a stack if it is the newest.
LEMMA CloseKeepsRegistry ==
  ASSUME RegistryInv, NEW w \in Ws, Close(w)
  PROVE  RegistryInv'
<1> USE GfnsConstants DEF RegistryInv, ObjectsOK, Phases
<1>0. phase = "idle" /\ busy = NoWs /\ w \in DOMAIN held /\ UNCHANGED <<phase, busy, used>>
  BY DEF Close, reader
<1>1. live' = live \ {Found(w)}
  BY DEF Close
<1>2. /\ DOMAIN handles' = DOMAIN handles \ {held[w]}
      /\ \A h \in DOMAIN handles' : handles'[h] = handles[h]
  BY DEF Close
<1>3. /\ DOMAIN held' = DOMAIN held \ {w}
      /\ \A v \in DOMAIN held' : held'[v] = held[v]
  BY DEF Close
<1>4. ObjectsOK'
  BY <1>0, <1>1, <1>3
<1>5. HandlesAlive'
  <2>1. ASSUME NEW h \in DOMAIN handles' PROVE handles[h] # Found(w)
    BY <1>2 DEF HandlesAlive, Found, Finds
  <2> QED BY <1>0, <1>1, <1>2, <2>1 DEF HandlesAlive
<1>6. ASSUME ~reused' PROVE StackOfHandles'
  <2>1. ~reused /\ StackOfHandles /\ \A v \in DOMAIN held : ~(held[v] > held[w])
    BY <1>6 DEF Close
  <2>2. PICK n \in Nat : DOMAIN handles = 1..n
    BY <2>1 DEF StackOfHandles
  <2>3. held[w] \in 1..n /\ handles[held[w]] = w
    BY <1>0, <2>1, <2>2 DEF StackOfHandles
  <2>4. held[w] = n
    <3>1. n \in DOMAIN handles
      BY <2>2, <2>3
    <3>2. handles[n] \in DOMAIN held /\ held[handles[n]] = n
      BY <2>1, <3>1 DEF StackOfHandles
    <3> QED BY <2>1, <2>3, <3>2
  <2>5. DOMAIN handles' = 1..(n - 1) /\ n - 1 \in Nat
    BY <1>2, <2>2, <2>3, <2>4
  <2>6. \A k \in DOMAIN handles' : handles'[k] \in DOMAIN held' /\ held'[handles'[k]] = k
    BY <1>2, <1>3, <2>1, <2>3 DEF StackOfHandles
  <2>7. \A v \in DOMAIN held' : held'[v] \in DOMAIN handles' /\ handles'[held'[v]] = v
    BY <1>2, <1>3, <2>1, <2>3 DEF StackOfHandles
  <2> QED BY <2>5, <2>6, <2>7 DEF StackOfHandles
<1> QED BY <1>4, <1>5, <1>6

\* Every step keeps the registry's part of the invariant.
LEMMA RegistryStep == RegistryInv /\ [Next]_vars => RegistryInv'
<1> SUFFICES ASSUME RegistryInv, [Next]_vars PROVE RegistryInv'
  OBVIOUS
<1> USE GfnsConstants
<1>same. ASSUME UNCHANGED registry, UNCHANGED <<phase, busy>> PROVE RegistryInv'
  BY <1>same DEF registry, RegistryInv, ObjectsOK, HandlesAlive, StackOfHandles
<1>1. CASE UNCHANGED vars
  BY <1>1, <1>same DEF vars, reader
<1>2. CASE \E w \in Ws : ServerSends(w) \/ Arrives(w) \/ ServerEnds(w)
  BY <1>2, <1>same DEF ServerSends, Arrives, ServerEnds, reader
<1>3. CASE \E w \in Ws : Open(w)
  <2>1. PICK w \in Ws : Open(w)
    BY <1>3
  <2>2. \A h \in DOMAIN handles : handles[h] # w
    BY <2>1 DEF Open, RegistryInv, HandlesAlive, ObjectsOK
  <2> QED
    BY <2>1, <2>2 DEF Open, RegistryInv, ObjectsOK, HandlesAlive, StackOfHandles, Phases
<1>4. CASE \E w \in Ws : RecvText(w)
  <2>1. PICK w \in Ws : RecvText(w)
    BY <1>4
  <2>2. handles[held[w]] \in live
    BY <2>1 DEF RecvText, Finds, RegistryInv, HandlesAlive
  <2> QED
    BY <2>1, <2>2 DEF RecvText, registry, RegistryInv, ObjectsOK, HandlesAlive,
       StackOfHandles, Phases
<1>5. CASE \E w \in Ws : Close(w)
  BY <1>5, CloseKeepsRegistry
<1>6. CASE HandshakeFails
  BY <1>6 DEF HandshakeFails, RegistryInv, ObjectsOK, HandlesAlive, StackOfHandles, Phases
<1>7. CASE HandshakeReads
  BY <1>7, NewElementKeepsRegistry DEF HandshakeReads
<1>8. CASE Reads \/ ReadFails
  BY <1>8, ReadsControl DEF registry, RegistryInv, ObjectsOK, HandlesAlive, StackOfHandles,
     Phases
<1> QED
  BY <1>1, <1>2, <1>3, <1>4, <1>5, <1>6, <1>7, <1>8 DEF Next

-----------------------------------------------------------------------------
(* The streams *)

Local(w) == FramesOK(w) /\ BytesOK(w) /\ InStep(w) /\ Unread(w)

\* The offsets at which frames begin; each begins where the one before ends.
LEMMA StartIsNat ==
  ASSUME NEW w \in Ws, FramesOK(w)
  PROVE  /\ \A m \in 1..(Len(frames[w]) + 1) : Start(w, m) \in Nat
         /\ Len(frames[w]) \in Nat
         /\ Written(w) \in Nat
         /\ \A m \in 1..Len(frames[w]) : /\ frames[w][m] \in Frame
                                         /\ Start(w, m + 1) = frames[w][m].end
<1>1. Len(frames[w]) \in Nat /\ \A m \in 1..Len(frames[w]) : frames[w][m] \in Frame
  BY DEF FramesOK
<1>2. \A m \in 1..(Len(frames[w]) + 1) : Start(w, m) \in Nat
  BY <1>1, GfnsConstants DEF Start, Frame
<1>3. \A m \in 1..Len(frames[w]) : Start(w, m + 1) = frames[w][m].end
  BY <1>1 DEF Start
<1> QED BY <1>1, <1>2, <1>3 DEF Written

\* A WebSocket no call works on keeps its part of the invariant as long as its
\* stream is left alone.
LEMMA OtherKept ==
  ASSUME NEW w \in Ws, Local(w), w # busy, w # busy',
         frames'[w] = frames[w], arrived'[w] = arrived[w], pos'[w] = pos[w],
         recvd'[w] = recvd[w], sync'[w] = sync[w],
         used \subseteq used'
  PROVE  Local(w)'
<1>1. \A m : Start(w, m)' = Start(w, m) /\ Payload(w, m)' = Payload(w, m)
  BY DEF Start, Payload
<1>2. Written(w)' = Written(w) /\ Current(w)' = Current(w)
  BY <1>1 DEF Written, Current
<1>3. FramesOK(w)'
  BY <1>1 DEF Local, FramesOK
<1>4. BytesOK(w)'
  BY <1>2 DEF Local, BytesOK
<1>5. InStep(w)'
  BY <1>1, <1>2 DEF Local, InStep
<1>6. Unread(w)'
  BY DEF Local, Unread
<1> QED BY <1>3, <1>4, <1>5, <1>6 DEF Local

\* The frames stay where they are.
LEMMA FramesKept ==
  ASSUME NEW w \in Ws, FramesOK(w), frames' = frames
  PROVE  FramesOK(w)' /\ Written(w)' = Written(w)
<1>1. \A m : Start(w, m)' = Start(w, m)
  BY DEF Start
<1>2. FramesOK(w)'
  BY <1>1 DEF FramesOK
<1> QED BY <1>1, <1>2 DEF Written

\* A server writes a frame behind those it wrote before.
LEMMA SendsKeepsStream ==
  ASSUME NEW w \in Ws, StreamType, Local(w), ServerSends(w), UNCHANGED <<registry, reader>>
  PROVE  Local(w)'
<1> USE GfnsConstants
<1>1. PICK len \in Lens : frames' = [frames EXCEPT ![w] = Append(@,
          [ext |-> ExtBytes(len), len |-> len, end |-> Written(w) + 2 + ExtBytes(len) + len])]
  BY DEF ServerSends
<1>e. PICK ext \in {0, 2, 8} : ext = ExtBytes(len)
  BY DEF ExtBytes
<1> DEFINE f == [ext |-> ext, len |-> len, end |-> Written(w) + 2 + ext + len]
<1>n. PICK n \in Nat : n = Len(frames[w])
  BY StartIsNat DEF Local
<1>2. /\ frames[w] \in Seq(Frame) /\ n \in Nat /\ Written(w) \in Nat /\ len \in Nat
      /\ Written(w) = Start(w, n + 1)
  BY <1>n, StartIsNat DEF Local, FramesOK, Written
<1>3. f \in Frame
  BY <1>2 DEF Frame
<1>4. frames'[w] = Append(frames[w], f)
  BY <1>1, <1>e DEF StreamType
<1> HIDE DEF f
<1>5. /\ frames'[w] \in Seq(Frame) /\ Len(frames'[w]) = n + 1
      /\ \A m \in 1..n : frames'[w][m] = frames[w][m]
      /\ frames'[w][n + 1] = f
  BY <1>n, <1>2, <1>3, <1>4
<1>6. \A m \in 1..(n + 1) : Start(w, m)' = Start(w, m)
  BY SMTT(30), <1>n, <1>2, <1>5 DEF Start
<1>7. Start(w, n + 2)' = f.end
  BY <1>n, <1>2, <1>5 DEF Start
<1>8. f.end = Start(w, n + 1) + 2 + f.ext + f.len /\ Start(w, n + 1) < f.end
  BY <1>2 DEF f
<1>9. FramesOK(w)'
  <2>1. ASSUME NEW m \in 1..(n + 1)
        PROVE  frames'[w][m].end = Start(w, m)' + 2 + frames'[w][m].ext + frames'[w][m].len
    <3>1. CASE m \in 1..n
      <4>1. frames[w][m].end = Start(w, m) + 2 + frames[w][m].ext + frames[w][m].len
        BY <1>n, <3>1 DEF Local, FramesOK
      <4> QED BY <1>5, <1>6, <3>1, <4>1
    <3>2. CASE m = n + 1
      <4>1. Start(w, m)' = Start(w, n + 1)
        BY <1>6, <3>2
      <4> QED BY <1>5, <1>8, <3>2, <4>1
    <3> QED BY <1>n, <3>1, <3>2
  <2>2. ASSUME NEW a \in 1..(n + 2), NEW b \in 1..(n + 2), a < b
        PROVE  Start(w, a)' < Start(w, b)'
    <3>1. CASE b <= n + 1
      BY <1>n, <1>2, <1>6, <2>2, <3>1 DEF Local, FramesOK
    <3>2. CASE b = n + 2
      <4>1. a \in 1..(n + 1) /\ n + 1 \in 1..(n + 1)
        BY <1>n, <1>2, <2>2, <3>2
      <4>2. Start(w, a) <= Start(w, n + 1)
        <5>1. CASE a = n + 1
          <6>1. Start(w, n + 1) \in Nat
            BY <1>2
          <6> QED BY <5>1, <6>1
        <5>2. CASE a < n + 1
          <6>1. Start(w, a) < Start(w, n + 1)
            BY <1>n, <4>1, <5>2 DEF Local, FramesOK
          <6>2. Start(w, a) \in Nat /\ Start(w, n + 1) \in Nat
            BY <1>n, <1>2, <4>1, StartIsNat DEF Local
          <6> QED BY <6>1, <6>2
        <5> QED BY <1>n, <4>1, <5>1, <5>2
      <4>3. Start(w, a) \in Nat /\ Start(w, n + 1) \in Nat /\ f.end \in Nat
        BY <1>n, <1>2, <1>3, <4>1, StartIsNat DEF Local, Frame
      <4> QED BY <1>6, <1>7, <1>8, <3>2, <4>1, <4>2, <4>3
    <3> QED BY <1>n, <1>2, <3>1, <3>2
  <2> QED BY <1>n, <1>2, <1>5, <2>1, <2>2 DEF FramesOK
<1>10. UNCHANGED <<arrived, pos, recvd, sync, used, phase, busy, rx>>
  BY DEF ServerSends, registry, reader
<1>11. BytesOK(w)'
  <2>1. Written(w)' = f.end
    BY <1>n, <1>2, <1>5, <1>7 DEF Written
  <2>2. f.end \in Nat
    BY <1>3 DEF Frame
  <2> QED BY <1>n, <1>2, <1>8, <1>10, <2>1, <2>2 DEF Local, BytesOK
<1>12. InStep(w)'
  <2>1. \A m \in 1..n : Payload(w, m)' = Payload(w, m)
    BY <1>n, <1>5 DEF Payload
  <2>2. Len(recvd[w]) \in Nat /\ Len(recvd[w]) <= n
    BY <1>n DEF Local, BytesOK, InStep
  <2>3. /\ Start(w, Current(w))' = Start(w, Current(w)) /\ Current(w) \in 1..(n + 1)
        /\ Current(w)' = Current(w)
    BY <1>n, <1>2, <1>6, <1>10, <2>2 DEF Current
  <2>l. ASSUME sync[w] = "long"
        PROVE  Current(w) <= Len(frames'[w]) /\ frames'[w][Current(w)].len > BufSize
    <3>1. Current(w) \in 1..n /\ frames[w][Current(w)].len > BufSize
      BY <1>n, <2>3, <2>l DEF Local, InStep
    <3> QED BY <1>5, <3>1
  <2>4. ASSUME sync[w] = "in", busy = w, InFrame(w) PROVE InFrame(w)'
    <3>1. Current(w) \in 1..n
      BY <1>n, <2>3, <2>4 DEF InFrame
    <3>2. frames'[w][Current(w)] = frames[w][Current(w)] /\ Current(w)' <= Len(frames'[w])
      BY <1>2, <1>5, <2>3, <3>1
    <3>3. phase' = phase /\ rx' = rx /\ pos'[w] = pos[w]
      BY <1>10
    <3> QED BY <2>3, <2>4, <3>2, <3>3 DEF InFrame
  <2>5. \A m \in 1..Len(recvd[w]) : m \in 1..n /\ recvd[w][m] = Payload(w, m)
    BY <1>n, <2>2 DEF Local, InStep
  <2>6. /\ Len(recvd'[w]) <= Len(frames'[w])
        /\ \A m \in 1..Len(recvd'[w]) : recvd'[w][m] = Payload(w, m)'
    BY <1>5, <1>10, <2>1, <2>2, <2>5
  <2> QED BY <1>10, <2>3, <2>4, <2>6, <2>l DEF Local, InStep
<1>13. Unread(w)'
  BY <1>10 DEF Local, Unread
<1> QED BY <1>9, <1>11, <1>12, <1>13 DEF Local

\* Nothing this WebSocket's part speaks of changes.
LEMMA SameKept ==
  ASSUME NEW w \in Ws, Local(w), UNCHANGED <<frames, arrived, pos, recvd, sync>>,
         UNCHANGED <<used, phase, busy, rx>>
  PROVE  Local(w)'
<1>1. \A m : Start(w, m)' = Start(w, m) /\ Payload(w, m)' = Payload(w, m)
  BY DEF Start, Payload
<1>2. Written(w)' = Written(w) /\ Current(w)' = Current(w)
  BY <1>1 DEF Written, Current
<1>3. FramesOK(w)'
  BY <1>1 DEF Local, FramesOK
<1>4. BytesOK(w)'
  BY <1>2 DEF Local, BytesOK
<1>5. InStep(w)'
  BY <1>1, <1>2 DEF Local, InStep, InFrame
<1>6. Unread(w)'
  BY DEF Local, Unread
<1> QED BY <1>3, <1>4, <1>5, <1>6 DEF Local

\* More bytes arrive, never more than were written.
LEMMA ArrivesKeepsStream ==
  ASSUME NEW w \in Ws, StreamType, Local(w), Arrives(w)
  PROVE  Local(w)'
<1>1. PICK n \in (arrived[w] + 1)..Written(w) : arrived' = [arrived EXCEPT ![w] = n]
  BY DEF Arrives
<1>2. UNCHANGED <<frames, pos, recvd, sync, used, phase, busy, rx>>
  BY DEF Arrives, registry, reader
<1>3. Written(w) \in Nat /\ Written(w)' = Written(w)
  BY <1>2, StartIsNat DEF Local, Written, Start
<1>4. BytesOK(w)'
  BY <1>1, <1>2, <1>3 DEF Local, BytesOK, StreamType
<1>5. FramesOK(w)' /\ Unread(w)'
  BY <1>2 DEF Local, FramesOK, Unread, Start, Current
<1>6. InStep(w)'
  BY <1>2, SMTT(30) DEF Local, InStep, InFrame, Start, Payload, Current
<1> QED BY <1>4, <1>5, <1>6 DEF Local

\* A new WebSocket has read nothing.
LEMMA OpenKeepsStream ==
  ASSUME NEW w \in Ws, Local(w), Open(w)
  PROVE  Local(w)'
<1>1. UNCHANGED <<frames, arrived, pos, recvd, sync>>
  BY DEF Open, stream
<1>2. sync[w] = "none" /\ recvd[w] = <<>>
  BY DEF Open, Local, Unread
<1>f. frames' = frames
  BY <1>1
<1>3. FramesOK(w)' /\ BytesOK(w)'
  BY <1>1, <1>f, FramesKept DEF Local, BytesOK
<1>4. InStep(w)' /\ Unread(w)'
  BY <1>1, <1>2 DEF Local, InStep, Unread, Payload
<1> QED BY <1>3, <1>4 DEF Local

\* A call to receive begins where the call before left the stream.
LEMMA RecvKeepsStream ==
  ASSUME NEW w \in Ws, Local(w), phase = "idle", busy # w, w \in used, busy' = w,
         phase' = "header", UNCHANGED <<used, frames, arrived, pos, recvd, sync>>
  PROVE  Local(w)'
<1>1. FramesOK(w)' /\ BytesOK(w)'
  BY DEF Local, FramesOK, BytesOK, Start, Written
<1>2. InStep(w)' /\ Unread(w)'
  BY DEF Local, InStep, Unread, Start, Payload, Current
<1> QED BY <1>1, <1>2 DEF Local

\* A handshake that fails leaves a WebSocket that was never read.
LEMMA HandshakeFailsKeepsStream ==
  ASSUME NEW w \in Ws, w \in used, Local(w), w = busy, HandshakeFails
  PROVE  Local(w)'
<1>1. UNCHANGED <<frames, arrived, pos, recvd, sync, used>> /\ phase' = "idle"
  BY DEF HandshakeFails, stream
<1>2. sync[w] = "none" /\ recvd[w] = <<>>
  BY DEF HandshakeFails, Local, Unread
<1>f. frames' = frames
  BY <1>1
<1>3. FramesOK(w)' /\ BytesOK(w)'
  BY <1>1, <1>f, FramesKept DEF Local, BytesOK
<1>4. InStep(w)' /\ Unread(w)'
  BY <1>1, <1>2 DEF Local, InStep, Unread, Payload
<1> QED BY <1>3, <1>4 DEF Local

\* What a read returns is there and is not more than it asked for.
LEMMA GotBounds ==
  ASSUME NEW w \in Ws, Local(w), NEW n \in Nat
  PROVE  /\ Got(w, n) \in Nat /\ Got(w, n) <= n
         /\ pos[w] + Got(w, n) \in Nat /\ pos[w] + Got(w, n) <= arrived[w]
         /\ Got(w, n) <= arrived[w]
BY DEF Local, BytesOK, Got

\* The response to the handshake is read by one recv(): the reader is in step
\* only if that was the response and nothing else.
LEMMA HandshakeReadsKeepsStream ==
  ASSUME NEW w \in Ws, w \in used, StreamType, Local(w), w = busy, HandshakeReads
  PROVE  Local(w)'
<1> USE GfnsConstants
<1>1. /\ UNCHANGED <<frames, arrived, recvd, used>> /\ phase' = "idle" /\ busy' = NoWs
      /\ phase = "handshake"
      /\ pos'[w] = Got(w, RespBuf) /\ sync'[w] \in {"in", "cut"}
      /\ (sync'[w] = "in" => Got(w, RespBuf) = HttpLen)
  BY DEF HandshakeReads, StreamType
<1>2. recvd[w] = <<>>
  BY <1>1 DEF Local, Unread
<1>3. Got(w, RespBuf) \in Nat /\ Got(w, RespBuf) <= arrived[w]
  BY GotBounds
<1>f. FramesOK(w)' /\ Written(w)' = Written(w)
  <2>1. frames' = frames
    BY <1>1
  <2> QED BY <2>1, FramesKept DEF Local
<1>4. FramesOK(w)' /\ BytesOK(w)'
  BY <1>1, <1>3, <1>f DEF Local, BytesOK
<1>5. InStep(w)'
  <2>1. Len(frames[w]) \in Nat
    BY StartIsNat DEF Local
  <2>2. recvd'[w] = <<>> /\ Len(recvd'[w]) = 0 /\ frames'[w] = frames[w]
    BY <1>1, <1>2
  <2>3. Current(w)' = 1 /\ Start(w, Current(w))' = HttpLen
    BY <2>2 DEF Current, Start
  <2>4. busy' # w /\ (sync'[w] = "in" => pos'[w] = HttpLen) /\ sync'[w] # "long"
    BY <1>1
  <2> QED BY <2>1, <2>2, <2>3, <2>4 DEF InStep
<1>6. Unread(w)'
  BY <1>1 DEF Unread
<1> QED BY <1>4, <1>5, <1>6 DEF Local

-----------------------------------------------------------------------------
(* gfns_ws_recv *)

\* A read gives the call up, ends it with a payload, or goes on to a field.
LEMMA ReadsOutcome ==
  ASSUME Reads
  PROVE  /\ phase \in {"header", "ext", "mask", "payload"}
         /\ CanRead(busy) \/ Want = 0
         /\ pos' = [pos EXCEPT ![busy] = @ + Got(busy, Want)]
         /\ UNCHANGED <<used, frames, arrived>>
         /\ \/ Fails("cut")
            \/ \E r \in Decoded : /\ ~(Got(busy, Want) < Want) /\ FieldBehind(r) = "refused"
                                 /\ Fails("long")
            \/ /\ ~(Got(busy, Want) < Want) /\ phase = "payload"
               /\ recvd' = [recvd EXCEPT ![busy] =
                              IF sync[busy] = "in" THEN Append(@, <<pos[busy], pos'[busy]>>) ELSE @]
               /\ phase' = "idle" /\ busy' = NoWs /\ rx' = NoFrame /\ UNCHANGED sync
            \/ \E r \in Decoded :
               /\ ~(Got(busy, Want) < Want) /\ phase # "payload"
               /\ FieldBehind(r) \in {"ext", "mask", "payload"}
               /\ phase' = FieldBehind(r) /\ rx' = r /\ UNCHANGED <<busy, recvd, sync>>
<1>1. PICK r \in Decoded :
        IF Got(busy, Want) < Want THEN Fails("cut")
        ELSE IF FieldBehind(r) = "refused" THEN Fails("long")
        ELSE IF FieldBehind(r) = "done"
        THEN /\ recvd' = [recvd EXCEPT ![busy] =
                            IF sync[busy] = "in" THEN Append(@, <<pos[busy], pos'[busy]>>) ELSE @]
             /\ phase' = "idle" /\ busy' = NoWs /\ rx' = NoFrame /\ UNCHANGED sync
        ELSE phase' = FieldBehind(r) /\ rx' = r /\ UNCHANGED <<busy, recvd, sync>>
  BY DEF Reads
<1>2. /\ FieldBehind(r) \in {"ext", "mask", "payload", "done", "refused"}
      /\ FieldBehind(r) = "done" <=> phase = "payload"
  BY DEF FieldBehind
<1>3. /\ phase \in {"header", "ext", "mask", "payload"}
      /\ CanRead(busy) \/ Want = 0
      /\ pos' = [pos EXCEPT ![busy] = @ + Got(busy, Want)]
      /\ UNCHANGED <<used, frames, arrived>>
  BY DEF Reads, registry
<1>4. CASE Got(busy, Want) < Want
  BY <1>1, <1>3, <1>4
<1>r. CASE ~(Got(busy, Want) < Want) /\ FieldBehind(r) = "refused"
  <2>1. Fails("long")
    BY <1>1, <1>r
  <2> QED BY <1>3, <1>r, <2>1
<1>5. CASE ~(Got(busy, Want) < Want) /\ FieldBehind(r) = "done"
  BY <1>1, <1>2, <1>3, <1>5
<1>6. CASE ~(Got(busy, Want) < Want) /\ FieldBehind(r) \in {"ext", "mask", "payload"}
  <2>1. phase' = FieldBehind(r) /\ rx' = r /\ UNCHANGED <<busy, recvd, sync>>
    BY <1>1, <1>6
  <2> QED BY <1>2, <1>3, <1>6, <2>1
<1> QED BY <1>2, <1>4, <1>r, <1>5, <1>6

\* How many bytes the field in front of the reader has.
LEMMA WantIsNat ==
  ASSUME RxOK, phase \in {"header", "ext", "mask", "payload"}
  PROVE  Want \in Nat
BY GfnsConstants DEF RxOK, Want

\* Every decoded header has the fields of one.
LEMMA DecodedOK ==
  ASSUME RxOK, busy \in Ws, FramesOK(busy), NEW r \in Decoded
  PROVE  r \in [masked : BOOLEAN, ext : {0, 2, 8}, len : Nat]
<1> USE GfnsConstants
<1>0. DOMAIN frames[busy] = 1..Len(frames[busy])
  BY DEF FramesOK
<1>1. \A m \in DOMAIN frames[busy] : frames[busy][m].ext \in {0, 2, 8} /\ frames[busy][m].len \in Nat
  BY <1>0, StartIsNat DEF Frame
<1>2. CASE phase = "header"
  <2>1. r \in Headers
    BY <1>2 DEF Decoded
  <2>2. CASE {m \in DOMAIN frames[busy] : Start(busy, m) = pos[busy]} # {}
    <3>1. PICK m \in DOMAIN frames[busy] :
            r = [masked |-> FALSE, ext |-> frames[busy][m].ext,
                 len |-> IF frames[busy][m].ext = 0 THEN frames[busy][m].len ELSE 0]
      BY <2>1, <2>2 DEF Headers
    <3> QED BY <1>1, <3>1
  <2>3. CASE {m \in DOMAIN frames[busy] : Start(busy, m) = pos[busy]} = {}
    BY <2>1, <2>3 DEF Headers
  <2> QED BY <2>2, <2>3
<1>3. CASE phase = "ext"
  <2>1. PICK n \in Lengths : r = [rx EXCEPT !.len = n]
    BY <1>3 DEF Decoded
  <2> DEFINE F == {m \in DOMAIN frames[busy] :
                    Start(busy, m) + 2 = pos[busy] /\ frames[busy][m].ext = rx.ext}
  <2>2. Lengths = IF F # {} THEN {frames[busy][m].len : m \in F}
                  ELSE IF rx.ext = 2 THEN {k \in Lens : k <= MidMax} ELSE Lens
    BY DEF Lengths
  <2>3. \A m \in F : frames[busy][m].len \in Nat
    BY <1>1
  <2> HIDE DEF F
  <2>4. n \in Nat
    BY <2>1, <2>2, <2>3
  <2> QED BY <2>1, <2>4 DEF RxOK
<1>4. CASE phase \notin {"header", "ext"}
  BY <1>4 DEF Decoded, RxOK
<1> QED BY <1>2, <1>3, <1>4

\* Frames have their starts to themselves.
LEMMA StartsDiffer ==
  ASSUME NEW w \in Ws, FramesOK(w), NEW a \in 1..Len(frames[w]), NEW b \in 1..Len(frames[w]),
         Start(w, a) = Start(w, b)
  PROVE  a = b
<1>1. a \in 1..(Len(frames[w]) + 1) /\ b \in 1..(Len(frames[w]) + 1) /\ Len(frames[w]) \in Nat
  BY StartIsNat
<1>2. Start(w, a) \in Nat /\ Start(w, b) \in Nat
  BY <1>1, StartIsNat
<1>3. ~(a < b) /\ ~(b < a)
  BY <1>1, <1>2 DEF FramesOK
<1> QED BY <1>1, <1>3

\* The reader that stands at the start of a frame and is given a byte is given
\* the header of that frame; behind the header it is given its length.
LEMMA DecodesCurrent ==
  ASSUME NEW w \in Ws, w = busy, Local(w), RxOK, sync[w] = "in", Reads,
         phase \in {"header", "ext"}, NEW r \in Decoded
  PROVE  /\ Current(w) \in 1..Len(frames[w])
         /\ r.masked = FALSE /\ r.ext = frames[w][Current(w)].ext
         /\ phase = "header" /\ r.ext = 0 => r.len = frames[w][Current(w)].len
         /\ phase = "ext" => r.len = frames[w][Current(w)].len
<1> USE GfnsConstants
<1>1. PICK c \in Nat : c = Current(w) /\ c >= 1 /\ c <= Len(frames[w]) + 1
  BY StartIsNat DEF Local, InStep, BytesOK, Current
<1>2. Len(frames[w]) \in Nat /\ DOMAIN frames[w] = 1..Len(frames[w]) /\ FramesOK(w)
  BY DEF Local, FramesOK
<1>3. CASE phase = "header"
  <2>1. pos[w] = Start(w, c)
    BY <1>1, <1>3 DEF Local, InStep
  <2>2. c # Len(frames[w]) + 1
    <3>1. CanRead(w)
      BY <1>3, ReadsOutcome DEF Want
    <3>2. pos[w] < Written(w)
      BY <1>2, <3>1, StartIsNat DEF Local, BytesOK, CanRead
    <3>3. Written(w) \in Nat
      BY <1>2, StartIsNat
    <3> QED BY <2>1, <3>2, <3>3 DEF Written
  <2>3. c \in DOMAIN frames[w]
    BY <1>1, <1>2, <2>2
  <2>4. {m \in DOMAIN frames[w] : Start(w, m) = pos[w]} = {c}
    BY <1>2, <2>1, <2>3, StartsDiffer
  <2>5. r = [masked |-> FALSE, ext |-> frames[w][c].ext,
             len |-> IF frames[w][c].ext = 0 THEN frames[w][c].len ELSE 0]
    BY <1>3, <2>4 DEF Decoded, Headers
  <2> QED BY <1>1, <1>2, <1>3, <2>3, <2>5
<1>4. CASE phase = "ext"
  <2>1. /\ c <= Len(frames[w]) /\ rx.ext = frames[w][c].ext
        /\ ~rx.masked /\ pos[w] = Start(w, c) + 2
    BY <1>1, <1>4 DEF Local, InStep, InFrame
  <2>2. c \in DOMAIN frames[w]
    BY <1>1, <1>2, <2>1
  <2>3. \A m \in DOMAIN frames[w] : Start(w, m) \in Nat
    BY <1>2, StartIsNat
  <2>4. \A m \in DOMAIN frames[w] : Start(w, m) + 2 = pos[w] => Start(w, m) = Start(w, c)
    BY <2>1, <2>2, <2>3
  <2>5. {m \in DOMAIN frames[w] : Start(w, m) + 2 = pos[w] /\ frames[w][m].ext = rx.ext} = {c}
    BY <1>2, <2>1, <2>2, <2>4, StartsDiffer
  <2>6. Lengths = {frames[w][c].len}
    BY <2>5 DEF Lengths
  <2>7. r = [rx EXCEPT !.len = frames[w][c].len]
    BY <1>4, <2>6 DEF Decoded
  <2>8. r.masked = FALSE /\ r.ext = rx.ext /\ r.len = frames[w][c].len
    BY <2>1, <2>7 DEF RxOK
  <2> QED BY <1>1, <1>2, <1>4, <2>1, <2>2, <2>8
<1> QED BY <1>3, <1>4

\* One read of gfns_ws_recv.
LEMMA ReadsKeepsStream ==
  ASSUME NEW w \in Ws, w = busy, w \in used, StreamType, RxOK, Local(w), Reads
  PROVE  Local(w)'
<1> USE GfnsConstants
<1>1. /\ pos'[w] = pos[w] + Got(w, Want) /\ Want \in Nat
      /\ phase \in {"header", "ext", "mask", "payload"}
      /\ UNCHANGED <<used, frames, arrived>>
  BY ReadsOutcome, WantIsNat DEF StreamType
<1>2. /\ pos'[w] \in Nat /\ pos'[w] <= arrived[w]
      /\ Got(w, Want) \in Nat /\ Got(w, Want) <= Want
  BY <1>1, GotBounds
<1>3. FramesOK(w)' /\ Written(w)' = Written(w)
  <2>1. frames' = frames
    BY <1>1
  <2> QED BY <2>1, FramesKept DEF Local
<1>4. \A m : Start(w, m)' = Start(w, m) /\ Payload(w, m)' = Payload(w, m)
  BY <1>1 DEF Start, Payload
<1>5. ASSUME NEW why \in {"cut", "long"}, Fails(why),
             why = "long" /\ sync[w] = "in" =>
                 Current(w) <= Len(frames[w]) /\ frames[w][Current(w)].len > BufSize
      PROVE  Local(w)'
  <2>1. /\ sync'[w] = IF sync[w] = "in" THEN why ELSE sync[w]
        /\ recvd' = recvd /\ phase' = "idle" /\ frames' = frames
    BY <1>1, <1>5 DEF Fails, StreamType
  <2>2. Current(w)' = Current(w)
    BY <2>1 DEF Current
  <2>3. sync'[w] # "in"
    BY <1>5, <2>1
  <2>4. sync'[w] = "long" => Current(w) <= Len(frames[w]) /\ frames[w][Current(w)].len > BufSize
    BY <1>5, <2>1 DEF Local, InStep
  <2>5. InStep(w)'
    BY <1>4, <2>1, <2>2, <2>3, <2>4 DEF Local, InStep
  <2>6. BytesOK(w)' /\ Unread(w)'
    BY <1>1, <1>2, <1>3, <2>1 DEF Local, BytesOK, Unread
  <2> QED BY <1>3, <2>5, <2>6 DEF Local
<1>r. ASSUME NEW r \in Decoded, FieldBehind(r) = "refused", sync[w] = "in"
      PROVE  Current(w) <= Len(frames[w]) /\ frames[w][Current(w)].len > BufSize
  <2>1. phase \in {"header", "ext"}
    BY <1>1, <1>r DEF Local, InStep, FieldBehind
  <2>2. /\ Current(w) \in 1..Len(frames[w])
        /\ r.ext = frames[w][Current(w)].ext
        /\ phase = "header" /\ r.ext = 0 => r.len = frames[w][Current(w)].len
        /\ phase = "ext" => r.len = frames[w][Current(w)].len
    BY <1>r, <2>1, DecodesCurrent
  <2>3. r.len > BufSize /\ ~(phase = "header" /\ r.ext > 0)
    BY <1>r, <2>1 DEF FieldBehind
  <2>4. r.ext \in {0, 2, 8}
    BY DecodedOK DEF Local
  <2>5. Len(frames[w]) \in Nat
    BY StartIsNat DEF Local
  <2> QED BY <2>1, <2>2, <2>3, <2>4, <2>5
<1>6. CASE /\ ~(Got(w, Want) < Want) /\ phase = "payload"
           /\ recvd' = [recvd EXCEPT ![w] =
                          IF sync[w] = "in" THEN Append(@, <<pos[w], pos'[w]>>) ELSE @]
           /\ phase' = "idle" /\ busy' = NoWs /\ UNCHANGED sync
  <2>1. recvd'[w] = IF sync[w] = "in" THEN Append(recvd[w], <<pos[w], pos'[w]>>) ELSE recvd[w]
    BY <1>6 DEF StreamType
  <2>2. recvd[w] \in Seq(Nat \X Nat) /\ <<pos[w], pos'[w]>> \in Nat \X Nat
    BY <1>2 DEF Local, BytesOK
  <2>3. BytesOK(w)'
    BY <1>1, <1>2, <1>3, <2>1, <2>2 DEF Local, BytesOK
  <2>4. Unread(w)'
    BY <1>1, <1>6 DEF Unread
  <2>5. ASSUME sync[w] = "in" PROVE InStep(w)'
    <3>1. PICK c \in Nat : c = Current(w) /\ c = Len(recvd[w]) + 1 /\ c >= 1
      BY <2>2 DEF Current
    <3>2. Current(w) <= Len(frames[w]) /\ rx.len = frames[w][c].len
          /\ pos[w] = frames[w][c].end - rx.len
      BY <1>6, <2>5, <3>1 DEF Local, InStep, InFrame
    <3>3. c \in 1..Len(frames[w]) /\ frames[w][c] \in Frame /\ Start(w, c + 1) = frames[w][c].end
      BY <3>1, <3>2, StartIsNat DEF Local
    <3>4. Want = rx.len
      BY <1>6 DEF Want
    <3>5. pos'[w] = frames[w][c].end
      BY <1>1, <1>2, <1>6, <3>2, <3>3, <3>4 DEF Frame
    <3>6. <<pos[w], pos'[w]>> = Payload(w, c)
      BY <3>2, <3>5 DEF Payload
    <3>7. recvd'[w] = Append(recvd[w], Payload(w, c))
      BY <2>1, <2>5, <3>6
    <3>8. /\ Len(recvd'[w]) = c /\ recvd'[w][c] = Payload(w, c)
          /\ \A m \in 1..(c - 1) : recvd'[w][m] = recvd[w][m]
      BY <2>2, <3>1, <3>6, <3>7
    <3>9. \A m \in 1..(c - 1) : recvd[w][m] = Payload(w, m)
      BY <2>2, <2>5, <3>1 DEF Local, InStep
    <3>10. \A m \in 1..c : recvd'[w][m] = Payload(w, m)
      BY <3>1, <3>8, <3>9
    <3>11. Current(w)' = c + 1
      BY <3>8 DEF Current
    <3>12. c <= Len(frames'[w])
      BY <1>1, <3>3
    <3>13. pos'[w] = Start(w, Current(w))'
      BY <1>4, <3>3, <3>5, <3>11
    <3>14. sync'[w] = "in" /\ busy' # w
      BY <1>6, <2>5
    <3> QED BY <1>4, <3>8, <3>10, <3>12, <3>13, <3>14 DEF InStep
  <2>6. ASSUME sync[w] # "in" PROVE InStep(w)'
    <3>1. recvd'[w] = recvd[w] /\ frames' = frames /\ sync' = sync
      BY <1>1, <1>6, <2>1, <2>6
    <3>2. Current(w)' = Current(w)
      BY <3>1 DEF Current
    <3> QED BY <1>4, <2>6, <3>1, <3>2 DEF Local, InStep
  <2> QED BY <1>3, <2>3, <2>4, <2>5, <2>6 DEF Local
<1>7. ASSUME NEW r \in Decoded, ~(Got(w, Want) < Want), phase # "payload",
             FieldBehind(r) \in {"ext", "mask", "payload"},
             phase' = FieldBehind(r), rx' = r, UNCHANGED <<busy, recvd, sync>>
      PROVE  Local(w)'
  <2>1. BytesOK(w)' /\ Unread(w)'
    BY <1>1, <1>2, <1>3, <1>7 DEF Local, BytesOK, Unread
  <2>2. ASSUME sync[w] = "in" PROVE InStep(w)'
    <3>1. phase \in {"header", "ext"}
      BY <1>1, <1>7, <2>2 DEF Local, InStep
    <3>2. PICK c \in 1..Len(frames[w]) : c = Current(w)
      BY <1>7, <2>2, <3>1, DecodesCurrent
    <3>3. /\ r.masked = FALSE /\ r.ext = frames[w][c].ext
          /\ phase = "header" /\ r.ext = 0 => r.len = frames[w][c].len
          /\ phase = "ext" => r.len = frames[w][c].len
      BY <1>7, <2>2, <3>1, <3>2, DecodesCurrent
    <3>4. /\ frames[w][c] \in Frame /\ Start(w, c) \in Nat
          /\ frames[w][c].end = Start(w, c) + 2 + frames[w][c].ext + frames[w][c].len
      BY <3>2, StartIsNat DEF Local, FramesOK
    <3>5. Current(w)' = c /\ frames'[w] = frames[w] /\ busy' = w /\ sync'[w] = "in"
      BY <1>1, <1>7, <2>2, <3>2 DEF Current
    <3>6. phase' \in {"ext", "payload"} /\ InFrame(w)'
      <4>1. Got(w, Want) = Want
        BY <1>1, <1>2, <1>7
      <4>2. CASE phase = "header"
        <5>1. pos[w] = Start(w, c) /\ Want = 2
          BY <2>2, <3>2, <4>2 DEF Local, InStep, Want
        <5>2. pos'[w] = Start(w, c) + 2
          BY <1>1, <4>1, <5>1
        <5>3. CASE r.ext \in {2, 8}
          <6>1. phase' = "ext"
            BY <1>7, <4>2, <5>3 DEF FieldBehind
          <6> QED BY <1>4, <1>7, <3>2, <3>3, <3>5, <5>2, <5>3, <6>1 DEF InFrame
        <5>4. CASE r.ext = 0
          <6>1. phase' = "payload"
            BY <1>7, <3>3, <4>2, <5>4 DEF FieldBehind
          <6>2. pos'[w] = frames[w][c].end - r.len /\ r.len = frames[w][c].len
            BY <3>3, <3>4, <4>2, <5>2, <5>4 DEF Frame
          <6> QED BY <1>7, <3>2, <3>5, <6>1, <6>2 DEF InFrame
        <5> QED BY <3>3, <3>4, <5>3, <5>4 DEF Frame
      <4>3. CASE phase = "ext"
        <5>1. pos[w] = Start(w, c) + 2 /\ Want = frames[w][c].ext
          BY <2>2, <3>2, <4>3 DEF Local, InStep, InFrame, Want
        <5>2. phase' = "payload"
          BY <1>7, <3>3, <4>3 DEF FieldBehind
        <5>3. pos'[w] = frames[w][c].end - r.len /\ r.len = frames[w][c].len
          BY <1>1, <3>3, <3>4, <4>1, <4>3, <5>1 DEF Frame
        <5> QED BY <1>7, <3>2, <3>5, <5>2, <5>3 DEF InFrame
      <4> QED BY <3>1, <4>2, <4>3
    <3>7. Len(recvd[w]) <= Len(frames[w]) /\ \A m \in 1..Len(recvd[w]) : recvd[w][m] = Payload(w, m)
      BY <2>2 DEF Local, InStep
    <3> QED BY <1>4, <1>7, <3>5, <3>6, <3>7 DEF InStep
  <2>3. ASSUME sync[w] # "in" PROVE InStep(w)'
    <3>1. recvd' = recvd /\ frames' = frames /\ sync' = sync
      BY <1>1, <1>7
    <3>2. Current(w)' = Current(w)
      BY <3>1 DEF Current
    <3> QED BY <1>4, <2>3, <3>1, <3>2 DEF Local, InStep
  <2> QED BY <1>3, <2>1, <2>2, <2>3 DEF Local
<1>8. Fails("cut") => Local(w)'
  BY <1>5
<1>9. ASSUME NEW r \in Decoded, FieldBehind(r) = "refused", Fails("long") PROVE Local(w)'
  BY <1>5, <1>9, <1>r
<1> QED BY <1>6, <1>7, <1>8, <1>9, ReadsOutcome

\* A read that finds the stream at its end.
LEMMA ReadFailsKeepsStream ==
  ASSUME NEW w \in Ws, w = busy, w \in used, StreamType, Local(w), ReadFails
  PROVE  Local(w)'
<1>1. /\ sync'[w] = (IF sync[w] = "in" THEN "cut" ELSE sync[w]) /\ phase' = "idle"
      /\ UNCHANGED <<used, frames, arrived, pos, recvd>>
  BY DEF ReadFails, Fails, registry, StreamType
<1>0. frames' = frames
  BY <1>1
<1>2. FramesOK(w)' /\ Written(w)' = Written(w)
  BY <1>0, FramesKept DEF Local
<1>4. BytesOK(w)'
  BY <1>1, <1>2 DEF Local, BytesOK
<1>3. InStep(w)' /\ Unread(w)'
  BY <1>1 DEF Local, InStep, Unread, Current, Payload
<1> QED BY <1>2, <1>3, <1>4 DEF Local

\* The fields of the frame being read keep their type, and so do the streams.
LEMMA TypesStep ==
  ASSUME RegistryInv, StreamInv, [Next]_vars
  PROVE  RxOK' /\ StreamType'
<1> USE GfnsConstants
<1>0. NoFrame \in [masked : BOOLEAN, ext : {0, 2, 8}, len : Nat]
  BY DEF NoFrame
<1>1. CASE UNCHANGED vars
  BY <1>1 DEF vars, reader, stream, StreamInv, RxOK, StreamType
<1>2. CASE \E w \in Ws : ServerSends(w) \/ Arrives(w) \/ ServerEnds(w)
  BY <1>2 DEF ServerSends, Arrives, ServerEnds, reader, StreamInv, RxOK, StreamType
<1>3. CASE \E w \in Ws : Open(w) \/ RecvText(w) \/ Close(w)
  BY <1>0, <1>3 DEF Open, RecvText, Close, reader, stream, StreamInv, RxOK, StreamType
<1>4. CASE HandshakeFails
  BY <1>4 DEF HandshakeFails, stream, StreamInv, RxOK, StreamType
<1>5. CASE HandshakeReads
  BY <1>5 DEF HandshakeReads, StreamInv, RxOK, StreamType
<1>6. CASE ReadFails
  BY <1>0, <1>6 DEF ReadFails, Fails, StreamInv, RxOK, StreamType
<1>7. CASE Reads
  <2>1. busy \in Ws
    BY <1>7, ReadsOutcome DEF RegistryInv, ObjectsOK
  <2>2. FramesOK(busy)
    BY <2>1 DEF StreamInv
  <2>3. \A r \in Decoded : r \in [masked : BOOLEAN, ext : {0, 2, 8}, len : Nat]
    BY <2>1, <2>2, DecodedOK DEF StreamInv
  <2>4. rx' \in {NoFrame} \cup Decoded
    BY <1>7, ReadsOutcome DEF Fails
  <2>5. UNCHANGED <<frames, arrived>> /\ DOMAIN pos' = DOMAIN pos
    BY <1>7, ReadsOutcome
  <2>6. DOMAIN recvd' = DOMAIN recvd
    BY <1>7, ReadsOutcome DEF Fails
  <2>7. DOMAIN sync' = Ws
    BY <1>7, ReadsOutcome DEF Fails, StreamInv, StreamType
  <2> QED BY <1>0, <2>3, <2>4, <2>5, <2>6, <2>7 DEF StreamInv, RxOK, StreamType
<1> QED
  BY <1>1, <1>2, <1>3, <1>4, <1>5, <1>6, <1>7 DEF Next

\* A step works on at most one WebSocket; the streams of the others stay.
LEMMA StreamStep ==
  ASSUME RegistryInv, StreamInv, [Next]_vars, NEW w \in Ws
  PROVE  Local(w)'
<1> USE GfnsConstants
<1>0. Local(w) /\ StreamType /\ RxOK
  BY DEF StreamInv, Local
<1>u. live \subseteq used /\ (busy # NoWs => busy \in used) /\ (phase = "idle" <=> busy = NoWs)
      /\ busy \in Ws \cup {NoWs}
  BY DEF RegistryInv, ObjectsOK, HandlesAlive
<1>1. CASE UNCHANGED vars
  BY <1>0, <1>1, SameKept DEF vars, registry, reader, stream
<1>2. ASSUME NEW v \in Ws, ServerSends(v) PROVE Local(w)'
  <2>1. UNCHANGED <<registry, reader>> /\ v = busy
    BY <1>2 DEF ServerSends
  <2>2. CASE w = v
    BY <1>0, <1>2, <2>1, <2>2, SendsKeepsStream
  <2>3. CASE w # v
    <3>1. /\ frames'[w] = frames[w] /\ UNCHANGED <<arrived, pos, recvd, sync, used, busy>>
      BY <1>0, <1>2, <2>3 DEF ServerSends, StreamType, registry, reader
    <3> QED BY <1>0, <2>1, <2>3, <3>1, OtherKept
  <2> QED BY <2>2, <2>3
<1>3. ASSUME NEW v \in Ws, Arrives(v) PROVE Local(w)'
  <2>1. CASE w = v
    BY <1>0, <1>3, <2>1, ArrivesKeepsStream
  <2>2. CASE w # v
    <3>1. /\ arrived'[w] = arrived[w] /\ UNCHANGED <<frames, pos, recvd, sync, used, busy>>
          /\ v = busy
      BY <1>0, <1>3, <2>2 DEF Arrives, StreamType, registry, reader
    <3> QED BY <1>0, <2>2, <3>1, OtherKept
  <2> QED BY <2>1, <2>2
<1>4. ASSUME NEW v \in Ws, ServerEnds(v) \/ Close(v) PROVE Local(w)'
  BY <1>0, <1>4, SameKept DEF ServerEnds, Close, registry, reader, stream
<1>5. ASSUME NEW v \in Ws, Open(v) PROVE Local(w)'
  <2>1. UNCHANGED <<frames, arrived, pos, recvd, sync>> /\ used \subseteq used'
        /\ busy = NoWs /\ busy' = v
    BY <1>5, <1>u DEF Open, stream
  <2> QED BY <1>0, <1>5, <2>1, OpenKeepsStream, OtherKept
<1>6. ASSUME NEW v \in Ws, RecvText(v) PROVE Local(w)'
  <2>1. UNCHANGED <<frames, arrived, pos, recvd, sync, used>> /\ phase = "idle"
        /\ phase' = "header" /\ busy = NoWs /\ busy' = handles[held[v]]
    BY <1>6, <1>u DEF RecvText, registry, stream
  <2>2. handles[held[v]] \in used
    BY <1>6, <1>u DEF RecvText, Finds, RegistryInv, HandlesAlive
  <2>3. CASE w = busy'
    BY <1>0, <2>1, <2>2, <2>3, RecvKeepsStream
  <2>4. CASE w # busy'
    BY <1>0, <2>1, <2>4, OtherKept
  <2> QED BY <2>3, <2>4
<1>7. CASE HandshakeFails
  <2>1. UNCHANGED <<frames, arrived, pos, recvd, sync, used>> /\ busy' = NoWs /\ busy # NoWs
    BY <1>7, <1>u DEF HandshakeFails, stream
  <2> QED BY <1>0, <1>7, <1>u, <2>1, HandshakeFailsKeepsStream, OtherKept
<1>8. CASE HandshakeReads
  <2>1. CASE w = busy
    BY <1>0, <1>8, <1>u, <2>1, HandshakeReadsKeepsStream
  <2>2. CASE w # busy
    <3>1. /\ UNCHANGED <<frames, arrived, recvd, used>> /\ busy' = NoWs
          /\ pos'[w] = pos[w] /\ sync'[w] = sync[w]
      BY <1>0, <1>8, <2>2 DEF HandshakeReads, StreamType
    <3> QED BY <1>0, <2>2, <3>1, OtherKept
  <2> QED BY <2>1, <2>2
<1>9. CASE Reads
  <2>1. CASE w = busy
    BY <1>0, <1>9, <1>u, <2>1, ReadsKeepsStream
  <2>2. CASE w # busy
    <3>1. UNCHANGED <<used, frames, arrived>> /\ busy' \in {busy, NoWs} /\ pos'[w] = pos[w]
      BY <1>0, <1>9, <2>2, ReadsOutcome DEF Fails, StreamType
    <3>2. recvd'[w] = recvd[w] /\ sync'[w] = sync[w]
      BY <1>0, <1>9, <2>2, ReadsOutcome DEF Fails, StreamType
    <3> QED BY <1>0, <2>2, <3>1, <3>2, OtherKept
  <2> QED BY <2>1, <2>2
<1>10. CASE ReadFails
  <2>1. CASE w = busy
    BY <1>0, <1>10, <1>u, <2>1, ReadFailsKeepsStream
  <2>2. CASE w # busy
    <3>1. UNCHANGED <<used, frames, arrived, pos, recvd>> /\ busy' = NoWs /\ sync'[w] = sync[w]
      BY <1>0, <1>10, <2>2 DEF ReadFails, Fails, StreamType, registry
    <3> QED BY <1>0, <2>2, <3>1, OtherKept
  <2> QED BY <2>1, <2>2
<1> QED
  BY <1>1, <1>2, <1>3, <1>4, <1>5, <1>6, <1>7, <1>8, <1>9, <1>10 DEF Next

-----------------------------------------------------------------------------
(* The theorems *)

\* The invariant holds before the first call.
LEMMA InitInv == Init => IInv
<1> SUFFICES ASSUME Init PROVE IInv
  OBVIOUS
<1> USE GfnsConstants DEF Init
<1>1. RegistryInv
  <2>1. DOMAIN handles = 1..0 /\ DOMAIN held = {}
    OBVIOUS
  <2>2. StackOfHandles
    BY <2>1 DEF StackOfHandles
  <2> QED BY <2>1, <2>2 DEF RegistryInv, ObjectsOK, HandlesAlive, Phases
<1>2. RxOK /\ StreamType
  BY DEF RxOK, StreamType, NoFrame
<1>3. ASSUME NEW w \in Ws PROVE FramesOK(w) /\ BytesOK(w) /\ InStep(w) /\ Unread(w)
  <2>1. frames[w] = <<>> /\ Len(frames[w]) = 0 /\ recvd[w] = <<>> /\ sync[w] = "none"
        /\ pos[w] = 0 /\ arrived[w] = 0
    OBVIOUS
  <2>2. FramesOK(w) /\ BytesOK(w)
    BY <2>1 DEF FramesOK, BytesOK, Written, Start
  <2> QED BY <2>1, <2>2 DEF InStep, Unread
<1> QED BY <1>1, <1>2, <1>3 DEF IInv, StreamInv

\* The inductive invariant holds in every reachable state.
THEOREM Inductive == Spec => []IInv
<1>1. IInv /\ [Next]_vars => IInv'
  <2> SUFFICES ASSUME IInv, [Next]_vars PROVE IInv'
    OBVIOUS
  <2>1. RegistryInv'
    BY RegistryStep DEF IInv
  <2>2. RxOK' /\ StreamType'
    BY TypesStep DEF IInv
  <2>3. ASSUME NEW w \in Ws PROVE Local(w)'
    BY StreamStep DEF IInv
  <2> QED BY <2>1, <2>2, <2>3 DEF IInv, StreamInv, Local
<1> QED BY <1>1, InitInv, PTL DEF Spec

\* A handle of gfns_ws.pbi never leads to a WebSocket object that gfns_ws_free
\* has freed, and two handles never lead to the same one: replacing an element
\* of the map loses a handle, never an object's life.
THEOREM HandlesLeadToLive == Spec => []HandlesAlive
<1>1. IInv => HandlesAlive
  BY DEF IInv, RegistryInv
<1> QED BY <1>1, Inductive, PTL

\* gf_ws numbers a handle by the size of the map plus one: for any number of
\* WebSockets, a program that closes its newest handle first and names none
\* itself never loses one to a later gf_ws.
THEOREM StackDisciplineIsSafe == Spec => []NewestFirstKeepsHandles
<1>1. IInv => NewestFirstKeepsHandles
  BY DEF IInv, RegistryInv, StackOfHandles, NewestFirstKeepsHandles, Found, Finds
<1> QED BY <1>1, Inductive, PTL

\* gfns_ws_recv returns the payloads of the frames sent, whole and in order, and
\* leaves the stream at the start of a frame, for frames of any number and length
\* in any pieces: until a response, header or payload does not arrive in one
\* piece, or a frame is longer than the buffer.
THEOREM FramesInOrder == Spec => []InOrderWhileInStep
<1>1. ASSUME IInv PROVE InOrderWhileInStep
  <2>1. ASSUME NEW w \in Ws
        PROVE  /\ InStep(w) /\ DOMAIN recvd[w] = 1..Len(recvd[w])
               /\ Len(recvd[w]) \in Nat /\ Len(frames[w]) \in Nat
    BY <1>1, <2>1 DEF IInv, StreamInv, BytesOK, FramesOK
  <2> QED BY <2>1 DEF InOrderWhileInStep, InStep, Current
<1> QED BY <1>1, Inductive, PTL
=============================================================================
