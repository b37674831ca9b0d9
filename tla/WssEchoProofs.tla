--------------------------- MODULE WssEchoProofs ---------------------------
(***************************************************************************)
(* Proofs about the WebSocket echo server and its peers (WssEcho): the     *)
(* session table, and the two byte streams of the client that is served.   *)
(***************************************************************************)
EXTENDS WssEcho, SequenceTheorems, TLAPS

-----------------------------------------------------------------------------
(* The inductive invariant *)

Busy == {"upgrade", "header", "ext", "mask", "payload", "echo"}
Interval == Nat \X Nat
Unit == [kind : {"http", "frame"}, start : Nat, op : Nat, ext : {0, 2, 8}, mask : {0, 4},
         len : Nat, key : BOOLEAN, blanks : Nat, of : Nat]
FieldSet == [op : Nat, masked : BOOLEAN, ext : Nat, len : Nat]

\* The session table and who is in line for it.
TableInv ==
    /\ sph \in {"start", "stopped", "accept"} \cup Busy
    /\ cur \in Client \cup {NoClient} /\ (cur = NoClient <=> sph \notin Busy)
    /\ ssl_table \in [Slot -> Client \cup {NoClient}]
    /\ backlog \in Seq(Client)
    /\ TableMatches

Types ==
    /\ srx \in FieldSet /\ read \in Seq(Interval)
    /\ cph \in [Client -> {"start", "connecting", "tls", "await101", "open", "sending",
                            "header", "ext", "payload", "close", "done", "failed", "gone"}]
    /\ crx \in [Client -> FieldSet] /\ got \in [Client -> Seq(Interval)]
    /\ up \in [Client -> Seq(Interval)] /\ down \in [Client -> Seq(Interval)]
    /\ upU \in [Client -> Seq(Unit)] /\ downU \in [Client -> Seq(Unit)]
    /\ cend \in [Client -> BOOLEAN] /\ send \in [Client -> BOOLEAN]

\* A client waits in the backlog once, and only before it is served; the server
\* closes no socket before it is connected.
LineInv ==
    /\ \A c \in Client : cph[c] = "start" => ~send[c]
    /\ \A i \in 1..Len(backlog) :
        /\ cph[backlog[i]] = "connecting" \/ cend[backlog[i]]
        /\ cph[backlog[i]] # "start" /\ ~send[backlog[i]] /\ backlog[i] # cur
    /\ \A i, j \in 1..Len(backlog) : i < j => backlog[i] # backlog[j]
    /\ cur # NoClient => cph[cur] \notin {"start", "connecting"} /\ ~send[cur]

\* Records that lie one behind the other from a on, and where they end.
Run(q, a) ==
    /\ q \in Seq(Interval)
    /\ q # <<>> => q[1][1] = a
    /\ \A k \in 1..Len(q) : q[k][1] < q[k][2]
    /\ \A j, k \in 1..Len(q) : j < k => q[j][2] <= q[k][1]
    /\ \A j, k \in 1..Len(q) : k = j + 1 => q[j][2] = q[k][1]
Fin(q, a) == IF q = <<>> THEN a ELSE q[Len(q)][2]

\* What was written in one direction: an HTTP head and then frames, without gaps.
Units(us, mask) ==
    /\ us \in Seq(Unit)
    /\ us # <<>> => \E key \in BOOLEAN : us[1] = Http(0, key)
    /\ \A m \in 2..Len(us) :
        /\ us[m].kind = "frame" /\ us[m].mask = mask /\ us[m].ext = ExtBytes(us[m].len)
        /\ us[m].blanks <= us[m].len /\ us[m].start = End(us[m - 1])
    /\ \A j, k \in 1..Len(us) : j < k => End(us[j]) <= us[k].start

\* A client that has not sent its request has no bytes under way; one that has
\* not read the response has sent no frame.
Early(c) ==
    /\ cph[c] \in {"start", "connecting", "tls"} =>
        up[c] = <<>> /\ upU[c] = <<>> /\ down[c] = <<>> /\ downU[c] = <<>> /\ got[c] = <<>>
    /\ cph[c] = "await101" =>
        /\ Len(upU[c]) = 1 /\ got[c] = <<>>
        /\ \/ down[c] = <<>> /\ downU[c] = <<>>
           \/ down[c] = <<<<0, HttpLen>>>> /\ Len(downU[c]) = 1

\* Both streams of a client, and that the server never is ahead of it.
UnitsInv(c) ==
    /\ Units(upU[c], 4) /\ Units(downU[c], 0) /\ Len(downU[c]) <= Len(upU[c])
    /\ \A m \in 2..Len(downU[c]) : downU[c][m].of = m /\ downU[c][m].len > 0
    /\ cph[c] = "sending" => Len(upU[c]) > 1 /\ upU[c][Len(upU[c])].len > 0
    /\ cph[c] = "close" => upU[c] # <<>>

\* How far the client has written, and where the server is in that stream: at
\* the unit behind the texts it has read.
WEnd(c) == IF cph[c] = "sending" THEN Payload(upU[c][Len(upU[c])]) ELSE Written(upU[c])
At == Len(read) + 2
Pos == CASE sph = "upgrade" -> 0
         [] sph \in {"header", "echo"} -> End(upU[cur][Len(read) + 1])
         [] sph = "ext" -> upU[cur][At].start + 2
         [] sph = "mask" -> upU[cur][At].start + 2 + upU[cur][At].ext
         [] sph = "payload" -> Payload(upU[cur][At])

UpInv ==
    cur # NoClient =>
        /\ Run(up[cur], Pos)
        /\ Fin(up[cur], Pos) <= Written(upU[cur])
        /\ cph[cur] # "gone" => Fin(up[cur], Pos) = WEnd(cur)

\* What the server knows of the frame it is reading.
ServerInv ==
    /\ cur = NoClient => read = <<>>
    /\ sph = "upgrade" =>
        /\ read = <<>> /\ downU[cur] = <<>> /\ down[cur] = <<>>
        /\ cph[cur] \in {"tls", "await101", "failed", "gone"}
        /\ up[cur] \in {<<>>, <<<<0, HttpLen>>>>} /\ Len(upU[cur]) <= 1
    /\ sph \in {"header", "ext", "mask", "payload"} =>
        /\ Len(upU[cur]) >= Len(read) + 1 /\ Len(downU[cur]) = Len(read) + 1
        /\ cph[cur] \notin {"tls"}
    /\ sph \in {"ext", "mask", "payload"} =>
        /\ At <= Len(upU[cur]) /\ srx.masked /\ srx.ext = upU[cur][At].ext
    /\ sph = "ext" => srx.ext > 0
    /\ sph \in {"mask", "payload"} => srx.len = upU[cur][At].len
    /\ sph = "payload" => srx.len > 0
    /\ sph = "echo" =>
        /\ Len(read) > 0 /\ Len(upU[cur]) >= Len(read) + 1 /\ Len(downU[cur]) = Len(read)
        /\ LET u == upU[cur][Len(read) + 1]
           IN  read[Len(read)] = <<Payload(u), End(u)>> /\ srx.len = u.len

\* Where a client is in the server's stream, and what it knows of the frame.
CAt(c) == Len(got[c]) + 2
CPos(c) == CASE cph[c] \in {"open", "sending", "header"} -> End(downU[c][Len(got[c]) + 1])
             [] cph[c] = "ext" -> downU[c][CAt(c)].start + 2
             [] cph[c] = "payload" -> downU[c][CAt(c)].start + 2 +
                                         (IF c \in CClient THEN downU[c][CAt(c)].ext ELSE 0)

DownInv(c) ==
    /\ cph[c] \in {"open", "sending", "header", "ext", "payload"} =>
        /\ Len(downU[c]) >= Len(got[c]) + 1
        /\ Run(down[c], CPos(c)) /\ Fin(down[c], CPos(c)) = Written(downU[c])
    /\ cph[c] \in {"ext", "payload"} =>
        CAt(c) <= Len(downU[c]) /\ crx[c].ext = downU[c][CAt(c)].ext /\ crx[c].len > 0
    /\ cph[c] \in {"sending", "header", "ext", "payload"} => c \in FClient \cup CClient
    /\ cph[c] = "ext" => crx[c].ext > 0 /\ c \in CClient
    /\ cph[c] = "payload" /\ (c \in CClient \/ downU[c][CAt(c)].len <= ShortMax) =>
        crx[c].len = downU[c][CAt(c)].len

\* The texts read are the replies.
GotInv(c) ==
    \A m \in 1..Len(got[c]) :
        /\ m + 1 <= Len(downU[c])
        /\ (c \in CClient \/ downU[c][m + 1].len <= ShortMax) =>
              got[c][m] = <<Payload(downU[c][m + 1]), End(downU[c][m + 1])>>

ClientInv(c) == Early(c) /\ UnitsInv(c) /\ DownInv(c) /\ GotInv(c)

StreamInv ==
    /\ Types /\ LineInv /\ UpInv /\ ServerInv
    /\ \A c \in Client : ClientInv(c)

IInv == TableInv /\ StreamInv

-----------------------------------------------------------------------------
(* The session table *)

\* Before the program listens the table is empty.
LEMMA TableInit == Init => TableInv
<1> SUFFICES ASSUME Init PROVE TableInv
  OBVIOUS
<1>1. /\ sph = "start" /\ cur = NoClient /\ ssl_table = [i \in Slot |-> NoClient]
      /\ backlog = <<>>
  BY DEF Init
<1> QED BY <1>1, WssConstants DEF TableInv, TableMatches, Busy

\* tls_close takes exactly the served client out of the table.
LEMMA TlsCloseTable ==
  ASSUME TableInv, TlsClose, UNCHANGED backlog
  PROVE  TableInv'
<1>1. /\ ssl_table' = [i \in Slot |-> IF ssl_table[i] = cur THEN NoClient ELSE ssl_table[i]]
      /\ cur' = NoClient /\ sph' = "accept"
  BY DEF TlsClose
<1>2. ssl_table' \in [Slot -> Client \cup {NoClient}]
  BY <1>1 DEF TableInv
<1>3. TableMatches'
  BY <1>1, WssConstants DEF TableInv, TableMatches
<1> QED BY <1>1, <1>2, <1>3 DEF TableInv, Busy

\* Every step keeps the table's invariant.
LEMMA TableNext == TableInv /\ [Next]_vars => TableInv'
<1> SUFFICES ASSUME TableInv, [Next]_vars PROVE TableInv'
  OBVIOUS
<1>1. CASE UNCHANGED vars
  BY <1>1 DEF vars, server, TableInv, TableMatches
<1>2. CASE Listen
  BY <1>2 DEF Listen, TableInv, TableMatches, Busy
<1>3. CASE TlsAccept
  <2>1. PICK c \in Client : c = Head(backlog)
    BY <1>3 DEF TlsAccept, TableInv
  <2>2. PICK i \in Slot : Free(i) /\ ssl_table' = [ssl_table EXCEPT ![i] = c]
    BY <1>3, <2>1 DEF TlsAccept
  <2>3. cur' = c /\ sph' = "upgrade" /\ backlog' = Tail(backlog) /\ cur = NoClient
    BY <1>3, <2>1 DEF TlsAccept, TableInv, Busy
  <2>4. backlog' \in Seq(Client)
    BY <1>3, <2>3 DEF TableInv, TlsAccept
  <2>5. ssl_table' \in [Slot -> Client \cup {NoClient}] /\ c # NoClient
    BY <2>2, WssConstants DEF TableInv
  <2>6. TableMatches'
    BY <2>2, <2>3, <2>5, WssConstants DEF TableInv, TableMatches
  <2> QED BY <2>3, <2>4, <2>5, <2>6 DEF TableInv, Busy
<1>4. CASE TlsAcceptFails
  <2>1. backlog' = Tail(backlog) /\ backlog # <<>> /\ UNCHANGED <<sph, cur, ssl_table>>
    BY <1>4 DEF TlsAcceptFails, server
  <2> QED BY <2>1 DEF TableInv, TableMatches
<1>5. CASE ServerReadFails
  BY <1>5, TlsCloseTable DEF ServerReadFails
<1>6. CASE Upgrade
  <2>1. CASE TlsClose
    BY <1>6, <2>1, TlsCloseTable DEF Upgrade
  <2>2. CASE UNCHANGED <<cur, ssl_table>> /\ sph' = "header"
    BY <1>6, <2>2 DEF Upgrade, TableInv, TableMatches, Busy
  <2> QED BY <1>6, <2>1, <2>2 DEF Upgrade
<1>7. CASE ServerReads
  <2>1. CASE TlsClose
    BY <1>7, <2>1, TlsCloseTable DEF ServerReads
  <2>2. ASSUME NEW r, sph' = FieldBehind(r), FieldBehind(r) # "refused",
               UNCHANGED <<cur, ssl_table>>
        PROVE  TableInv'
    <3>1. sph \in {"header", "ext", "mask", "payload"} /\ backlog' = backlog
      BY <1>7 DEF ServerReads
    <3>2. FieldBehind(r) \in Busy
      BY <2>2, <3>1 DEF FieldBehind, AfterLength, AfterHead, Busy
    <3> QED BY <2>2, <3>1, <3>2 DEF TableInv, TableMatches, Busy
  <2> QED BY <1>7, <2>1, <2>2 DEF ServerReads
<1>8. CASE Echo
  BY <1>8 DEF Echo, TableInv, TableMatches, Busy
<1>9. CASE \E c \in Client : Connect(c)
  <2>1. UNCHANGED <<sph, cur, ssl_table>> /\ backlog' \in Seq(Client)
    BY <1>9 DEF Connect, server, TableInv
  <2> QED BY <2>1 DEF TableInv, TableMatches
<1>10. CASE \E c \in Client : ClientStep(c) \/ BreaksOff(c)
  <2>1. UNCHANGED <<sph, cur, ssl_table, backlog>>
    BY <1>10 DEF ClientStep, SendRequest, ReadResponse, FSends, CSendsHeader,
       CSendsPayload, CCloses, ClientReads, ClientReadFails, Closes, BreaksOff, server
  <2> QED BY <2>1 DEF TableInv, TableMatches
<1> QED BY <1>1, <1>2, <1>3, <1>4, <1>5, <1>6, <1>7, <1>8, <1>9, <1>10 DEF Next, Server

\* For any number of clients and any size of the table, ssl_table holds the
\* session of the client being served and no other, whatever failed: a number
\* the kernel gives out again never finds the session of an earlier connection,
\* and tls_send and tls_recv never fall back to the plain socket.
THEOREM TableIsExact == FairSpec => []TableMatches
<1>1. TableInv => TableMatches
  BY DEF TableInv
<1> QED BY <1>1, TableInit, TableNext, PTL DEF FairSpec

-----------------------------------------------------------------------------
(* Records *)

\* A run ends behind where it begins.
LEMMA RunFin ==
  ASSUME NEW q, NEW a \in Nat, Run(q, a)
  PROVE  Fin(q, a) \in Nat /\ a <= Fin(q, a) /\ (q # <<>> => a < Fin(q, a))
<1>1. CASE q = <<>>
  BY <1>1 DEF Fin
<1>2. CASE q # <<>>
  <2>1. PICK n \in Nat : n = Len(q) /\ n >= 1
    BY <1>2 DEF Run
  <2>2. q[1] \in Interval /\ q[n] \in Interval
    BY <2>1 DEF Run
  <2>3. q[1][1] = a /\ q[1][1] < q[1][2] /\ q[n][1] < q[n][2]
    BY <1>2, <2>1 DEF Run
  <2>4. n = 1 \/ q[1][2] <= q[n][1]
    BY <2>1 DEF Run
  <2> QED BY <1>2, <2>1, <2>2, <2>3, <2>4 DEF Fin, Interval
<1> QED BY <1>1, <1>2

\* What SSL_write makes of n bytes.
LEMMA RecordsRun ==
  ASSUME NEW a \in Nat, NEW n \in Nat
  PROVE  /\ Run(Records(a, n), a) /\ Fin(Records(a, n), a) = a + n
         /\ n = HttpLen => Records(a, n) = <<<<a, a + n>>>>
<1>1. PICK K \in Nat : K = (n + RecMax - 1) \div RecMax
  BY DEF RecMax
<1>2. K * RecMax <= n + 16383 /\ n + 16383 < K * RecMax + RecMax
  BY <1>1 DEF RecMax
<1> DEFINE R == Records(a, n)
<1>3. R = [k \in 1..K |-> <<a + (k - 1) * RecMax, Lesser(a + k * RecMax, a + n)>>]
  BY <1>1 DEF Records
<1>4. ASSUME NEW k \in 1..K
      PROVE  /\ R[k] = <<a + (k - 1) * RecMax, Lesser(a + k * RecMax, a + n)>>
             /\ R[k] \in Interval /\ R[k][1] = a + (k - 1) * RecMax
             /\ R[k][2] = IF k = K THEN a + n ELSE a + k * RecMax
             /\ R[k][1] < R[k][2]
  <2>1. R[k] = <<a + (k - 1) * RecMax, Lesser(a + k * RecMax, a + n)>>
    BY <1>3
  <2>2. k \in Nat /\ k <= K /\ (k # K => k + 1 <= K)
    OBVIOUS
  <2>3. Lesser(a + k * RecMax, a + n) = IF k = K THEN a + n ELSE a + k * RecMax
    BY <1>2, <2>2 DEF Lesser, RecMax
  <2>4. a + (k - 1) * RecMax \in Nat /\ Lesser(a + k * RecMax, a + n) \in Nat
    BY <2>2, <2>3 DEF RecMax
  <2>5. a + (k - 1) * RecMax < Lesser(a + k * RecMax, a + n)
    BY <1>2, <2>2, <2>3 DEF RecMax
  <2> QED BY <2>1, <2>3, <2>4, <2>5 DEF Interval
<1>5. R \in Seq(Interval) /\ Len(R) = K
  BY <1>3, <1>4
<1>6. (R = <<>> <=> K = 0) /\ (K = 0 => n = 0)
  BY <1>2, <1>5 DEF RecMax
<1> HIDE DEF R
<1>7. ASSUME NEW j \in 1..K, NEW k \in 1..K, j < k
      PROVE  R[j][2] <= R[k][1] /\ (k = j + 1 => R[j][2] = R[k][1])
  BY <1>4, <1>7 DEF RecMax
<1>8. Run(R, a)
  <2>1. K # 0 => R[1][1] = a
    BY <1>4 DEF RecMax
  <2>2. ASSUME NEW j \in 1..K, NEW k \in 1..K, k = j + 1 PROVE R[j][2] = R[k][1]
    BY <1>7, <2>2
  <2>3. ASSUME NEW j \in 1..K, NEW k \in 1..K, j < k PROVE R[j][2] <= R[k][1]
    BY <1>7, <2>3
  <2>4. \A k \in 1..K : R[k][1] < R[k][2]
    BY <1>4
  <2> QED BY <1>5, <1>6, <2>1, <2>2, <2>3, <2>4 DEF Run
<1>9. Fin(R, a) = a + n
  BY <1>4, <1>5, <1>6 DEF Fin
<1>10. ASSUME n = HttpLen PROVE R = <<<<a, a + n>>>>
  <2>1. K = 1
    BY <1>2, <1>10 DEF HttpLen, RecMax
  <2>2. R[1] = <<a, a + n>>
    BY <1>2, <1>4, <1>10, <2>1 DEF HttpLen, RecMax, Lesser
  <2>3. /\ <<<<a, a + n>>>> \in Seq(Interval) /\ Len(<<<<a, a + n>>>>) = 1
        /\ <<<<a, a + n>>>>[1] = <<a, a + n>>
    BY DEF Interval
  <2>4. \A k \in 1..1 : R[k] = <<<<a, a + n>>>>[k]
    BY <2>2, <2>3
  <2> QED BY <1>5, <2>1, <2>3, <2>4, SeqEqual
<1> QED BY <1>8, <1>9, <1>10 DEF R

\* More records behind a run.
LEMMA RunAppend ==
  ASSUME NEW q, NEW r, NEW a \in Nat, Run(q, a), Run(r, Fin(q, a))
  PROVE  Run(q \o r, a) /\ Fin(q \o r, a) = Fin(r, Fin(q, a))
<1>1. CASE q = <<>>
  <2>1. q \o r = r /\ Fin(q, a) = a
    BY <1>1 DEF Run, Fin
  <2> QED BY <2>1
<1>2. CASE r = <<>>
  <2>1. q \o r = q /\ Fin(r, Fin(q, a)) = Fin(q, a)
    BY <1>2 DEF Run, Fin
  <2> QED BY <2>1
<1>3. CASE q # <<>> /\ r # <<>>
  <2>1. PICK n \in Nat, l \in Nat : n = Len(q) /\ l = Len(r) /\ n >= 1 /\ l >= 1
    BY <1>3 DEF Run
  <2>2. PICK s \in Seq(Interval) : s = q \o r
    BY ConcatProperties DEF Run
  <2>3. /\ Len(s) = n + l /\ s # <<>>
        /\ \A k \in 1..n : s[k] = q[k]
        /\ \A k \in 1..l : s[n + k] = r[k]
    BY <2>1, <2>2 DEF Run
  <2>4. /\ \A k \in 1..n : q[k] \in Interval /\ q[k][1] < q[k][2]
        /\ \A k \in 1..l : r[k] \in Interval /\ r[k][1] < r[k][2]
        /\ q[1][1] = a /\ r[1][1] = q[n][2]
    BY <1>3, <2>1 DEF Run, Fin
  <2>5. ASSUME NEW k \in 1..n PROVE q[k][2] <= q[n][2]
    <3>1. q[k] \in Interval /\ q[n] \in Interval /\ q[n][1] < q[n][2]
      BY <2>1, <2>4
    <3>2. k = n \/ q[k][2] <= q[n][1]
      BY <2>1 DEF Run
    <3> QED BY <3>1, <3>2 DEF Interval
  <2>6. ASSUME NEW k \in 1..l PROVE r[1][1] <= r[k][1]
    <3>1. r[k] \in Interval /\ r[1] \in Interval /\ r[1][1] < r[1][2]
      BY <2>1, <2>4
    <3>2. k = 1 \/ r[1][2] <= r[k][1]
      BY <2>1 DEF Run
    <3> QED BY <3>1, <3>2 DEF Interval
  <2>7. ASSUME NEW k \in 1..(n + l) PROVE s[k][1] < s[k][2]
    <3>1. CASE k \in 1..n
      BY <2>3, <2>4, <3>1
    <3>2. CASE k \notin 1..n
      <4>1. PICK i \in 1..l : k = n + i
        BY <3>2
      <4> QED BY <2>3, <2>4, <4>1
    <3> QED BY <3>1, <3>2
  <2>8. ASSUME NEW j \in 1..(n + l), NEW k \in 1..(n + l), j < k
        PROVE  s[j][2] <= s[k][1] /\ (k = j + 1 => s[j][2] = s[k][1])
    <3>1. CASE k \in 1..n
      BY <2>1, <2>3, <2>8, <3>1 DEF Run
    <3>2. CASE k \notin 1..n /\ j \in 1..n
      <4>1. PICK i \in 1..l : k = n + i
        BY <3>2
      <4>2. s[j] = q[j] /\ s[k] = r[i]
        BY <2>3, <3>2, <4>1
      <4>3. q[j] \in Interval /\ q[n] \in Interval /\ r[1] \in Interval /\ r[i] \in Interval
        BY <2>1, <2>4, <3>2
      <4>4. q[j][2] <= r[i][1]
        BY SMTT(30), <2>1, <2>4, <2>5, <2>6, <3>2, <4>3 DEF Interval
      <4>5. k = j + 1 => j = n /\ i = 1
        BY <3>2, <4>1
      <4> QED BY <2>4, <4>2, <4>4, <4>5
    <3>3. CASE k \notin 1..n /\ j \notin 1..n
      <4>1. PICK i \in 1..l, h \in 1..l : k = n + i /\ j = n + h
        BY <3>3
      <4>2. s[j] = r[h] /\ s[k] = r[i] /\ h < i /\ (k = j + 1 => i = h + 1)
        BY <2>3, <2>8, <4>1
      <4> QED BY <2>1, <4>2 DEF Run
    <3> QED BY <3>1, <3>2, <3>3
  <2>9. s[1][1] = a /\ s[n + l] = r[l]
    BY <2>1, <2>3, <2>4
  <2>10. Run(s, a)
    <3>1. ASSUME NEW j \in 1..(n + l), NEW k \in 1..(n + l), k = j + 1 PROVE s[j][2] = s[k][1]
      BY <2>8, <3>1
    <3>2. ASSUME NEW j \in 1..(n + l), NEW k \in 1..(n + l), j < k PROVE s[j][2] <= s[k][1]
      BY <2>8, <3>2
    <3>3. \A k \in 1..Len(s) : s[k][1] < s[k][2]
      BY <2>3, <2>7
    <3>4. \A j, k \in 1..Len(s) : j < k => s[j][2] <= s[k][1]
      BY <2>3, <3>2
    <3>5. \A j, k \in 1..Len(s) : k = j + 1 => s[j][2] = s[k][1]
      BY <2>3, <3>1
    <3> QED BY <2>9, <3>3, <3>4, <3>5 DEF Run
  <2>11. Fin(s, a) = r[l][2] /\ Fin(r, Fin(q, a)) = r[l][2]
    BY <1>3, <2>1, <2>3, <2>9 DEF Fin
  <2> QED BY <2>2, <2>10, <2>11
<1> QED BY <1>1, <1>2, <1>3

\* SSL_read of n bytes takes the front of the run: all of them, unless it is
\* short.
LEMMA RunTake ==
  ASSUME NEW q, NEW a \in Nat, Run(q, a), q # <<>>, NEW n \in Nat, n > 0
  PROVE  /\ Took(q, n) \in Interval /\ Took(q, n)[1] = a /\ a < Took(q, n)[2]
         /\ Run(Rest(q, n), Took(q, n)[2])
         /\ Fin(Rest(q, n), Took(q, n)[2]) = Fin(q, a)
         /\ Took(q, n)[2] <= Fin(q, a)
         /\ ~Short(q, n) => Took(q, n) = <<a, a + n>>
<1>1. PICK l \in Nat : l = Len(q) /\ l >= 1
  BY DEF Run
<1>2. q[1] \in Interval /\ q[1][1] = a /\ a < q[1][2]
  BY <1>1 DEF Run
<1>3. PICK e \in Nat : e = q[1][2] /\ q[1] = <<a, e>>
  BY <1>2 DEF Interval
<1>4. PICK t \in Nat : t = Lesser(a + n, e) /\ Took(q, n) = <<a, t>>
  BY <1>3 DEF Took, Lesser
<1>5. a < t /\ t <= e /\ t <= a + n
  BY <1>2, <1>3, <1>4 DEF Lesser
<1>6. ~Short(q, n) => t = a + n
  BY <1>4 DEF Short
<1>7. /\ Tail(q) \in Seq(Interval) /\ Len(Tail(q)) = l - 1
      /\ \A k \in 1..(l - 1) : Tail(q)[k] = q[k + 1]
  BY <1>1 DEF Run
<1>8. Run(Tail(q), e) /\ Fin(Tail(q), e) = Fin(q, a)
  <2>0. PICK s \in Seq(Interval) : s = Tail(q) /\ Len(s) = l - 1
    BY <1>7
  <2>1. s # <<>> => l > 1 /\ s[1][1] = e
    <3> SUFFICES ASSUME s # <<>> PROVE l > 1 /\ s[1][1] = e
      OBVIOUS
    <3>1. l > 1
      BY <1>1, <2>0
    <3>2. s[1] = q[2] /\ q[1][2] = q[2][1]
      BY <1>1, <1>7, <2>0, <3>1 DEF Run
    <3> QED BY <1>3, <3>1, <3>2
  <2>2. ASSUME NEW k \in 1..(l - 1) PROVE k + 1 \in 1..l /\ s[k] = q[k + 1] /\ s[k][1] < s[k][2]
    BY <1>1, <1>7, <2>0 DEF Run
  <2>3. ASSUME NEW j \in 1..(l - 1), NEW k \in 1..(l - 1), j < k
        PROVE  s[j][2] <= s[k][1] /\ (k = j + 1 => s[j][2] = s[k][1])
    <3>1. j + 1 \in 1..l /\ k + 1 \in 1..l /\ j + 1 < k + 1
      BY <2>3
    <3>2. k = j + 1 => k + 1 = (j + 1) + 1
      OBVIOUS
    <3> QED BY <1>1, <2>2, <3>1, <3>2 DEF Run
  <2>4. Run(s, e)
    <3>1. \A k \in 1..Len(s) : s[k][1] < s[k][2]
      BY <2>0, <2>2
    <3>2. \A j, k \in 1..Len(s) : j < k => s[j][2] <= s[k][1]
      BY <2>0, <2>3
    <3>3. \A j, k \in 1..Len(s) : k = j + 1 => s[j][2] = s[k][1]
      BY <2>0, <2>3
    <3> QED BY <2>1, <3>1, <3>2, <3>3 DEF Run
  <2>5. CASE s = <<>>
    <3>1. Len(s) = 0
      BY <2>5, EmptySeq
    <3>2. l = 1
      BY <2>0, <3>1
    <3>3. Fin(s, e) = e /\ Fin(q, a) = q[Len(q)][2]
      BY <2>5 DEF Fin
    <3> QED BY <1>1, <1>3, <2>0, <2>4, <3>2, <3>3
  <2>6. CASE s # <<>>
    <3>1. s[l - 1] = q[l] /\ l - 1 = Len(s)
      BY <1>7, <2>0, <2>1, <2>6
    <3>2. Fin(s, e) = s[Len(s)][2] /\ Fin(q, a) = q[Len(q)][2]
      BY <2>6 DEF Fin
    <3> QED BY <1>1, <2>0, <2>4, <3>1, <3>2
  <2> QED BY <2>0, <2>4, <2>5, <2>6
<1>9. CASE t = e
  <2>1. Rest(q, n) = Tail(q)
    BY <1>3, <1>4, <1>9 DEF Rest
  <2>2. e <= Fin(q, a)
    BY <1>8, RunFin
  <2> QED BY <1>4, <1>5, <1>6, <1>8, <1>9, <2>1, <2>2 DEF Interval
<1>10. CASE t # e
  <2>1. Rest(q, n) = <<<<t, e>>>> \o Tail(q)
    BY <1>3, <1>4, <1>10 DEF Rest
  <2>2. Run(<<<<t, e>>>>, t) /\ Fin(<<<<t, e>>>>, t) = e
    BY <1>5, <1>10 DEF Run, Fin, Interval
  <2>3. Run(Rest(q, n), t) /\ Fin(Rest(q, n), t) = Fin(q, a)
    BY <1>8, <2>1, <2>2, RunAppend
  <2>4. e <= Fin(q, a)
    BY <1>8, RunFin
  <2>5. Fin(q, a) \in Nat
    BY RunFin
  <2> QED BY <1>4, <1>5, <1>6, <2>3, <2>4, <2>5 DEF Interval
<1> QED BY <1>9, <1>10

-----------------------------------------------------------------------------
(* Heads and frames *)

\* Where a unit's payload and its end are.
LEMMA UnitFacts ==
  ASSUME NEW u \in Unit
  PROVE  /\ u.start \in Nat /\ u.ext \in Nat /\ u.mask \in Nat /\ u.len \in Nat
         /\ Payload(u) \in Nat /\ End(u) \in Nat /\ End(u) = Payload(u) + u.len
         /\ u.start <= Payload(u) /\ Payload(u) <= End(u)
         /\ u.kind = "frame" => Payload(u) = ((u.start + 2) + u.ext) + u.mask
<1>1. u.start \in Nat /\ u.ext \in Nat /\ u.mask \in Nat /\ u.len \in Nat
  BY DEF Unit
<1>2. Payload(u) = ((u.start + (IF u.kind = "frame" THEN 2 ELSE 0)) + u.ext) + u.mask
  BY <1>1 DEF Payload
<1>3. End(u) = Payload(u) + u.len
  BY DEF End
<1> QED BY <1>1, <1>2, <1>3

\* The head of a request or a response.
LEMMA HttpUnit ==
  ASSUME NEW key \in BOOLEAN
  PROVE  /\ Http(0, key) \in Unit /\ Http(0, key).start = 0 /\ Http(0, key).kind = "http"
         /\ End(Http(0, key)) = HttpLen /\ Payload(Http(0, key)) = 0
         /\ Http(0, key).len = HttpLen /\ Http(0, key).key = key
<1>1. /\ Http(0, key) \in Unit /\ Http(0, key).start = 0 /\ Http(0, key).kind = "http"
      /\ Http(0, key).ext = 0 /\ Http(0, key).mask = 0 /\ Http(0, key).len = HttpLen
      /\ Http(0, key).key = key
  BY DEF Http, Unit, HttpLen
<1> QED BY <1>1 DEF Payload, End, HttpLen

\* Units have bytes, and lie one behind the other.
LEMMA UnitsFacts ==
  ASSUME NEW us, NEW mask, Units(us, mask), NEW m \in 1..Len(us)
  PROVE  /\ us[m] \in Unit /\ us[m].start < End(us[m])
         /\ Written(us) \in Nat /\ End(us[m]) <= Written(us)
         /\ m < Len(us) => End(us[m]) = us[m + 1].start /\ End(us[m]) < Written(us)
         /\ us[1].kind = "http" /\ End(us[1]) = HttpLen
<1>1. us \in Seq(Unit) /\ us # <<>> /\ Len(us) \in Nat /\ m \in Nat /\ m <= Len(us)
  BY DEF Units
<1>2. PICK key \in BOOLEAN : us[1] = Http(0, key)
  BY <1>1 DEF Units
<1>3. us[1].kind = "http" /\ End(us[1]) = HttpLen /\ us[1].start = 0
  BY <1>2, HttpUnit
<1>4. ASSUME NEW k \in 1..Len(us)
      PROVE  /\ us[k] \in Unit /\ us[k].start \in Nat /\ End(us[k]) \in Nat
             /\ us[k].start < End(us[k])
  <2>1. us[k] \in Unit
    BY <1>1
  <2>2. CASE k = 1
    BY <1>3, <2>1, <2>2, UnitFacts DEF HttpLen
  <2>3. CASE k # 1
    <3>1. us[k].kind = "frame"
      BY <2>3 DEF Units
    <3> QED BY <2>1, <3>1, UnitFacts
  <2> QED BY <2>2, <2>3
<1>5. PICK l \in 1..Len(us) : l = Len(us)
  BY <1>1
<1>6. Written(us) = End(us[l])
  BY <1>1, <1>5 DEF Written
<1>7. us[m].start < End(us[m]) /\ us[l].start < End(us[l])
      /\ End(us[m]) \in Nat /\ End(us[l]) \in Nat /\ us[l].start \in Nat
  BY <1>4
<1>8. m = l \/ End(us[m]) <= us[l].start
  BY <1>5 DEF Units
<1>9. ASSUME m < Len(us) PROVE End(us[m]) = us[m + 1].start
  <2>1. m + 1 \in 2..Len(us) /\ (m + 1) - 1 = m
    BY <1>1, <1>9
  <2> QED BY <2>1 DEF Units
<1> QED BY <1>3, <1>4, <1>5, <1>6, <1>7, <1>8, <1>9

\* No two units begin or end at the same place.
LEMMA UnitsDiffer ==
  ASSUME NEW us, NEW mask, Units(us, mask), NEW j \in 1..Len(us), NEW k \in 1..Len(us),
         us[j].start = us[k].start \/ End(us[j]) = End(us[k])
  PROVE  j = k
<1>1. /\ us[j] \in Unit /\ us[j].start < End(us[j])
      /\ us[k] \in Unit /\ us[k].start < End(us[k])
  BY UnitsFacts
<1>2. /\ us[j].start \in Nat /\ End(us[j]) \in Nat
      /\ us[k].start \in Nat /\ End(us[k]) \in Nat
  BY <1>1, UnitFacts
<1>3. ASSUME j < k PROVE FALSE
  <2>1. End(us[j]) <= us[k].start
    BY <1>3 DEF Units
  <2> QED BY <1>1, <1>2, <2>1
<1>4. ASSUME k < j PROVE FALSE
  <2>1. End(us[k]) <= us[j].start
    BY <1>4 DEF Units
  <2> QED BY <1>1, <1>2, <2>1
<1> QED BY <1>3, <1>4

\* A frame written behind the others.
LEMMA UnitsAppend ==
  ASSUME NEW us, NEW mask, Units(us, mask), us # <<>>, NEW u \in Unit,
         u.kind = "frame", u.mask = mask, u.ext = ExtBytes(u.len), u.blanks <= u.len,
         u.start = Written(us)
  PROVE  /\ Units(Append(us, u), mask) /\ Written(Append(us, u)) = End(u)
         /\ Len(Append(us, u)) = Len(us) + 1 /\ Append(us, u)[Len(us) + 1] = u
         /\ \A m \in 1..Len(us) : Append(us, u)[m] = us[m]
<1>1. PICK n \in Nat : n = Len(us) /\ n >= 1 /\ us \in Seq(Unit)
  BY DEF Units
<1>2. PICK s \in Seq(Unit) : s = Append(us, u)
  BY <1>1, AppendProperties
<1>3. Len(s) = n + 1 /\ s[n + 1] = u /\ \A m \in 1..n : s[m] = us[m]
  BY <1>1, <1>2
<1>4. s # <<>> /\ s[1] = us[1]
  BY <1>1, <1>3
<1>5. Written(s) = End(u) /\ Written(us) = End(us[n])
  BY <1>1, <1>3, <1>4 DEF Written
<1>6. \E key \in BOOLEAN : s[1] = Http(0, key)
  BY <1>4 DEF Units
<1>7. ASSUME NEW m \in 2..(n + 1)
      PROVE  /\ s[m].kind = "frame" /\ s[m].mask = mask /\ s[m].ext = ExtBytes(s[m].len)
             /\ s[m].blanks <= s[m].len /\ s[m].start = End(s[m - 1])
  <2>1. CASE m = n + 1
    <3>1. s[m] = u /\ s[m - 1] = us[n]
      BY <1>1, <1>3, <2>1
    <3> QED BY <1>5, <3>1
  <2>2. CASE m # n + 1
    <3>1. m \in 2..n /\ m \in 1..n /\ m - 1 \in 1..n
      BY <2>2
    <3>2. s[m] = us[m] /\ s[m - 1] = us[m - 1]
      BY <1>3, <3>1
    <3> QED BY <1>1, <3>1, <3>2 DEF Units
  <2> QED BY <2>1, <2>2
<1>8. ASSUME NEW j \in 1..(n + 1), NEW k \in 1..(n + 1), j < k
      PROVE  End(s[j]) <= s[k].start
  <2>1. CASE k = n + 1
    <3>1. j \in 1..n /\ s[k] = u /\ s[j] = us[j]
      BY <1>3, <1>8, <2>1
    <3> QED BY <1>1, <3>1, UnitsFacts
  <2>2. CASE k # n + 1
    <3>1. j \in 1..n /\ k \in 1..n
      BY <1>8, <2>2
    <3>2. s[k] = us[k] /\ s[j] = us[j]
      BY <1>3, <3>1
    <3> QED BY <1>1, <1>8, <3>1, <3>2 DEF Units
  <2> QED BY <2>1, <2>2
<1>9. Units(s, mask)
  BY <1>3, <1>6, <1>7, <1>8 DEF Units
<1> QED BY <1>1, <1>2, <1>3, <1>5, <1>9

\* A reader looks for the extended length the sender wrote.
LEMMA ExtMatches ==
  ASSUME NEW u \in Unit, u.ext = ExtBytes(u.len)
  PROVE  /\ ExtWanted(Field7(u)) = u.ext /\ Field7(u) \in Nat
         /\ u.ext = 0 <=> u.len <= ShortMax
         /\ u.ext = 0 => Field7(u) = u.len
         /\ u.ext # 0 => Field7(u) > 0
<1>1. u.len \in Nat /\ u.ext \in {0, 2, 8}
  BY DEF Unit
<1>2. CASE u.ext = 0
  <2>1. Field7(u) = u.len /\ u.len <= 125
    BY <1>1, <1>2 DEF Field7, ExtBytes, ShortMax
  <2> QED BY <1>1, <1>2, <2>1 DEF ExtWanted, ShortMax
<1>3. CASE u.ext = 2
  <2>1. Field7(u) = 126 /\ ~(u.len <= 125)
    BY <1>1, <1>3 DEF Field7, ExtBytes, ShortMax
  <2> QED BY <1>1, <1>3, <2>1 DEF ExtWanted, ShortMax
<1>4. CASE u.ext = 8
  <2>1. Field7(u) = 127 /\ ~(u.len <= 125)
    BY <1>1, <1>4 DEF Field7, ExtBytes, ShortMax
  <2> QED BY <1>1, <1>4, <2>1 DEF ExtWanted, ShortMax
<1> QED BY <1>1, <1>2, <1>3, <1>4

\* A header read where a frame begins is that frame's.
LEMMA HeaderAt ==
  ASSUME NEW us, NEW mask \in Nat, Units(us, mask), NEW m \in 2..Len(us), NEW iv,
         iv[1] = us[m].start
  PROVE  \A r \in Headers(us, iv) :
            /\ r \in FieldSet /\ r.op = us[m].op /\ r.masked = (mask > 0)
            /\ r.ext = us[m].ext /\ r.len = Field7(us[m])
<1> DEFINE F == {k \in DOMAIN us : us[k].kind = "frame" /\ us[k].start = iv[1]}
<1>0. us \in Seq(Unit) /\ m \in 1..Len(us) /\ us[m] \in Unit
  BY DEF Units
<1>1. DOMAIN us = 1..Len(us)
  BY <1>0
<1>2. us[m].kind = "frame" /\ us[m].mask = mask /\ us[m].ext = ExtBytes(us[m].len)
  BY DEF Units
<1>3. m \in F
  BY <1>0, <1>1, <1>2
<1>4. \A k \in F : k = m
  BY <1>0, <1>1, UnitsDiffer
<1>5. Headers(us, iv) = {[op |-> us[k].op, masked |-> us[k].mask > 0,
                         ext |-> ExtWanted(Field7(us[k])), len |-> Field7(us[k])] : k \in F}
  BY <1>3 DEF Headers
<1> SUFFICES ASSUME NEW r \in Headers(us, iv)
             PROVE  /\ r \in FieldSet /\ r.op = us[m].op /\ r.masked = (mask > 0)
                    /\ r.ext = us[m].ext /\ r.len = Field7(us[m])
  OBVIOUS
<1> HIDE DEF F
<1>6. r = [op |-> us[m].op, masked |-> us[m].mask > 0,
           ext |-> ExtWanted(Field7(us[m])), len |-> Field7(us[m])]
  BY <1>4, <1>5
<1>7. ExtWanted(Field7(us[m])) = us[m].ext /\ Field7(us[m]) \in Nat
  BY <1>0, <1>2, ExtMatches
<1>8. us[m].op \in Nat
  BY <1>0 DEF Unit
<1>9. us[m].ext \in Nat
  BY <1>0, UnitFacts
<1> QED BY <1>2, <1>6, <1>7, <1>8, <1>9 DEF FieldSet

\* An extended length read behind a frame's first bytes is that frame's.
LEMMA LengthAt ==
  ASSUME NEW us, NEW mask \in Nat, Units(us, mask), NEW m \in 2..Len(us), us[m].ext > 0
  PROVE  Lengths(us, <<us[m].start + 2, (us[m].start + 2) + us[m].ext>>) = {us[m].len}
<1> DEFINE iv == <<us[m].start + 2, (us[m].start + 2) + us[m].ext>>
           F == {k \in DOMAIN us : us[k].ext > 0
                    /\ iv = <<us[k].start + 2, us[k].start + 2 + us[k].ext>>}
<1>0. us \in Seq(Unit) /\ m \in 1..Len(us) /\ us[m] \in Unit
  BY DEF Units
<1>1. DOMAIN us = 1..Len(us)
  BY <1>0
<1>2. us[m].start \in Nat /\ us[m].ext \in Nat
  BY <1>0, UnitFacts
<1>3. m \in F
  BY <1>0, <1>1, <1>2
<1>4. ASSUME NEW k \in F PROVE k = m
  <2>1. k \in 1..Len(us) /\ us[k] \in Unit /\ us[m].start + 2 = us[k].start + 2
    BY <1>0, <1>1
  <2>2. us[k].start \in Nat
    BY <2>1, UnitFacts
  <2>3. us[k].start = us[m].start
    BY <1>2, <2>1, <2>2
  <2> QED BY <1>0, <2>1, <2>3, UnitsDiffer
<1>5. Lengths(us, iv) = {us[k].len : k \in F}
  BY <1>3 DEF Lengths
<1> HIDE DEF F
<1> QED BY <1>3, <1>4, <1>5

\* The frame a payload belongs to.
LEMMA FrameOfIs ==
  ASSUME NEW us, NEW mask \in Nat, Units(us, mask), NEW m \in 1..Len(us)
  PROVE  FrameOf(us, <<Payload(us[m]), End(us[m])>>) = m
<1> DEFINE iv == <<Payload(us[m]), End(us[m])>>
           P(k) == IF \E i \in DOMAIN us : iv = <<Payload(us[i]), End(us[i])>>
                   THEN k > 0 /\ iv = <<Payload(us[k]), End(us[k])>>
                   ELSE k = 0
<1>1. us \in Seq(Unit) /\ DOMAIN us = 1..Len(us) /\ m \in 0..Len(us) /\ m > 0
  BY DEF Units
<1>2. P(m)
  BY <1>1
<1>3. ASSUME NEW k \in 0..Len(us), P(k) PROVE k = m
  <2>1. k > 0 /\ iv = <<Payload(us[k]), End(us[k])>>
    BY <1>1, <1>3
  <2>2. k \in 1..Len(us) /\ End(us[k]) = End(us[m])
    BY <2>1
  <2> QED BY <2>2, UnitsDiffer
<1>4. FrameOf(us, iv) = CHOOSE k \in 0..Len(us) : P(k)
  BY DEF FrameOf
<1> HIDE DEF P
<1> QED BY <1>1, <1>2, <1>3, <1>4

-----------------------------------------------------------------------------
(* What a step leaves alone *)

\* A client whose streams and state do not change; the server may have read.
LEMMA ClientKept ==
  ASSUME NEW c \in Client, ClientInv(c),
         cph'[c] = cph[c], crx'[c] = crx[c], got'[c] = got[c],
         upU'[c] = upU[c], down'[c] = down[c], downU'[c] = downU[c],
         up'[c] = up[c] \/ up[c] # <<>>
  PROVE  ClientInv(c)'
<1>1. Early(c)'
  BY DEF ClientInv, Early
<1>2. UnitsInv(c)'
  BY DEF ClientInv, UnitsInv
<1>3. CPos(c)' = CPos(c) /\ CAt(c)' = CAt(c)
  BY DEF CPos, CAt
<1>4. DownInv(c)'
  BY <1>3 DEF ClientInv, DownInv
<1>5. GotInv(c)'
  BY DEF ClientInv, GotInv
<1> QED BY <1>1, <1>2, <1>4, <1>5 DEF ClientInv

\* The server and the client it serves do nothing.
LEMMA ServedKept ==
  ASSUME TableInv, UpInv, ServerInv, UNCHANGED <<sph, cur, srx, read>>,
         cur # NoClient => /\ cph'[cur] = cph[cur] /\ up'[cur] = up[cur]
                           /\ upU'[cur] = upU[cur] /\ down'[cur] = down[cur]
                           /\ downU'[cur] = downU[cur]
  PROVE  UpInv' /\ ServerInv'
<1>1. CASE cur = NoClient
  <2>1. sph \notin Busy
    BY <1>1 DEF TableInv
  <2> QED BY <1>1, <2>1 DEF UpInv, ServerInv, Busy
<1>2. CASE cur # NoClient
  <2>1. Pos' = Pos /\ At' = At
    BY <1>2 DEF Pos, At
  <2>2. UpInv'
    BY <1>2, <2>1 DEF UpInv, WEnd
  <2>3. ServerInv'
    BY <1>2, <2>1 DEF ServerInv
  <2> QED BY <2>2, <2>3
<1> QED BY <1>1, <1>2

\* Where the server is in the stream of its client.
LEMMA PosFacts ==
  ASSUME IInv, cur # NoClient
  PROVE  /\ cur \in Client /\ Units(upU[cur], 4) /\ Units(downU[cur], 0)
         /\ Pos \in Nat /\ Run(up[cur], Pos) /\ Fin(up[cur], Pos) <= Written(upU[cur])
         /\ ClientInv(cur) /\ cph[cur] \notin {"start", "connecting"} /\ ~send[cur]
         /\ sph \in Busy /\ Len(read) \in Nat /\ Len(upU[cur]) \in Nat
         /\ Len(downU[cur]) \in Nat
<1>1. cur \in Client /\ sph \in Busy /\ Len(read) \in Nat
  BY DEF IInv, TableInv, StreamInv, Types
<1>2. /\ ClientInv(cur) /\ cph[cur] \notin {"start", "connecting"} /\ ~send[cur]
      /\ Run(up[cur], Pos) /\ Fin(up[cur], Pos) <= Written(upU[cur])
  BY <1>1 DEF IInv, StreamInv, LineInv, UpInv
<1>3. Units(upU[cur], 4) /\ Units(downU[cur], 0)
  BY <1>2 DEF ClientInv, UnitsInv
<1>4. Len(upU[cur]) \in Nat /\ Len(downU[cur]) \in Nat
  BY <1>3 DEF Units
<1>5. Pos \in Nat
  <2>1. CASE sph = "upgrade"
    BY <2>1 DEF Pos
  <2>2. CASE sph \in {"header", "echo"}
    <3>1. Len(read) + 1 \in 1..Len(upU[cur])
      BY <1>1, <1>4, <2>2 DEF IInv, StreamInv, ServerInv
    <3>2. End(upU[cur][Len(read) + 1]) \in Nat
      BY <1>3, <3>1, UnitsFacts, UnitFacts
    <3> QED BY <2>2, <3>2 DEF Pos
  <2>3. CASE sph \in {"ext", "mask", "payload"}
    <3>1. At \in 1..Len(upU[cur])
      BY <1>1, <1>4, <2>3 DEF IInv, StreamInv, ServerInv, At
    <3>2. upU[cur][At] \in Unit
      BY <1>3, <3>1, UnitsFacts
    <3>3. upU[cur][At].start \in Nat /\ upU[cur][At].ext \in Nat /\ Payload(upU[cur][At]) \in Nat
      BY <3>2, UnitFacts
    <3>4. CASE sph = "ext"
      BY <3>3, <3>4 DEF Pos
    <3>5. CASE sph = "mask"
      BY <3>3, <3>5 DEF Pos
    <3>6. CASE sph = "payload"
      BY <3>3, <3>6 DEF Pos
    <3> QED BY <2>3, <3>4, <3>5, <3>6
  <2> QED BY <1>1, <2>1, <2>2, <2>3 DEF Busy
<1> QED BY <1>1, <1>2, <1>3, <1>4, <1>5

\* Where a client that is reading is in the server's stream.
LEMMA CPosFacts ==
  ASSUME IInv, NEW c \in Client, cph[c] \in {"open", "sending", "header", "ext", "payload"}
  PROVE  /\ Units(downU[c], 0) /\ Len(got[c]) \in Nat /\ Len(downU[c]) \in Nat
         /\ Len(got[c]) + 1 \in 1..Len(downU[c]) /\ upU[c] # <<>>
         /\ CPos(c) \in Nat /\ Run(down[c], CPos(c)) /\ Fin(down[c], CPos(c)) = Written(downU[c])
         /\ cph[c] \in {"ext", "payload"} =>
               /\ CAt(c) \in 2..Len(downU[c]) /\ downU[c][CAt(c)] \in Unit
               /\ crx[c].ext = downU[c][CAt(c)].ext /\ crx[c].len > 0
<1>1. ClientInv(c) /\ got[c] \in Seq(Interval)
  BY DEF IInv, StreamInv, Types
<1>2. /\ Units(downU[c], 0) /\ Units(upU[c], 4) /\ Len(downU[c]) <= Len(upU[c])
      /\ Len(downU[c]) >= Len(got[c]) + 1
      /\ Run(down[c], CPos(c)) /\ Fin(down[c], CPos(c)) = Written(downU[c])
      /\ cph[c] \in {"ext", "payload"} =>
            CAt(c) <= Len(downU[c]) /\ crx[c].ext = downU[c][CAt(c)].ext /\ crx[c].len > 0
  BY <1>1 DEF ClientInv, UnitsInv, DownInv
<1>3. Len(got[c]) \in Nat /\ Len(downU[c]) \in Nat /\ Len(upU[c]) \in Nat
  BY <1>1, <1>2 DEF Units
<1>4. Len(got[c]) + 1 \in 1..Len(downU[c]) /\ upU[c] # <<>>
  BY <1>2, <1>3
<1>5. CASE cph[c] \in {"open", "sending", "header"}
  <2>1. End(downU[c][Len(got[c]) + 1]) \in Nat
    BY <1>2, <1>4, UnitsFacts, UnitFacts
  <2>2. CPos(c) \in Nat
    BY <1>5, <2>1 DEF CPos
  <2> QED BY <1>2, <1>3, <1>4, <1>5, <2>2
<1>6. CASE cph[c] \in {"ext", "payload"}
  <2>1. CAt(c) \in 2..Len(downU[c]) /\ CAt(c) \in 1..Len(downU[c])
    BY <1>2, <1>3, <1>6 DEF CAt
  <2>2. downU[c][CAt(c)] \in Unit
    BY <1>2, <2>1, UnitsFacts
  <2>3. downU[c][CAt(c)].start \in Nat /\ downU[c][CAt(c)].ext \in Nat
    BY <2>2, UnitFacts
  <2>4. CPos(c) \in Nat
    <3>1. CASE cph[c] = "ext"
      BY <2>3, <3>1 DEF CPos
    <3>2. CASE cph[c] = "payload"
      <4>1. CPos(c) = (downU[c][CAt(c)].start + 2) +
                         (IF c \in CClient THEN downU[c][CAt(c)].ext ELSE 0)
        BY <3>2 DEF CPos
      <4> QED BY <2>3, <4>1
    <3> QED BY <1>6, <3>1, <3>2
  <2> QED BY <1>2, <1>3, <1>4, <2>1, <2>2, <2>4
<1> QED BY <1>5, <1>6

-----------------------------------------------------------------------------
(* The server's steps *)

\* tls_close: nobody is served any more.
LEMMA TlsCloseStep ==
  ASSUME IInv, TlsClose, cur # NoClient,
         UNCHANGED <<backlog, clients, down, upU, downU, cend>>,
         up' \in [Client -> Seq(Interval)],
         \A c \in Client : up'[c] = up[c] \/ up[c] # <<>>
  PROVE  StreamInv'
<1>0. /\ send' = [send EXCEPT ![cur] = TRUE] /\ cur' = NoClient /\ sph' = "accept"
      /\ srx' = NoFrame /\ read' = <<>> /\ UNCHANGED <<cph, crx, got>>
  BY DEF TlsClose, clients
<1>1. cur \in Client /\ backlog \in Seq(Client)
  BY DEF IInv, TableInv
<1>2. Types'
  <2>1. srx' \in FieldSet
    BY <1>0 DEF NoFrame, FieldSet
  <2>2. read' \in Seq(Interval)
    BY <1>0
  <2>3. send' \in [Client -> BOOLEAN]
    BY <1>0 DEF IInv, StreamInv, Types
  <2> QED BY <1>0, <2>1, <2>2, <2>3 DEF IInv, StreamInv, Types
<1>3. LineInv'
  <2>1. ASSUME NEW i \in 1..Len(backlog)
        PROVE  backlog[i] \in Client /\ backlog[i] # NoClient /\ send'[backlog[i]] = send[backlog[i]]
    <3>1. backlog[i] \in Client /\ backlog[i] # cur
      BY <1>1 DEF IInv, StreamInv, LineInv
    <3> QED BY <1>0, <3>1, WssConstants DEF IInv, StreamInv, Types
  <2>2. ASSUME NEW c \in Client, cph[c] = "start" PROVE ~send'[c]
    <3>1. c # cur /\ ~send[c]
      BY <2>2 DEF IInv, StreamInv, LineInv
    <3> QED BY <1>0, <3>1 DEF IInv, StreamInv, Types
  <2> QED BY <1>0, <2>1, <2>2 DEF IInv, StreamInv, LineInv
<1>4. UpInv' /\ ServerInv'
  BY <1>0 DEF UpInv, ServerInv
<1>5. ASSUME NEW c \in Client PROVE ClientInv(c)'
  BY <1>0, ClientKept DEF IInv, StreamInv
<1> QED BY <1>2, <1>3, <1>4, <1>5 DEF StreamInv

\* The socket is opened, or the program stops.
LEMMA ListenStep == ASSUME IInv, Listen PROVE StreamInv'
<1>0. /\ sph = "start" /\ sph' \in {"accept", "stopped"}
      /\ UNCHANGED <<cur, ssl_table, srx, read, backlog, cph, crx, got,
                     up, down, upU, downU, cend, send>>
  BY DEF Listen, clients, streams
<1>1. cur = NoClient /\ read = <<>>
  BY <1>0 DEF IInv, TableInv, Busy, StreamInv, ServerInv
<1>2. Types' /\ LineInv'
  BY <1>0 DEF IInv, StreamInv, Types, LineInv
<1>3. UpInv' /\ ServerInv'
  BY <1>0, <1>1 DEF UpInv, ServerInv
<1>4. ASSUME NEW c \in Client PROVE ClientInv(c)'
  BY <1>0, ClientKept DEF IInv, StreamInv
<1> QED BY <1>2, <1>3, <1>4 DEF StreamInv

\* The rest of the backlog.
LEMMA BacklogTail ==
  ASSUME IInv, backlog # <<>>
  PROVE  /\ Len(backlog) \in Nat /\ Head(backlog) = backlog[1] /\ Head(backlog) \in Client
         /\ Tail(backlog) \in Seq(Client) /\ Len(Tail(backlog)) = Len(backlog) - 1
         /\ \A i \in 1..Len(Tail(backlog)) :
                /\ i + 1 \in 2..Len(backlog) /\ Tail(backlog)[i] = backlog[i + 1]
                /\ Tail(backlog)[i] \in Client /\ Tail(backlog)[i] # Head(backlog)
<1>1. backlog \in Seq(Client) /\ Len(backlog) \in Nat /\ Len(backlog) >= 1
  BY DEF IInv, TableInv
<1>2. Head(backlog) = backlog[1] /\ Head(backlog) \in Client
  BY <1>1
<1>3. /\ Tail(backlog) \in Seq(Client) /\ Len(Tail(backlog)) = Len(backlog) - 1
      /\ \A i \in 1..Len(Tail(backlog)) : Tail(backlog)[i] = backlog[i + 1]
  BY <1>1
<1>4. ASSUME NEW i \in 1..Len(Tail(backlog))
      PROVE  /\ i + 1 \in 2..Len(backlog) /\ backlog[i + 1] \in Client
             /\ backlog[i + 1] # backlog[1]
  <2>1. i + 1 \in 2..Len(backlog) /\ i + 1 \in 1..Len(backlog) /\ 1 \in 1..Len(backlog) /\ 1 < i + 1
    BY <1>1, <1>3
  <2>2. backlog[i + 1] \in Client
    BY <1>1, <2>1
  <2> QED BY <2>1, <2>2 DEF IInv, StreamInv, LineInv
<1> QED BY <1>1, <1>2, <1>3, <1>4

\* tls_accept gives up a connection.
LEMMA TlsAcceptFailsStep == ASSUME IInv, TlsAcceptFails PROVE StreamInv'
<1>0. /\ sph = "accept" /\ backlog # <<>> /\ backlog' = Tail(backlog)
      /\ send' = [send EXCEPT ![Head(backlog)] = TRUE]
      /\ UNCHANGED <<sph, cur, srx, read, cph, crx, got, up, down, upU, downU, cend>>
  BY DEF TlsAcceptFails, server, clients
<1>1. cur = NoClient /\ read = <<>>
  BY <1>0 DEF IInv, TableInv, Busy, StreamInv, ServerInv
<1>2. Types'
  <2>1. send' \in [Client -> BOOLEAN]
    BY <1>0 DEF IInv, StreamInv, Types
  <2> QED BY <1>0, <2>1 DEF IInv, StreamInv, Types
<1>3. LineInv'
  <2>1. ASSUME NEW i \in 1..Len(backlog')
        PROVE  /\ cph'[backlog'[i]] = "connecting" \/ cend'[backlog'[i]]
               /\ cph'[backlog'[i]] # "start" /\ ~send'[backlog'[i]] /\ backlog'[i] # cur'
    <3>1. /\ i + 1 \in 1..Len(backlog) /\ backlog'[i] = backlog[i + 1] /\ backlog'[i] \in Client
          /\ backlog'[i] # Head(backlog)
      BY <1>0, BacklogTail
    <3>2. send'[backlog'[i]] = send[backlog'[i]]
      BY <1>0, <3>1 DEF IInv, StreamInv, Types
    <3> QED BY <1>0, <3>1, <3>2 DEF IInv, StreamInv, LineInv
  <2>2. ASSUME NEW i \in 1..Len(backlog'), NEW j \in 1..Len(backlog'), i < j
        PROVE  backlog'[i] # backlog'[j]
    <3>1. /\ i + 1 \in 1..Len(backlog) /\ backlog'[i] = backlog[i + 1]
          /\ j + 1 \in 1..Len(backlog) /\ backlog'[j] = backlog[j + 1] /\ i + 1 < j + 1
      BY <1>0, <2>2, BacklogTail
    <3> QED BY <3>1 DEF IInv, StreamInv, LineInv
  <2>3. ASSUME NEW c \in Client, cph[c] = "start" PROVE ~send'[c]
    <3>1. 1 \in 1..Len(backlog) /\ backlog[1] = Head(backlog)
      BY <1>0, BacklogTail DEF IInv, TableInv
    <3>2. c # Head(backlog) /\ ~send[c]
      BY <2>3, <3>1 DEF IInv, StreamInv, LineInv
    <3> QED BY <1>0, <3>2 DEF IInv, StreamInv, Types
  <2> QED BY <1>0, <1>1, <2>1, <2>2, <2>3 DEF LineInv
<1>4. UpInv' /\ ServerInv'
  BY <1>0, <1>1 DEF UpInv, ServerInv
<1>5. ASSUME NEW c \in Client PROVE ClientInv(c)'
  BY <1>0, ClientKept DEF IInv, StreamInv
<1> QED BY <1>2, <1>3, <1>4, <1>5 DEF StreamInv

\* tls_accept takes the next client, which has sent nothing yet.
LEMMA TlsAcceptStep == ASSUME IInv, TlsAccept PROVE StreamInv'
<1>1. PICK c \in Client : c = Head(backlog)
  BY BacklogTail DEF TlsAccept
<1>0. /\ sph = "accept" /\ backlog # <<>> /\ backlog' = Tail(backlog) /\ ~cend[c]
      /\ cur' = c /\ cph' = [cph EXCEPT ![c] = "tls"] /\ sph' = "upgrade"
      /\ UNCHANGED <<srx, read, crx, got, up, down, upU, downU, cend, send>>
  BY <1>1 DEF TlsAccept, streams
<1>2. cur = NoClient /\ c # NoClient
  BY <1>0, WssConstants DEF IInv, TableInv, Busy
<1>3. Types'
  <2>1. cph' \in [Client -> {"start", "connecting", "tls", "await101", "open", "sending",
                            "header", "ext", "payload", "close", "done", "failed", "gone"}]
    BY <1>0 DEF IInv, StreamInv, Types
  <2> QED BY <1>0, <2>1 DEF IInv, StreamInv, Types
<1>4. cph[c] = "connecting" /\ ~send[c] /\ cph'[c] = "tls"
  <2>1. 1 \in 1..Len(backlog) /\ backlog[1] = c
    BY <1>0, <1>1, BacklogTail DEF IInv, TableInv
  <2> QED BY <1>0, <2>1 DEF IInv, StreamInv, LineInv, Types
<1>5. LineInv'
  <2>1. ASSUME NEW i \in 1..Len(backlog')
        PROVE  /\ cph'[backlog'[i]] = "connecting" \/ cend'[backlog'[i]]
               /\ cph'[backlog'[i]] # "start" /\ ~send'[backlog'[i]] /\ backlog'[i] # cur'
    <3>1. /\ i + 1 \in 1..Len(backlog) /\ backlog'[i] = backlog[i + 1] /\ backlog'[i] \in Client
          /\ backlog'[i] # Head(backlog)
      <4>1. backlog # <<>> /\ i \in 1..Len(Tail(backlog)) /\ backlog' = Tail(backlog)
        BY <1>0
      <4>2. /\ i + 1 \in 2..Len(backlog) /\ Tail(backlog)[i] = backlog[i + 1]
            /\ Tail(backlog)[i] \in Client /\ Tail(backlog)[i] # Head(backlog)
            /\ Len(backlog) \in Nat
        BY <4>1, BacklogTail
      <4> QED BY <4>1, <4>2
    <3>2. cph'[backlog'[i]] = cph[backlog'[i]]
      BY <1>0, <1>1, <3>1 DEF IInv, StreamInv, Types
    <3> QED BY <1>0, <1>1, <3>1, <3>2 DEF IInv, StreamInv, LineInv
  <2>2. ASSUME NEW i \in 1..Len(backlog'), NEW j \in 1..Len(backlog'), i < j
        PROVE  backlog'[i] # backlog'[j]
    <3>1. /\ i + 1 \in 1..Len(backlog) /\ backlog'[i] = backlog[i + 1]
          /\ j + 1 \in 1..Len(backlog) /\ backlog'[j] = backlog[j + 1] /\ i + 1 < j + 1
      BY <1>0, <2>2, BacklogTail
    <3> QED BY <3>1 DEF IInv, StreamInv, LineInv
  <2>3. ASSUME NEW d \in Client, cph'[d] = "start" PROVE ~send'[d]
    <3>1. cph[d] = "start"
      BY <1>0, <1>4, <2>3 DEF IInv, StreamInv, Types
    <3> QED BY <1>0, <3>1 DEF IInv, StreamInv, LineInv
  <2> QED BY <1>0, <1>4, <2>1, <2>2, <2>3 DEF LineInv
<1>6. up[c] = <<>> /\ upU[c] = <<>> /\ down[c] = <<>> /\ downU[c] = <<>> /\ got[c] = <<>>
  BY <1>4 DEF IInv, StreamInv, ClientInv, Early
<1>7. UpInv' /\ ServerInv'
  <2>1. Pos' = 0 /\ read = <<>>
    BY <1>0, <1>2 DEF Pos, IInv, StreamInv, ServerInv
  <2>2. Run(<<>>, 0) /\ Fin(<<>>, 0) = 0 /\ Written(<<>>) = 0
    BY DEF Run, Fin, Written
  <2>3. UpInv'
    BY <1>0, <1>4, <1>6, <2>1, <2>2 DEF UpInv, WEnd
  <2> QED BY <1>0, <1>4, <1>6, <2>1, <2>3 DEF ServerInv
<1>8. ASSUME NEW d \in Client PROVE ClientInv(d)'
  <2>1. CASE d = c
    <3>1. Early(c)' /\ GotInv(c)'
      BY <1>0, <1>4, <1>6 DEF Early, GotInv
    <3>2. UnitsInv(c)'
      BY <1>0, <1>4, <1>6 DEF UnitsInv, Units
    <3>3. DownInv(c)'
      BY <1>4 DEF DownInv
    <3> QED BY <2>1, <3>1, <3>2, <3>3 DEF ClientInv
  <2>2. CASE d # c
    <3>1. cph'[d] = cph[d]
      BY <1>0, <2>2 DEF IInv, StreamInv, Types
    <3> QED BY <1>0, <3>1, ClientKept DEF IInv, StreamInv
  <2> QED BY <2>1, <2>2
<1> QED BY <1>3, <1>5, <1>7, <1>8 DEF StreamInv

\* The peer is gone.
LEMMA ServerReadFailsStep == ASSUME IInv, ServerReadFails PROVE StreamInv'
<1>1. cur # NoClient
  BY DEF ServerReadFails, IInv, TableInv, Busy
<1>2. UNCHANGED <<backlog, clients, down, upU, downU, cend, up>> /\ TlsClose
  BY DEF ServerReadFails
<1>3. up' \in [Client -> Seq(Interval)]
  BY <1>2 DEF IInv, StreamInv, Types
<1> QED BY <1>1, <1>2, <1>3, TlsCloseStep

\* One read takes all of a head.
LEMMA OneRecord ==
  ASSUME NEW q, q = <<<<0, HttpLen>>>>, NEW n \in Nat, n >= HttpLen
  PROVE  Rest(q, n) = <<>>
<1>1. q[1] = <<0, HttpLen>> /\ Tail(q) = <<>>
  OBVIOUS
<1>2. Took(q, n) = <<0, HttpLen>>
  BY <1>1 DEF Took, Lesser, HttpLen
<1> QED BY <1>1, <1>2 DEF Rest

\* The upgrade: the server is behind the request, the response on its way.
LEMMA UpgradeStep == ASSUME IInv, Upgrade PROVE StreamInv'
<1>0. /\ sph = "upgrade" /\ up[cur] # <<>>
      /\ up' = [up EXCEPT ![cur] = Rest(up[cur], ReqBuf)]
      /\ UNCHANGED <<backlog, clients, upU, cend>>
  BY DEF Upgrade
<1>1. cur # NoClient
  BY <1>0 DEF IInv, TableInv, Busy
<1>2. /\ read = <<>> /\ downU[cur] = <<>> /\ down[cur] = <<>>
      /\ cph[cur] \in {"tls", "await101", "failed", "gone"}
      /\ up[cur] = <<<<0, HttpLen>>>> /\ Len(upU[cur]) <= 1
  BY <1>0 DEF IInv, StreamInv, ServerInv
<1>3. Rest(up[cur], ReqBuf) = <<>>
  BY <1>2, OneRecord DEF ReqBuf, HttpLen
<1>4. cur \in Client /\ up'[cur] = <<>> /\ \A c \in Client : c # cur => up'[c] = up[c]
  BY <1>0, <1>1, <1>3, PosFacts DEF IInv, StreamInv, Types
<1>5. up' \in [Client -> Seq(Interval)]
  <2>1. <<>> \in Seq(Interval)
    BY EmptySeq
  <2> QED BY <1>0, <1>3, <2>1 DEF IInv, StreamInv, Types
<1>6. CASE TlsClose /\ UNCHANGED <<down, downU>>
  BY <1>0, <1>1, <1>4, <1>5, <1>6, TlsCloseStep
<1>7. CASE /\ sph' = "header"
           /\ downU' = [downU EXCEPT ![cur] = <<Http(0, FALSE)>>]
           /\ down' = [down EXCEPT ![cur] = Records(0, HttpLen)]
           /\ UNCHANGED <<cur, ssl_table, srx, read, send>>
  <2>0. UNCHANGED <<cph, crx, got>>
    BY <1>0 DEF clients
  <2>1. Records(0, HttpLen) = <<<<0, HttpLen>>>>
    BY RecordsRun DEF HttpLen
  <2>2. Http(0, FALSE) \in Unit
    BY HttpUnit
  <2>3. /\ down'[cur] = <<<<0, HttpLen>>>>
        /\ \A c \in Client : c # cur => down'[c] = down[c]
        /\ down' \in [Client -> Seq(Interval)]
    <3>1. Records(0, HttpLen) \in Seq(Interval)
      BY RecordsRun DEF Run, HttpLen
    <3> QED BY <1>4, <1>7, <2>1, <3>1 DEF IInv, StreamInv, Types
  <2>4. /\ downU'[cur] = <<Http(0, FALSE)>>
        /\ \A c \in Client : c # cur => downU'[c] = downU[c]
        /\ downU' \in [Client -> Seq(Unit)]
    <3>0. \A u \in Unit : <<u>> \in Seq(Unit)
      OBVIOUS
    <3>1. <<Http(0, FALSE)>> \in Seq(Unit)
      BY <2>2, <3>0, Zenon
    <3> QED BY <1>4, <1>7, <3>1 DEF IInv, StreamInv, Types
  <2>5. upU[cur] # <<>> /\ Len(upU[cur]) = 1 /\ Units(upU[cur], 4)
    <3>1. Fin(up[cur], Pos) = HttpLen
      BY <1>2 DEF Fin
    <3>2. Written(upU[cur]) # 0 /\ Units(upU[cur], 4)
      BY <1>1, <3>1, PosFacts DEF HttpLen
    <3>3. upU[cur] # <<>>
      BY <3>2 DEF Written
    <3>4. Len(upU[cur]) \in Nat \ {0}
      BY <3>2, <3>3, EmptySeq DEF Units
    <3>5. Len(upU[cur]) = 1
      <4>1. Len(upU[cur]) <= 1
        BY <1>2
      <4>2. \A n \in Nat \ {0} : n <= 1 => n = 1
        OBVIOUS
      <4> QED BY <3>4, <4>1, <4>2, Zenon
    <3> QED BY <3>2, <3>3, <3>5
  <2>6. End(upU[cur][1]) = HttpLen /\ Written(upU[cur]) = HttpLen
    BY <2>5, UnitsFacts DEF Written
  <2>7. cph[cur] # "tls"
    BY <1>0, <1>4 DEF IInv, StreamInv, ClientInv, Early
  <2>8. Types' /\ LineInv'
    <3>1. Types'
      BY <1>0, <1>5, <1>7, <2>0, <2>3, <2>4 DEF IInv, StreamInv, Types
    <3>2. LineInv'
      BY <1>0, <1>7, <2>0 DEF IInv, StreamInv, LineInv
    <3> QED BY <3>1, <3>2
  <2>9. Len(read) = 0 /\ Len(<<Http(0, FALSE)>>) = 1
    BY <1>2
  <2>10. UpInv'
    <3>1. Pos' = HttpLen
      BY <1>0, <1>7, <2>6, <2>9 DEF Pos
    <3>2. Run(<<>>, HttpLen) /\ Fin(<<>>, HttpLen) = HttpLen
      BY DEF Run, Fin
    <3>3. WEnd(cur)' = HttpLen
      BY <1>0, <1>2, <1>7, <2>0, <2>6 DEF WEnd
    <3> QED BY <1>0, <1>4, <1>7, <2>6, <3>1, <3>2, <3>3 DEF UpInv, HttpLen
  <2>11. ServerInv'
    BY <1>0, <1>1, <1>2, <1>7, <2>0, <2>4, <2>5, <2>7, <2>9 DEF ServerInv
  <2>12. ASSUME NEW c \in Client PROVE ClientInv(c)'
    <3>1. CASE c # cur
      BY <1>0, <1>4, <2>0, <2>3, <2>4, <3>1, ClientKept DEF IInv, StreamInv
    <3>2. CASE c = cur
      <4>1. got[cur] = <<>>
        <5>1. GotInv(cur) /\ Len(downU[cur]) = 0 /\ got[cur] \in Seq(Interval)
          BY <1>2, <1>4 DEF IInv, StreamInv, ClientInv, Types
        <5>2. Len(got[cur]) \in Nat
          BY <5>1
        <5>3. Len(got[cur]) = 0
          BY <5>1, <5>2 DEF GotInv
        <5> QED BY <5>1, <5>3, EmptySeq
      <4>2. Early(cur)'
        BY <1>0, <1>2, <1>7, <2>0, <2>3, <2>4, <2>5, <2>7, <2>9, <4>1 DEF Early
      <4>3. Units(<<Http(0, FALSE)>>, 0)
        <5>0. \A u \in Unit : <<u>> \in Seq(Unit)
          OBVIOUS
        <5>1. <<Http(0, FALSE)>> \in Seq(Unit)
          BY <2>2, <5>0, Zenon
        <5>2. <<Http(0, FALSE)>>[1] = Http(0, FALSE) /\ FALSE \in BOOLEAN
          OBVIOUS
        <5>3. \E key \in BOOLEAN : <<Http(0, FALSE)>>[1] = Http(0, key)
          BY <5>2
        <5>4. /\ \A m : m \in 2..1 => FALSE
              /\ \A j, k \in 1..1 : j < k => FALSE
          OBVIOUS
        <5> QED BY <2>9, <5>1, <5>3, <5>4 DEF Units
      <4>4. UnitsInv(cur)'
        BY <1>0, <1>2, <1>7, <2>0, <2>4, <2>5, <2>9, <4>3 DEF UnitsInv
      <4>5. DownInv(cur)'
        BY <1>2, <1>7, <2>0 DEF DownInv
      <4>6. GotInv(cur)'
        BY <1>7, <2>0, <4>1 DEF GotInv
      <4>7. ClientInv(cur)'
        BY <4>2, <4>4, <4>5, <4>6 DEF ClientInv
      <4> QED BY <1>7, <3>2, <4>7
    <3> QED BY <3>1, <3>2
  <2> QED BY <2>8, <2>10, <2>11, <2>12 DEF StreamInv
<1> QED BY <1>6, <1>7 DEF Upgrade

\* With bytes there, ws_recv_text looks for a header at the beginning of the
\* frame behind the texts it has read.
LEMMA FrameAhead ==
  ASSUME IInv, sph = "header", up[cur] # <<>>
  PROVE  /\ At \in 2..Len(upU[cur]) /\ upU[cur][At].start = Pos /\ up[cur][1][1] = Pos
         /\ cur # NoClient /\ upU[cur][At] \in Unit
         /\ upU[cur][At].kind = "frame" /\ upU[cur][At].mask = 4
         /\ upU[cur][At].ext = ExtBytes(upU[cur][At].len)
<1>1. cur # NoClient
  BY DEF IInv, TableInv, Busy
<1>2. PICK n \in Nat, l \in Nat : n = Len(read) + 1 /\ l = Len(upU[cur]) /\ n >= 1
  BY <1>1, PosFacts
<1>3. n <= l /\ Pos = End(upU[cur][n])
  BY <1>2 DEF IInv, StreamInv, ServerInv, Pos
<1>4. Units(upU[cur], 4) /\ Pos \in Nat /\ Run(up[cur], Pos) /\ Fin(up[cur], Pos) <= Written(upU[cur])
  BY <1>1, PosFacts
<1>5. Pos < Fin(up[cur], Pos) /\ Fin(up[cur], Pos) \in Nat /\ up[cur][1][1] = Pos
  BY <1>4, RunFin DEF Run
<1>6. n # l
  <2>1. CASE n = l
    <3>1. Written(upU[cur]) = Pos
      BY <1>2, <1>3, <1>4, <2>1 DEF Written, Units
    <3> QED BY <1>4, <1>5, <3>1
  <2> QED BY <2>1
<1>7. n \in 1..l /\ n < l
  BY <1>2, <1>3, <1>6
<1>8. upU[cur][n + 1].start = Pos
  BY <1>2, <1>3, <1>4, <1>7, UnitsFacts
<1>9. At = n + 1 /\ n + 1 \in 2..l /\ n + 1 \in 1..l
  BY <1>1, <1>2, <1>7, PosFacts DEF At
<1>10. upU[cur][At] \in Unit
  BY <1>2, <1>4, <1>9 DEF Units
<1>11. /\ upU[cur][At].kind = "frame" /\ upU[cur][At].mask = 4
       /\ upU[cur][At].ext = ExtBytes(upU[cur][At].len)
  BY <1>2, <1>4, <1>9 DEF Units
<1> QED BY <1>1, <1>2, <1>5, <1>8, <1>9, <1>10, <1>11

\* A read that is not short moves the server on by what it asked for.
LEMMA ReadMoves ==
  ASSUME IInv, cur # NoClient, up[cur] # <<>>, NEW n \in Nat, n > 0,
         ~Short(up[cur], n), up' = [up EXCEPT ![cur] = Rest(up[cur], n)],
         UNCHANGED <<cur, backlog, clients, down, upU, downU, cend, send>>,
         srx' \in FieldSet, read' \in Seq(Interval), Pos' = Pos + n, ServerInv'
  PROVE  StreamInv'
<1>0. UNCHANGED <<cph, crx, got>>
  BY DEF clients
<1>1. cur \in Client /\ Pos \in Nat /\ Run(up[cur], Pos) /\ Fin(up[cur], Pos) <= Written(upU[cur])
  BY PosFacts
<1>2. /\ Took(up[cur], n) = <<Pos, Pos + n>>
      /\ Run(Rest(up[cur], n), Pos + n) /\ Fin(Rest(up[cur], n), Pos + n) = Fin(up[cur], Pos)
  <2>1. Took(up[cur], n) = <<Pos, Pos + n>>
    BY <1>1, RunTake
  <2>2. Took(up[cur], n)[2] = Pos + n
    BY <2>1
  <2> QED BY <1>1, <2>1, <2>2, RunTake
<1>3. /\ up'[cur] = Rest(up[cur], n) /\ \A c \in Client : c # cur => up'[c] = up[c]
      /\ up' \in [Client -> Seq(Interval)]
  BY <1>1, <1>2 DEF IInv, StreamInv, Types, Run
<1>4. Types' /\ LineInv'
  BY <1>0, <1>3 DEF IInv, StreamInv, Types, LineInv
<1>5. UpInv'
  <2>1. WEnd(cur)' = WEnd(cur)
    BY <1>0 DEF WEnd
  <2> QED BY <1>0, <1>1, <1>2, <1>3, <2>1 DEF IInv, StreamInv, UpInv
<1>6. ASSUME NEW c \in Client PROVE ClientInv(c)'
  BY <1>0, <1>3, ClientKept DEF IInv, StreamInv
<1> QED BY <1>4, <1>5, <1>6 DEF StreamInv

\* ws_recv_text reads the first two bytes.
LEMMA ReadHeader ==
  ASSUME IInv, ServerReads, sph = "header", ~TlsClose
  PROVE  StreamInv'
<1> DEFINE u == upU[cur][At]
           iv == Took(up[cur], 2)
<1>0. Want = 2 /\ up[cur] # <<>> /\ UNCHANGED <<backlog, clients, down, upU, downU, cend>>
  BY DEF ServerReads, Want
<1>1. PICK r \in Headers(upU[cur], iv) :
        /\ ~Short(up[cur], 2) /\ FieldBehind(r) # "refused"
        /\ sph' = FieldBehind(r) /\ srx' = r /\ read' = read
        /\ UNCHANGED <<cur, ssl_table, send>>
        /\ up' = [up EXCEPT ![cur] = Rest(up[cur], 2)]
  BY <1>0 DEF ServerReads, Decoded
<1>2. /\ At \in 2..Len(upU[cur]) /\ u.start = Pos /\ cur # NoClient /\ u \in Unit
      /\ u.kind = "frame" /\ u.mask = 4 /\ u.ext = ExtBytes(u.len)
  BY <1>0, FrameAhead
<1>3. Pos \in Nat /\ Run(up[cur], Pos) /\ Units(upU[cur], 4) /\ Len(read) \in Nat
  BY <1>2, PosFacts
<1>4. iv[1] = u.start
  BY <1>0, <1>2, <1>3, RunTake
<1>5. r \in FieldSet /\ r.masked /\ r.ext = u.ext /\ r.len = Field7(u)
  <2>1. 4 \in Nat /\ (4 > 0) = TRUE
    OBVIOUS
  <2>2. \A x \in Headers(upU[cur], iv) :
          /\ x \in FieldSet /\ x.op = u.op /\ x.masked = (4 > 0)
          /\ x.ext = u.ext /\ x.len = Field7(u)
    <3> HIDE DEF iv
    <3>1. upU[cur][At].start = iv[1] /\ At \in 2..Len(upU[cur]) /\ Units(upU[cur], 4)
      BY <1>2, <1>3, <1>4
    <3> QED BY <2>1, <3>1, HeaderAt
  <2>3. r.masked = (4 > 0) /\ r \in FieldSet /\ r.ext = u.ext /\ r.len = Field7(u)
    BY <2>2
  <2> QED BY <2>1, <2>3
<1>6. u.ext \in Nat /\ (u.ext = 0 => Field7(u) = u.len)
  BY <1>2, UnitFacts, ExtMatches
<1>7. sph' = IF u.ext > 0 THEN "ext" ELSE "mask"
  BY <1>1, <1>5 DEF FieldBehind, AfterLength
<1>8. upU'[cur'][At'] = u /\ At' = At
  BY <1>0, <1>1 DEF At
<1>9. Pos' = Pos + 2
  <2>1. CASE u.ext > 0
    BY <1>2, <1>7, <1>8, <2>1 DEF Pos
  <2>2. CASE ~(u.ext > 0)
    <3>1. sph' = "mask" /\ u.ext = 0
      BY <1>6, <1>7, <2>2
    <3>2. Pos' = (u.start + 2) + u.ext
      BY <1>8, <3>1 DEF Pos
    <3> QED BY <1>2, <1>3, <3>1, <3>2
  <2> QED BY <2>1, <2>2
<1>10. ServerInv'
  <2>1. /\ Len(upU[cur]) >= Len(read) + 1 /\ Len(downU[cur]) = Len(read) + 1
        /\ cph[cur] \notin {"tls"}
    BY DEF IInv, StreamInv, ServerInv
  <2>2. cur' # NoClient /\ UNCHANGED cph
    BY <1>0, <1>1, <1>2 DEF clients
  <2>3. At <= Len(upU[cur])
    BY <1>2
  <2>4. u.ext = 0 \/ u.ext > 0
    BY <1>6
  <2> QED BY <1>0, <1>1, <1>5, <1>6, <1>7, <1>8, <2>1, <2>2, <2>3, <2>4 DEF ServerInv
<1> HIDE DEF u, iv
<1>11. read' \in Seq(Interval) /\ srx' \in FieldSet
  BY <1>1, <1>5 DEF IInv, StreamInv, Types
<1>12. 2 \in Nat /\ 2 > 0
  OBVIOUS
<1> QED BY <1>0, <1>1, <1>2, <1>9, <1>10, <1>11, <1>12, ReadMoves, Zenon

\* The frame the server is in.
LEMMA FrameRead ==
  ASSUME IInv, sph \in {"ext", "mask", "payload"}
  PROVE  /\ At \in 2..Len(upU[cur]) /\ cur # NoClient /\ upU[cur][At] \in Unit
         /\ upU[cur][At].kind = "frame" /\ upU[cur][At].mask = 4
         /\ srx \in FieldSet /\ srx.masked /\ srx.ext = upU[cur][At].ext
         /\ srx.len \in Nat /\ srx.ext \in Nat
         /\ Len(upU[cur]) >= Len(read) + 1 /\ Len(downU[cur]) = Len(read) + 1
         /\ cph[cur] # "tls"
         /\ upU[cur][At].start \in Nat /\ upU[cur][At].ext \in Nat
         /\ Payload(upU[cur][At]) = ((upU[cur][At].start + 2) + upU[cur][At].ext) + 4
         /\ End(upU[cur][At]) = Payload(upU[cur][At]) + upU[cur][At].len
<1>1. cur # NoClient
  BY DEF IInv, TableInv, Busy
<1>2. /\ At <= Len(upU[cur]) /\ srx.masked /\ srx.ext = upU[cur][At].ext
      /\ Len(upU[cur]) >= Len(read) + 1 /\ Len(downU[cur]) = Len(read) + 1
      /\ cph[cur] # "tls"
  BY DEF IInv, StreamInv, ServerInv
<1>3. srx \in FieldSet /\ srx.len \in Nat /\ srx.ext \in Nat
  BY DEF IInv, StreamInv, Types, FieldSet
<1>4. Len(read) \in Nat /\ Len(upU[cur]) \in Nat /\ Units(upU[cur], 4)
  BY <1>1, PosFacts
<1>5. At \in 2..Len(upU[cur]) /\ At \in 1..Len(upU[cur])
  BY <1>2, <1>4 DEF At
<1>6. upU[cur][At] \in Unit /\ upU[cur][At].kind = "frame" /\ upU[cur][At].mask = 4
  BY <1>4, <1>5 DEF Units
<1>7. /\ upU[cur][At].start \in Nat /\ upU[cur][At].ext \in Nat
      /\ Payload(upU[cur][At]) = ((upU[cur][At].start + 2) + upU[cur][At].ext) + upU[cur][At].mask
      /\ End(upU[cur][At]) = Payload(upU[cur][At]) + upU[cur][At].len
  BY <1>6, UnitFacts
<1>8. Payload(upU[cur][At]) = ((upU[cur][At].start + 2) + upU[cur][At].ext) + 4
  BY <1>6, <1>7
<1> QED BY <1>1, <1>2, <1>3, <1>5, <1>6, <1>7, <1>8

\* The extended length.
LEMMA ReadExt ==
  ASSUME IInv, ServerReads, sph = "ext", ~TlsClose
  PROVE  StreamInv'
<1> DEFINE u == upU[cur][At]
           n == srx.ext
           iv == Took(up[cur], n)
<1>0. Want = n /\ up[cur] # <<>> /\ UNCHANGED <<backlog, clients, down, upU, downU, cend>>
  BY DEF ServerReads, Want
<1>1. PICK l \in Lengths(upU[cur], iv) :
        /\ ~Short(up[cur], n) /\ FieldBehind([srx EXCEPT !.len = l]) # "refused"
        /\ sph' = FieldBehind([srx EXCEPT !.len = l]) /\ srx' = [srx EXCEPT !.len = l]
        /\ read' = read /\ UNCHANGED <<cur, ssl_table, send>>
        /\ up' = [up EXCEPT ![cur] = Rest(up[cur], n)]
  BY <1>0 DEF ServerReads, Decoded
<1>2. /\ At \in 2..Len(upU[cur]) /\ cur # NoClient /\ u \in Unit /\ u.start \in Nat
      /\ srx \in FieldSet /\ srx.masked /\ n = u.ext /\ n \in Nat
      /\ Len(upU[cur]) >= Len(read) + 1 /\ Len(downU[cur]) = Len(read) + 1
      /\ cph[cur] # "tls"
  BY FrameRead
<1>3. n > 0 /\ Pos = u.start + 2
  BY DEF IInv, StreamInv, ServerInv, Pos
<1>4. Pos \in Nat /\ Run(up[cur], Pos) /\ Units(upU[cur], 4) /\ Len(read) \in Nat
  BY <1>2, PosFacts
<1>5. iv = <<Pos, Pos + n>>
  BY <1>0, <1>1, <1>2, <1>3, <1>4, RunTake
<1>6. Lengths(upU[cur], iv) = {u.len} /\ u.len \in Nat
  <2>1. PICK m \in 2..Len(upU[cur]) : m = At
    BY <1>2
  <2>2. upU[cur][m].ext > 0
    BY <1>2, <1>3, <2>1
  <2>3. Lengths(upU[cur], <<upU[cur][m].start + 2, (upU[cur][m].start + 2) + upU[cur][m].ext>>)
          = {upU[cur][m].len}
    BY <1>4, <2>2, LengthAt
  <2>4. iv = <<u.start + 2, (u.start + 2) + u.ext>>
    BY <1>2, <1>3, <1>5
  <2>5. u.len \in Nat
    BY <1>2, UnitFacts
  <2> QED BY <2>1, <2>3, <2>4, <2>5
<1>7. srx' \in FieldSet /\ srx'.masked /\ srx'.ext = u.ext /\ srx'.len = u.len
  BY <1>1, <1>2, <1>6 DEF FieldSet
<1>8. sph' = "mask"
  BY <1>1, <1>7 DEF FieldBehind, AfterLength
<1>9. upU'[cur'][At'] = u /\ At' = At
  BY <1>0, <1>1 DEF At
<1>10. Pos' = Pos + n
  <2>1. Pos' = (u.start + 2) + u.ext
    BY <1>8, <1>9 DEF Pos
  <2> QED BY <1>2, <1>3, <2>1
<1>11. ServerInv'
  <2>1. cur' # NoClient /\ UNCHANGED cph
    BY <1>0, <1>1, <1>2 DEF clients
  <2>2. At <= Len(upU[cur])
    BY <1>2
  <2> QED BY <1>0, <1>1, <1>2, <1>7, <1>8, <1>9, <2>1, <2>2 DEF ServerInv
<1>12. read' \in Seq(Interval)
  BY <1>1 DEF IInv, StreamInv, Types
<1> HIDE DEF u, n, iv
<1> QED BY <1>0, <1>1, <1>2, <1>3, <1>7, <1>10, <1>11, <1>12, ReadMoves

\* The key.
LEMMA ReadMask ==
  ASSUME IInv, ServerReads, sph = "mask", ~TlsClose
  PROVE  StreamInv'
<1> DEFINE u == upU[cur][At]
<1>0. Want = 4 /\ up[cur] # <<>> /\ UNCHANGED <<backlog, clients, down, upU, downU, cend>>
  BY DEF ServerReads, Want
<1>1. /\ ~Short(up[cur], 4) /\ FieldBehind(srx) # "refused"
      /\ sph' = FieldBehind(srx) /\ srx' = srx
      /\ read' = read /\ UNCHANGED <<cur, ssl_table, send>>
      /\ up' = [up EXCEPT ![cur] = Rest(up[cur], 4)]
  BY <1>0 DEF ServerReads, Decoded
<1>2. /\ At \in 2..Len(upU[cur]) /\ cur # NoClient /\ u.start \in Nat /\ u.ext \in Nat
      /\ srx \in FieldSet /\ srx.masked /\ srx.ext = u.ext /\ srx.len \in Nat
      /\ Len(upU[cur]) >= Len(read) + 1 /\ Len(downU[cur]) = Len(read) + 1
      /\ cph[cur] # "tls" /\ Payload(u) = ((u.start + 2) + u.ext) + 4
  BY FrameRead
<1>3. srx.len = u.len /\ Pos = (u.start + 2) + u.ext
  BY DEF IInv, StreamInv, ServerInv, Pos
<1>8. sph' = "payload" /\ srx.len > 0
  BY <1>1, <1>2 DEF FieldBehind, AfterHead
<1>9. upU'[cur'][At'] = u /\ At' = At
  BY <1>0, <1>1 DEF At
<1>10. Pos' = Pos + 4
  <2>1. Pos' = Payload(u)
    BY <1>8, <1>9 DEF Pos
  <2> QED BY <1>2, <1>3, <2>1
<1>11. ServerInv'
  <2>1. cur' # NoClient /\ UNCHANGED cph
    BY <1>0, <1>1, <1>2 DEF clients
  <2>2. At <= Len(upU[cur])
    BY <1>2
  <2> QED BY <1>0, <1>1, <1>2, <1>3, <1>8, <1>9, <2>1, <2>2 DEF ServerInv
<1>12. read' \in Seq(Interval) /\ srx' \in FieldSet
  BY <1>1, <1>2 DEF IInv, StreamInv, Types
<1> HIDE DEF u
<1>13. 4 \in Nat /\ 4 > 0
  OBVIOUS
<1> QED BY <1>0, <1>1, <1>2, <1>10, <1>11, <1>12, <1>13, ReadMoves, Zenon

\* The payload: all of the frame's text.
LEMMA ReadPayload ==
  ASSUME IInv, ServerReads, sph = "payload", ~TlsClose
  PROVE  StreamInv'
<1> DEFINE u == upU[cur][At]
           n == srx.len
           iv == Took(up[cur], n)
<1>0. Want = n /\ up[cur] # <<>> /\ UNCHANGED <<backlog, clients, down, upU, downU, cend>>
  BY DEF ServerReads, Want
<1>1. /\ ~Short(up[cur], n) /\ sph' = FieldBehind(srx) /\ srx' = srx
      /\ read' = Append(read, iv) /\ UNCHANGED <<cur, ssl_table, send>>
      /\ up' = [up EXCEPT ![cur] = Rest(up[cur], n)]
  BY <1>0 DEF ServerReads, Decoded
<1>2. /\ At \in 2..Len(upU[cur]) /\ cur # NoClient
      /\ srx \in FieldSet /\ n \in Nat
      /\ Len(upU[cur]) >= Len(read) + 1 /\ Len(downU[cur]) = Len(read) + 1
      /\ cph[cur] # "tls" /\ End(u) = Payload(u) + u.len
  BY FrameRead
<1>3. n = u.len /\ n > 0 /\ Pos = Payload(u)
  BY DEF IInv, StreamInv, ServerInv, Pos
<1>4. Pos \in Nat /\ Run(up[cur], Pos) /\ Len(read) \in Nat /\ Len(upU[cur]) \in Nat
  BY <1>2, PosFacts
<1>5. iv = <<Pos, Pos + n>> /\ iv \in Interval
  BY <1>0, <1>1, <1>2, <1>3, <1>4, RunTake
<1>6. iv = <<Payload(u), End(u)>>
  BY <1>2, <1>3, <1>5
<1>7. sph' = "echo"
  BY <1>1 DEF FieldBehind
<1> HIDE DEF iv
<1>8. read \in Seq(Interval)
  BY DEF IInv, StreamInv, Types
<1>9. /\ read' \in Seq(Interval) /\ Len(read') = Len(read) + 1
      /\ read'[Len(read) + 1] = iv
  BY <1>1, <1>5, <1>8, AppendProperties
<1>10. Len(read') + 1 = At
  BY <1>4, <1>9 DEF At
<1>11. upU'[cur'][Len(read') + 1] = u
  BY <1>0, <1>1, <1>10
<1>12. Pos' = Pos + n
  <2>1. Pos' = End(u)
    BY <1>7, <1>11 DEF Pos
  <2> QED BY <1>2, <1>3, <2>1
<1>13. ServerInv'
  <2>1. cur' # NoClient /\ UNCHANGED cph
    BY <1>0, <1>1, <1>2 DEF clients
  <2>2. At <= Len(upU[cur]) /\ Len(read') > 0
    BY <1>2, <1>4, <1>9
  <2>3. Len(upU'[cur']) >= Len(read') + 1 /\ Len(downU'[cur']) = Len(read')
    BY <1>0, <1>1, <1>2, <1>9, <1>10, <2>2
  <2>4. read'[Len(read')] = <<Payload(u), End(u)>> /\ srx'.len = u.len
    BY <1>1, <1>3, <1>6, <1>9
  <2> QED BY <1>7, <1>11, <2>1, <2>2, <2>3, <2>4 DEF ServerInv
<1>14. srx' \in FieldSet
  BY <1>1, <1>2
<1> HIDE DEF u, n
<1> QED BY <1>0, <1>1, <1>2, <1>3, <1>9, <1>12, <1>13, <1>14, ReadMoves

\* One read of the server.
LEMMA ServerReadsStep == ASSUME IInv, ServerReads PROVE StreamInv'
<1>0. /\ sph \in {"header", "ext", "mask", "payload"} /\ up[cur] # <<>>
      /\ up' = [up EXCEPT ![cur] = Rest(up[cur], Want)]
      /\ UNCHANGED <<backlog, clients, down, upU, downU, cend>>
  BY DEF ServerReads
<1>1. CASE TlsClose
  <2>1. cur # NoClient
    BY <1>0 DEF IInv, TableInv, Busy
  <2>2. cur \in Client /\ Pos \in Nat /\ Run(up[cur], Pos)
    BY <2>1, PosFacts
  <2>3. Want \in Nat /\ Want > 0
    <3>1. CASE sph = "header" \/ sph = "mask"
      BY <3>1 DEF Want
    <3>2. CASE sph = "ext"
      <4>1. Want = srx.ext /\ srx.ext > 0
        BY <3>2 DEF Want, IInv, StreamInv, ServerInv
      <4> QED BY <3>2, <4>1, FrameRead
    <3>3. CASE sph = "payload"
      <4>1. Want = srx.len /\ srx.len > 0
        BY <3>3 DEF Want, IInv, StreamInv, ServerInv
      <4> QED BY <3>3, <4>1, FrameRead
    <3> QED BY <1>0, <3>1, <3>2, <3>3
  <2>4. Rest(up[cur], Want) \in Seq(Interval)
    BY <1>0, <2>2, <2>3, RunTake DEF Run
  <2>5. /\ up' \in [Client -> Seq(Interval)]
        /\ \A c \in Client : up'[c] = up[c] \/ up[c] # <<>>
    BY <1>0, <2>2, <2>4 DEF IInv, StreamInv, Types
  <2> QED BY <1>0, <1>1, <2>1, <2>5, TlsCloseStep
<1>2. CASE ~TlsClose
  BY <1>0, <1>2, ReadHeader, ReadExt, ReadMask, ReadPayload
<1> QED BY <1>1, <1>2

\* A reply has bytes.
LEMMA EchoLenFacts ==
  ASSUME NEW n \in Nat, NEW b \in Nat, b <= n
  PROVE  EchoLen(n, b) \in Nat /\ EchoLen(n, b) > 0
<1>1. EchoLen(n, b) = IF n = b THEN 5 ELSE (6 + n) - b
  BY DEF EchoLen
<1> QED BY <1>1

\* The server's m-th reply is to its client's m-th text.
LEMMA EchoStep == ASSUME IInv, Echo PROVE StreamInv'
<1> DEFINE v == upU[cur][Len(read) + 1]
           n == EchoLen(v.len, v.blanks)
           u == Frame(Written(downU[cur]), 1, ExtBytes(n), 0, n, 0, Len(read) + 1)
<1>0. /\ sph = "echo" /\ sph' = "header" /\ srx' = NoFrame
      /\ UNCHANGED <<cur, read, backlog, cph, crx, got, up, upU, cend, send>>
  BY DEF Echo, clients
<1>1. cur # NoClient
  BY <1>0 DEF IInv, TableInv, Busy
<1>2. /\ cur \in Client /\ Units(upU[cur], 4) /\ Units(downU[cur], 0) /\ ClientInv(cur)
      /\ Len(read) \in Nat /\ Len(upU[cur]) \in Nat /\ Len(downU[cur]) \in Nat
  BY <1>1, PosFacts
<1>3. /\ Len(read) > 0 /\ Len(upU[cur]) >= Len(read) + 1 /\ Len(downU[cur]) = Len(read)
      /\ read[Len(read)] = <<Payload(v), End(v)>> /\ srx.len = v.len
  BY <1>0 DEF IInv, StreamInv, ServerInv
<1>4. Len(read) + 1 \in 2..Len(upU[cur]) /\ Len(read) + 1 \in 1..Len(upU[cur])
  BY <1>2, <1>3
<1>5. v \in Unit /\ v.blanks <= v.len /\ v.len \in Nat /\ v.blanks \in Nat
  <2>1. v \in Unit
    BY <1>2, <1>4, UnitsFacts
  <2>2. v.blanks <= v.len
    BY <1>2, <1>4 DEF Units
  <2>3. v.len \in Nat /\ v.blanks \in Nat
    BY <2>1 DEF Unit
  <2> QED BY <2>1, <2>2, <2>3
<1>6. n \in Nat /\ n > 0
  BY <1>5, EchoLenFacts
<1>7. FrameOf(upU[cur], read[Len(read)]) = Len(read) + 1
  <2>1. 4 \in Nat
    OBVIOUS
  <2> QED BY <1>2, <1>3, <1>4, <2>1, FrameOfIs
<1>8. /\ downU' = [downU EXCEPT ![cur] = Append(@, u)]
      /\ down' = [down EXCEPT ![cur] = @ \o Records(u.start, End(u) - u.start)]
  <2>1. Len(read) + 1 # 0
    BY <1>2
  <2> QED BY <1>3, <1>7, <2>1 DEF Echo
<1>9. downU[cur] # <<>> /\ 1 \in 1..Len(downU[cur])
  BY <1>2, <1>3
<1>10. Written(downU[cur]) \in Nat
  BY <1>2, <1>9, UnitsFacts
<1>11. /\ u \in Unit /\ u.kind = "frame" /\ u.mask = 0 /\ u.ext = ExtBytes(u.len)
       /\ u.blanks = 0 /\ u.start = Written(downU[cur]) /\ u.len = n /\ u.of = Len(read) + 1
  <2>1. 0 \in {0, 4} /\ 1 \in Nat /\ 0 \in Nat /\ Len(read) + 1 \in Nat
    BY <1>2
  <2>2. PICK x : x = ExtBytes(n)
    OBVIOUS
  <2>3. u = Frame(Written(downU[cur]), 1, x, 0, n, 0, Len(read) + 1)
    BY <2>2
  <2>4. x \in {0, 2, 8}
    BY <2>2 DEF ExtBytes
  <2> HIDE DEF n, u
  <2>5. /\ u.kind = "frame" /\ u.mask = 0 /\ u.ext = x /\ u.blanks = 0
        /\ u.start = Written(downU[cur]) /\ u.len = n /\ u.of = Len(read) + 1
    BY <2>3 DEF Frame
  <2>6. u \in Unit
    BY <1>6, <1>10, <2>1, <2>3, <2>4 DEF Frame, Unit
  <2> QED BY <2>2, <2>5, <2>6
<1> HIDE DEF u, n
<1>12. PICK w \in Nat : w = End(u) - u.start /\ End(u) = u.start + w
  BY <1>11, UnitFacts
<1>13. PICK us : us = Append(downU[cur], u)
  OBVIOUS
<1>14. /\ Units(us, 0) /\ Written(us) = End(u) /\ Len(us) = Len(downU[cur]) + 1
       /\ us[Len(downU[cur]) + 1] = u /\ \A m \in 1..Len(downU[cur]) : us[m] = downU[cur][m]
  <2>1. u.blanks <= u.len
    BY <1>6, <1>11
  <2> QED BY <1>2, <1>9, <1>11, <1>13, <2>1, UnitsAppend
<1>15. /\ downU'[cur] = us /\ \A c \in Client : c # cur => downU'[c] = downU[c]
       /\ downU' \in [Client -> Seq(Unit)]
  BY <1>2, <1>8, <1>13, <1>14 DEF IInv, StreamInv, Types, Units
<1>16. Records(u.start, w) \in Seq(Interval)
  BY <1>11, <1>12, <1>10, RecordsRun DEF Run
<1>17. /\ down'[cur] = down[cur] \o Records(u.start, w)
       /\ \A c \in Client : c # cur => down'[c] = down[c]
       /\ down' \in [Client -> Seq(Interval)]
  <2>1. down[cur] \in Seq(Interval)
    BY <1>2 DEF IInv, StreamInv, Types
  <2>2. down[cur] \o Records(u.start, w) \in Seq(Interval)
    BY <1>16, <2>1, ConcatProperties
  <2> QED BY <1>2, <1>8, <1>12, <2>2 DEF IInv, StreamInv, Types
<1>18. Types' /\ LineInv'
  <2>1. srx' \in FieldSet
    BY <1>0 DEF NoFrame, FieldSet
  <2>2. Types'
    BY <1>0, <1>15, <1>17, <2>1 DEF IInv, StreamInv, Types
  <2>3. LineInv'
    BY <1>0 DEF IInv, StreamInv, LineInv
  <2> QED BY <2>2, <2>3
<1>19. UpInv' /\ ServerInv'
  <2>1. Pos' = Pos
    BY <1>0 DEF Pos
  <2>2. UpInv'
    BY <1>0, <1>1, <2>1 DEF IInv, StreamInv, UpInv, WEnd
  <2>3. cph[cur] # "tls"
    <3>1. upU[cur] # <<>>
      BY <1>2, <1>3
    <3> QED BY <1>2, <3>1 DEF ClientInv, Early
  <2>4. Len(upU[cur]) >= Len(read) + 1 /\ Len(us) = Len(read) + 1
    BY <1>3, <1>14
  <2>5. ServerInv'
    BY <1>0, <1>1, <1>15, <2>3, <2>4 DEF ServerInv
  <2> QED BY <2>2, <2>5
<1>20. ASSUME NEW c \in Client PROVE ClientInv(c)'
  <2>1. CASE c # cur
    BY <1>0, <1>15, <1>17, <2>1, ClientKept DEF IInv, StreamInv
  <2>2. CASE c = cur
    <3>0. /\ cph'[c] = cph[c] /\ crx'[c] = crx[c] /\ got'[c] = got[c] /\ upU'[c] = upU[c]
          /\ up'[c] = up[c] /\ downU'[c] = us /\ down'[c] = down[c] \o Records(u.start, w)
      BY <1>0, <1>15, <1>17, <2>2
    <3>1. PICK l \in Nat : l = Len(downU[c]) /\ l >= 1 /\ l = Len(read)
      BY <1>2, <1>3, <2>2
    <3>2. /\ Len(us) = l + 1 /\ us[l + 1] = u /\ \A m \in 1..l : us[m] = downU[c][m]
          /\ Units(us, 0) /\ Written(us) = End(u)
      BY <1>14, <2>2, <3>1
    <3>3. Early(c)'
      <4>1. upU[c] # <<>> /\ Len(upU[c]) # 1
        BY <1>2, <1>3, <2>2
      <4>2. cph[c] \notin {"start", "connecting", "tls", "await101"}
        BY <1>2, <2>2, <4>1 DEF ClientInv, Early
      <4> QED BY <3>0, <4>2 DEF Early
    <3>4. UnitsInv(c)'
      <4>1. ASSUME NEW m \in 2..(l + 1) PROVE us[m].of = m /\ us[m].len > 0
        <5>1. CASE m = l + 1
          BY <1>6, <1>11, <3>1, <3>2, <5>1
        <5>2. CASE m \in 2..l
          <6>1. us[m] = downU[c][m]
            BY <3>2, <5>2
          <6> QED BY <1>2, <2>2, <3>1, <5>2, <6>1 DEF ClientInv, UnitsInv
        <5> QED BY <5>1, <5>2
      <4>2. l + 1 <= Len(upU[c])
        BY <1>3, <2>2, <3>1
      <4>3. /\ Units(upU[c], 4)
            /\ cph[c] = "sending" => Len(upU[c]) > 1 /\ upU[c][Len(upU[c])].len > 0
            /\ cph[c] = "close" => upU[c] # <<>>
        BY <1>2, <2>2 DEF ClientInv, UnitsInv
      <4> QED BY <3>0, <3>2, <4>1, <4>2, <4>3 DEF UnitsInv
    <3>5. got[c] \in Seq(Interval) /\ Len(got[c]) \in Nat /\ CAt(c)' = CAt(c)
      BY <3>0 DEF IInv, StreamInv, Types, CAt
    <3>6. GotInv(c)'
      <4>1. ASSUME NEW m \in 1..Len(got[c])
            PROVE  m + 1 <= Len(us) /\ us[m + 1] = downU[c][m + 1]
        <5>1. m + 1 <= l
          BY <1>2, <2>2, <3>1 DEF ClientInv, GotInv
        <5> QED BY <3>2, <3>5, <5>1
      <4> QED BY <1>2, <2>2, <3>0, <4>1 DEF ClientInv, GotInv
    <3>7. DownInv(c)'
      <4>1. CASE cph[c] \notin {"open", "sending", "header", "ext", "payload"}
        BY <3>0, <4>1 DEF DownInv
      <4>2. CASE cph[c] \in {"open", "sending", "header", "ext", "payload"}
        <5>1. DownInv(c)
          BY <1>2, <2>2 DEF ClientInv
        <5>2. /\ l >= Len(got[c]) + 1
              /\ Run(down[c], CPos(c)) /\ Fin(down[c], CPos(c)) = Written(downU[c])
              /\ cph[c] \in {"ext", "payload"} => CAt(c) <= l
          BY <3>1, <4>2, <5>1 DEF DownInv
        <5>3. us[Len(got[c]) + 1] = downU[c][Len(got[c]) + 1]
          BY <3>2, <3>5, <5>2
        <5>4. cph[c] \in {"ext", "payload"} => us[CAt(c)] = downU[c][CAt(c)]
          BY <3>2, <3>5, <5>2 DEF CAt
        <5>5. CPos(c)' = CPos(c)
          BY <3>0, <3>5, <4>2, <5>3, <5>4 DEF CPos
        <5>6. CPos(c) \in Nat
          BY <4>2, CPosFacts
        <5>7. Run(Records(u.start, w), u.start) /\ Fin(Records(u.start, w), u.start) = u.start + w
          BY <1>10, <1>11, <1>12, RecordsRun
        <5>8. Fin(down[c], CPos(c)) = u.start
          BY <1>11, <2>2, <5>2
        <5>9. Run(down'[c], CPos(c)) /\ Fin(down'[c], CPos(c)) = Written(us)
          <6>1. Run(Records(u.start, w), Fin(down[c], CPos(c)))
            BY <5>7, <5>8
          <6>2. /\ Run(down[c] \o Records(u.start, w), CPos(c))
                /\ Fin(down[c] \o Records(u.start, w), CPos(c))
                      = Fin(Records(u.start, w), Fin(down[c], CPos(c)))
            BY <5>2, <5>6, <6>1, RunAppend
          <6>3. Fin(Records(u.start, w), Fin(down[c], CPos(c))) = u.start + w
            BY <5>7, <5>8
          <6> QED BY <1>12, <3>0, <3>2, <6>2, <6>3
        <5>10. l + 1 >= Len(got[c]) + 1 /\ (cph[c] \in {"ext", "payload"} => CAt(c) <= l + 1)
          BY <3>5, <5>2 DEF CAt
        <5> QED BY <3>0, <3>2, <3>5, <5>1, <5>4, <5>5, <5>9, <5>10 DEF DownInv
      <4> QED BY <4>1, <4>2
    <3> QED BY <3>3, <3>4, <3>6, <3>7 DEF ClientInv
  <2> QED BY <2>1, <2>2
<1> QED BY <1>18, <1>19, <1>20 DEF StreamInv

-----------------------------------------------------------------------------
(* The clients' steps *)

\* A client that is behind its connection stays out of the backlog.
LEMMA LineKept ==
  ASSUME IInv, NEW c \in Client, NEW p, cph' = [cph EXCEPT ![c] = p],
         p \notin {"start", "connecting"}, cph[c] # "start",
         UNCHANGED <<backlog, cur, send>>, \A d \in Client : cend[d] => cend'[d],
         cph[c] = "connecting" => cend'[c] \/ send[c]
  PROVE  LineInv'
<1>1. cph'[c] = p /\ \A d \in Client : d # c => cph'[d] = cph[d]
  BY DEF IInv, StreamInv, Types
<1>2. backlog \in Seq(Client) /\ cur \in Client \cup {NoClient}
  BY DEF IInv, TableInv
<1>3. ASSUME NEW i \in 1..Len(backlog)
      PROVE  /\ cph'[backlog[i]] = "connecting" \/ cend'[backlog[i]]
             /\ cph'[backlog[i]] # "start"
  <2>1. /\ backlog[i] \in Client /\ cph[backlog[i]] # "start" /\ ~send[backlog[i]]
        /\ cph[backlog[i]] = "connecting" \/ cend[backlog[i]]
    BY <1>2 DEF IInv, StreamInv, LineInv
  <2>2. CASE backlog[i] = c
    <3>1. cend'[c]
      BY <2>1, <2>2
    <3> QED BY <1>1, <2>2, <3>1
  <2>3. CASE backlog[i] # c
    BY <1>1, <2>1, <2>3
  <2> QED BY <2>2, <2>3
<1>4. ASSUME cur # NoClient PROVE cph'[cur] \notin {"start", "connecting"}
  <2>1. cur \in Client /\ cph[cur] \notin {"start", "connecting"}
    BY <1>2, <1>4 DEF IInv, StreamInv, LineInv
  <2> QED BY <1>1, <2>1
<1>5. ASSUME NEW d \in Client, cph'[d] = "start" PROVE ~send[d]
  <2>1. cph[d] = "start"
    BY <1>1, <1>5
  <2> QED BY <2>1 DEF IInv, StreamInv, LineInv
<1> QED BY <1>3, <1>4, <1>5 DEF IInv, StreamInv, LineInv

\* The other clients, and the server when it serves another one.
LEMMA OthersKept ==
  ASSUME IInv, NEW c \in Client, UNCHANGED <<sph, cur, srx, read>>,
         \A d \in Client : d # c =>
            /\ cph'[d] = cph[d] /\ crx'[d] = crx[d] /\ got'[d] = got[d] /\ up'[d] = up[d]
            /\ upU'[d] = upU[d] /\ down'[d] = down[d] /\ downU'[d] = downU[d]
  PROVE  /\ \A d \in Client : d # c => ClientInv(d)'
         /\ cur # c => UpInv' /\ ServerInv'
<1>1. ASSUME NEW d \in Client, d # c PROVE ClientInv(d)'
  BY <1>1, ClientKept DEF IInv, StreamInv
<1>2. ASSUME cur # c PROVE UpInv' /\ ServerInv'
  <2>1. cur # NoClient => cur \in Client
    BY DEF IInv, TableInv
  <2> QED BY <1>2, <2>1, ServedKept DEF IInv, StreamInv
<1> QED BY <1>1, <1>2

\* The served client does something that is not writing.
LEMMA ServedQuiet ==
  ASSUME IInv, cur # NoClient, sph # "upgrade", UNCHANGED <<sph, cur, srx, read>>,
         up'[cur] = up[cur], upU'[cur] = upU[cur], downU'[cur] = downU[cur],
         cph[cur] \notin {"gone", "sending"}, cph'[cur] \notin {"tls", "sending"}
  PROVE  UpInv' /\ ServerInv'
<1>1. Pos' = Pos /\ At' = At /\ WEnd(cur)' = WEnd(cur)
  BY DEF Pos, At, WEnd
<1>2. UpInv'
  BY <1>1 DEF IInv, StreamInv, UpInv
<1>3. ServerInv'
  BY <1>1 DEF IInv, StreamInv, ServerInv
<1> QED BY <1>2, <1>3

\* The served client writes.
LEMMA ServedWrites ==
  ASSUME IInv, cur # NoClient, sph # "upgrade", UNCHANGED <<sph, cur, srx, read>>,
         cph[cur] # "gone", cph'[cur] # "tls", NEW n \in Nat,
         up'[cur] = up[cur] \o Records(WEnd(cur), n),
         Len(upU'[cur]) \in Nat, Len(upU'[cur]) >= Len(upU[cur]),
         \A m \in 1..Len(upU[cur]) : upU'[cur][m] = upU[cur][m],
         WEnd(cur)' = WEnd(cur) + n, WEnd(cur) + n <= Written(upU'[cur]),
         downU'[cur] = downU[cur]
  PROVE  UpInv' /\ ServerInv'
<1>0. /\ Pos \in Nat /\ Run(up[cur], Pos) /\ sph \in Busy /\ Len(read) \in Nat
      /\ Len(upU[cur]) \in Nat /\ Units(upU[cur], 4)
  BY PosFacts
<1>1. Fin(up[cur], Pos) = WEnd(cur) /\ Fin(up[cur], Pos) \in Nat
  BY <1>0, RunFin DEF IInv, StreamInv, UpInv
<1>2. /\ sph \in {"header", "echo", "ext", "mask", "payload"} => Len(read) + 1 \in 1..Len(upU[cur])
      /\ sph \in {"ext", "mask", "payload"} => At \in 1..Len(upU[cur])
  <2>1. /\ sph \in {"header", "echo", "ext", "mask", "payload"} => Len(read) + 1 <= Len(upU[cur])
        /\ sph \in {"ext", "mask", "payload"} => At <= Len(upU[cur])
    BY DEF IInv, StreamInv, ServerInv
  <2> QED BY <1>0, <2>1 DEF At
<1>3. /\ sph \in {"header", "echo", "ext", "mask", "payload"} =>
            upU'[cur][Len(read) + 1] = upU[cur][Len(read) + 1]
      /\ sph \in {"ext", "mask", "payload"} => upU'[cur][At] = upU[cur][At]
  BY <1>2
<1>4. Pos' = Pos /\ At' = At
  BY <1>0, <1>3 DEF Pos, At, Busy
<1>5. /\ Run(Records(WEnd(cur), n), Fin(up[cur], Pos))
      /\ Fin(Records(WEnd(cur), n), Fin(up[cur], Pos)) = WEnd(cur) + n
  BY <1>1, RecordsRun
<1>6. Run(up'[cur], Pos) /\ Fin(up'[cur], Pos) = WEnd(cur) + n
  BY <1>0, <1>5, RunAppend
<1>7. UpInv'
  BY <1>4, <1>6 DEF UpInv
<1>8. ServerInv'
  <2>1. sph \in {"header", "ext", "mask", "payload", "echo"} => Len(upU'[cur]) >= Len(read) + 1
    BY <1>0, <1>2
  <2>2. sph \in {"ext", "mask", "payload"} => At <= Len(upU'[cur])
    BY <1>0, <1>2
  <2> QED BY <1>3, <1>4, <2>1, <2>2 DEF IInv, StreamInv, ServerInv
<1> QED BY <1>7, <1>8

\* Where a client goes.
LEMMA GoesFacts ==
  ASSUME IInv, NEW c \in Client,
         NEW p \in {"start", "connecting", "tls", "await101", "open", "sending",
                    "header", "ext", "payload", "close", "done", "failed", "gone"},
         cph' = [cph EXCEPT ![c] = p]
  PROVE  /\ cph'[c] = p /\ \A d \in Client : d # c => cph'[d] = cph[d]
         /\ cph' \in [Client -> {"start", "connecting", "tls", "await101", "open", "sending",
                                 "header", "ext", "payload", "close", "done", "failed", "gone"}]
  BY DEF IInv, StreamInv, Types

\* A client gives up or is done: nothing of its streams changes.
LEMMA ClientEnds ==
  ASSUME IInv, NEW c \in Client, cph'[c] \in {"close", "done", "failed", "gone"},
         cph'[c] = "close" => upU[c] # <<>>,
         UNCHANGED <<upU, downU>>, got'[c] = got[c]
  PROVE  ClientInv(c)'
<1>1. UnitsInv(c) /\ GotInv(c)
  BY DEF IInv, StreamInv, ClientInv
<1>2. Early(c)' /\ DownInv(c)'
  BY DEF Early, DownInv
<1>3. UnitsInv(c)'
  BY <1>1 DEF UnitsInv
<1>4. GotInv(c)'
  BY <1>1 DEF GotInv
<1> QED BY <1>2, <1>3, <1>4 DEF ClientInv

\* A client connects: it is behind the others in the backlog, or refused.
LEMMA ConnectStep == ASSUME IInv, NEW c \in Client, Connect(c) PROVE StreamInv'
<1>0. /\ cph[c] = "start"
      /\ UNCHANGED <<sph, cur, srx, read, crx, got, up, down, upU, downU, cend, send>>
  BY DEF Connect, server, streams
<1>1. PICK p \in {"failed", "connecting"} :
        /\ cph' = [cph EXCEPT ![c] = p]
        /\ \/ p = "failed" /\ backlog' = backlog
           \/ p = "connecting" /\ backlog' = Append(backlog, c)
  BY DEF Connect, Goes
<1>2. /\ cph'[c] = p /\ \A d \in Client : d # c => cph'[d] = cph[d]
      /\ cph' \in [Client -> {"start", "connecting", "tls", "await101", "open", "sending",
                              "header", "ext", "payload", "close", "done", "failed", "gone"}]
  BY <1>1, GoesFacts
<1>3. cur # c /\ c # NoClient /\ ~send[c] /\ backlog \in Seq(Client)
  BY <1>0, WssConstants DEF IInv, StreamInv, LineInv, TableInv
<1>4. Types'
  BY <1>0, <1>2 DEF IInv, StreamInv, Types
<1>5. ASSUME NEW i \in 1..Len(backlog)
      PROVE  /\ backlog[i] \in Client /\ backlog[i] # c /\ cph'[backlog[i]] = cph[backlog[i]]
  <2>1. backlog[i] \in Client /\ cph[backlog[i]] # "start"
    BY <1>3 DEF IInv, StreamInv, LineInv
  <2> QED BY <1>0, <1>2, <2>1
<1>6. ASSUME cur # NoClient PROVE cph'[cur] = cph[cur]
  BY <1>2, <1>3, <1>6 DEF IInv, TableInv
<1>7. \A d \in Client : cph'[d] = "start" => ~send[d]
  BY <1>1, <1>2 DEF IInv, StreamInv, LineInv
<1>8. LineInv'
  <2>1. CASE backlog' = backlog
    BY <1>0, <1>5, <1>6, <1>7, <2>1 DEF IInv, StreamInv, LineInv
  <2>2. CASE p = "connecting" /\ backlog' = Append(backlog, c)
    <3>1. PICK n \in Nat : n = Len(backlog)
      BY <1>3
    <3>2. /\ Len(backlog') = n + 1 /\ backlog'[n + 1] = c
          /\ \A i \in 1..n : backlog'[i] = backlog[i]
      BY <1>3, <2>2, <3>1
    <3>3. ASSUME NEW i \in 1..(n + 1)
          PROVE  /\ cph'[backlog'[i]] = "connecting" \/ cend[backlog'[i]]
                 /\ cph'[backlog'[i]] # "start" /\ ~send[backlog'[i]] /\ backlog'[i] # cur
      <4>1. CASE i = n + 1
        BY <1>2, <1>3, <2>2, <3>2, <4>1
      <4>2. CASE i \in 1..n
        <5>1. backlog'[i] = backlog[i] /\ cph'[backlog[i]] = cph[backlog[i]]
          BY <1>5, <3>1, <3>2, <4>2
        <5> QED BY <3>1, <4>2, <5>1 DEF IInv, StreamInv, LineInv
      <4> QED BY <4>1, <4>2
    <3>4. ASSUME NEW i \in 1..(n + 1), NEW j \in 1..(n + 1), i < j
          PROVE  backlog'[i] # backlog'[j]
      <4>1. i \in 1..n /\ backlog'[i] = backlog[i]
        BY <3>2, <3>4
      <4>2. CASE j = n + 1
        BY <1>5, <3>1, <3>2, <4>1, <4>2
      <4>3. CASE j \in 1..n
        BY <3>1, <3>2, <3>4, <4>1, <4>3 DEF IInv, StreamInv, LineInv
      <4> QED BY <4>2, <4>3
    <3>5. cur # NoClient => cph'[cur] \notin {"start", "connecting"} /\ ~send[cur]
      BY <1>6 DEF IInv, StreamInv, LineInv
    <3> QED BY <1>0, <1>7, <3>2, <3>3, <3>4, <3>5 DEF LineInv
  <2> QED BY <1>1, <2>1, <2>2
<1>9. UpInv' /\ ServerInv' /\ \A d \in Client : d # c => ClientInv(d)'
  BY <1>0, <1>2, <1>3, OthersKept
<1>10. ClientInv(c)'
  <2>1. ClientInv(c)
    BY DEF IInv, StreamInv
  <2>2. /\ up[c] = <<>> /\ upU[c] = <<>> /\ down[c] = <<>> /\ downU[c] = <<>> /\ got[c] = <<>>
    BY <1>0, <2>1 DEF ClientInv, Early
  <2>3. Early(c)' /\ DownInv(c)'
    BY <1>0, <1>2, <2>2 DEF Early, DownInv
  <2>4. UnitsInv(c)'
    BY <1>0, <1>2, <2>1 DEF ClientInv, UnitsInv
  <2>5. GotInv(c)'
    BY <1>0, <2>1 DEF ClientInv, GotInv
  <2> QED BY <2>3, <2>4, <2>5 DEF ClientInv
<1> QED BY <1>4, <1>8, <1>9, <1>10 DEF StreamInv

\* The server has closed: the client gives up.
LEMMA ClientReadFailsStep == ASSUME IInv, NEW c \in Client, ClientReadFails(c) PROVE StreamInv'
<1>0. /\ send[c]
      /\ UNCHANGED <<sph, cur, srx, read, backlog, crx, got, up, down, upU, downU, cend, send>>
  BY DEF ClientReadFails, server, streams
<1>1. PICK p \in {"failed", "close"} :
        /\ cph' = [cph EXCEPT ![c] = p]
        /\ cph[c] \in {"connecting", "await101", "header", "ext", "payload"}
        /\ p = "close" => cph[c] \in {"header", "ext", "payload"}
  BY DEF ClientReadFails, Goes
<1>2. /\ cph'[c] = p /\ \A d \in Client : d # c => cph'[d] = cph[d]
      /\ cph' \in [Client -> {"start", "connecting", "tls", "await101", "open", "sending",
                              "header", "ext", "payload", "close", "done", "failed", "gone"}]
  BY <1>1, GoesFacts
<1>3. cur # c
  BY <1>0, WssConstants DEF IInv, StreamInv, LineInv
<1>4. Types'
  BY <1>0, <1>2 DEF IInv, StreamInv, Types
<1>5. LineInv'
  BY <1>0, <1>1, LineKept
<1>6. UpInv' /\ ServerInv' /\ \A d \in Client : d # c => ClientInv(d)'
  BY <1>0, <1>2, <1>3, OthersKept
<1>7. p = "close" => upU[c] # <<>>
  BY <1>1, CPosFacts
<1>8. ClientInv(c)'
  BY <1>0, <1>2, <1>7, ClientEnds
<1> QED BY <1>4, <1>5, <1>6, <1>8 DEF StreamInv

\* A program breaks off; what it has sent may be lost, but no byte is added.
LEMMA BreaksOffStep == ASSUME IInv, NEW c \in Client, BreaksOff(c) PROVE StreamInv'
<1>0. /\ cph[c] \notin {"start", "done", "failed", "gone"}
      /\ cph' = [cph EXCEPT ![c] = "gone"] /\ cend' = [cend EXCEPT ![c] = TRUE]
      /\ up' = up \/ up' = [up EXCEPT ![c] = <<>>]
      /\ UNCHANGED <<sph, cur, srx, read, backlog, crx, got, down, upU, downU, send>>
  BY DEF BreaksOff, Goes, server
<1>1. /\ cph'[c] = "gone" /\ \A d \in Client : d # c => cph'[d] = cph[d]
      /\ cph' \in [Client -> {"start", "connecting", "tls", "await101", "open", "sending",
                              "header", "ext", "payload", "close", "done", "failed", "gone"}]
  BY <1>0, GoesFacts
<1>2. /\ up' \in [Client -> Seq(Interval)] /\ \A d \in Client : d # c => up'[d] = up[d]
      /\ up'[c] = up[c] \/ up'[c] = <<>>
  <2>1. <<>> \in Seq(Interval)
    BY EmptySeq
  <2> QED BY <1>0, <2>1 DEF IInv, StreamInv, Types
<1>3. /\ cend' \in [Client -> BOOLEAN] /\ cend'[c] /\ \A d \in Client : cend[d] => cend'[d]
  BY <1>0 DEF IInv, StreamInv, Types
<1>4. Types'
  BY <1>0, <1>1, <1>2, <1>3 DEF IInv, StreamInv, Types
<1>5. LineInv'
  <2>1. PICK p : p = "gone" /\ p \notin {"start", "connecting"}
    OBVIOUS
  <2>2. cph' = [cph EXCEPT ![c] = p] /\ cph[c] # "start" /\ UNCHANGED <<backlog, cur, send>>
    BY <1>0, <2>1
  <2> QED BY <1>3, <2>1, <2>2, LineKept
<1>6. (\A d \in Client : d # c => ClientInv(d)') /\ (cur # c => UpInv' /\ ServerInv')
  BY <1>0, <1>1, <1>2, OthersKept
<1>7. ClientInv(c)'
  BY <1>0, <1>1, ClientEnds
<1>8. ASSUME cur = c PROVE UpInv' /\ ServerInv'
  <2>0. cur # NoClient
    BY <1>8, WssConstants
  <2>1. /\ Pos \in Nat /\ Run(up[cur], Pos) /\ Fin(up[cur], Pos) <= Written(upU[cur])
        /\ Units(upU[cur], 4)
    BY <2>0, PosFacts
  <2>2. Pos' = Pos /\ At' = At
    BY <1>0 DEF Pos, At
  <2>3. Run(<<>>, Pos) /\ Fin(<<>>, Pos) = Pos
    BY DEF Run, Fin
  <2>4. Written(upU[cur]) \in Nat /\ Fin(up[cur], Pos) \in Nat /\ Pos <= Fin(up[cur], Pos)
    <3>1. upU[cur] = <<>> \/ 1 \in 1..Len(upU[cur])
      BY <2>1 DEF Units
    <3>2. Written(upU[cur]) \in Nat
      BY <2>1, <3>1, UnitsFacts DEF Written
    <3> QED BY <2>1, <3>2, RunFin
  <2>5. UpInv'
    BY <1>0, <1>1, <1>2, <1>8, <2>1, <2>2, <2>3, <2>4 DEF UpInv
  <2>6. ServerInv'
    BY <1>0, <1>1, <1>2, <1>8, <2>0, <2>2 DEF IInv, StreamInv, ServerInv
  <2> QED BY <2>5, <2>6
<1> QED BY <1>4, <1>5, <1>6, <1>7, <1>8 DEF StreamInv

\* The request is the first thing a client writes.
LEMMA SendRequestStep == ASSUME IInv, NEW c \in Client, SendRequest(c) PROVE StreamInv'
<1> DEFINE h == Http(0, c \notin HClient)
<1>0. /\ cph[c] = "tls" /\ cph' = [cph EXCEPT ![c] = "await101"]
      /\ Write(c, h, 0, HttpLen)
      /\ UNCHANGED <<sph, cur, srx, read, backlog, crx, got>>
  BY DEF SendRequest, Goes, server
<1>1. /\ cph'[c] = "await101" /\ \A d \in Client : d # c => cph'[d] = cph[d]
      /\ cph' \in [Client -> {"start", "connecting", "tls", "await101", "open", "sending",
                              "header", "ext", "payload", "close", "done", "failed", "gone"}]
  BY <1>0, GoesFacts
<1>2. ClientInv(c)
  BY DEF IInv, StreamInv
<1>3. up[c] = <<>> /\ upU[c] = <<>> /\ down[c] = <<>> /\ downU[c] = <<>> /\ got[c] = <<>>
  BY <1>0, <1>2 DEF ClientInv, Early
<1>4. h \in Unit /\ h.start = 0 /\ End(h) = HttpLen
  BY HttpUnit
<1>5. PICK key \in BOOLEAN : h = Http(0, key)
  OBVIOUS
<1> HIDE DEF h
<1>6. /\ upU' = [upU EXCEPT ![c] = Append(@, h)]
      /\ up' = [up EXCEPT ![c] = @ \o Records(0, HttpLen)]
      /\ UNCHANGED <<down, downU, cend, send>>
  BY <1>0, <1>4 DEF Write
<1>7. PICK us : us = Append(upU[c], h)
  OBVIOUS
<1>8. us \in Seq(Unit) /\ Len(us) = 1 /\ us[1] = h
  <2>1. upU[c] \in Seq(Unit) /\ Len(upU[c]) = 0
    BY <1>3 DEF IInv, StreamInv, Types
  <2> QED BY <1>4, <1>7, <2>1, AppendProperties
<1>9. Units(us, 4)
  <2>1. us # <<>> => \E k \in BOOLEAN : us[1] = Http(0, k)
    BY <1>5, <1>8
  <2>2. /\ \A m : m \in 2..1 => FALSE
        /\ \A j, k \in 1..1 : j < k => FALSE
    OBVIOUS
  <2> QED BY <1>8, <2>1, <2>2 DEF Units
<1>10. Written(us) = HttpLen
  BY <1>4, <1>8 DEF Written
<1>11. PICK r : r = <<<<0, HttpLen>>>> /\ r = Records(0, HttpLen) /\ r \in Seq(Interval)
  <2>1. Run(Records(0, HttpLen), 0) /\ Records(0, HttpLen) = <<<<0, HttpLen>>>>
    BY RecordsRun DEF HttpLen
  <2> QED BY <2>1 DEF Run
<1>12. /\ upU'[c] = us /\ \A d \in Client : d # c => upU'[d] = upU[d]
       /\ upU' \in [Client -> Seq(Unit)]
  BY <1>6, <1>7, <1>8 DEF IInv, StreamInv, Types
<1>13. /\ up'[c] = r /\ \A d \in Client : d # c => up'[d] = up[d]
       /\ up' \in [Client -> Seq(Interval)]
  <2>1. up[c] \o r = r
    BY <1>3, <1>11
  <2> QED BY <1>6, <1>11, <2>1 DEF IInv, StreamInv, Types
<1>14. Types'
  BY <1>0, <1>1, <1>6, <1>12, <1>13 DEF IInv, StreamInv, Types
<1>15. LineInv'
  <2>1. PICK p : p = "await101" /\ p \notin {"start", "connecting"}
    OBVIOUS
  <2>2. /\ cph' = [cph EXCEPT ![c] = p] /\ cph[c] # "start" /\ UNCHANGED <<backlog, cur, send>>
        /\ \A d \in Client : cend[d] => cend'[d]
        /\ cph[c] # "connecting"
    BY <1>0, <1>6, <2>1
  <2> QED BY <2>1, <2>2, LineKept
<1>16. (\A d \in Client : d # c => ClientInv(d)') /\ (cur # c => UpInv' /\ ServerInv')
  BY <1>0, <1>1, <1>6, <1>12, <1>13, OthersKept
<1>17. ClientInv(c)'
  <2>1. Early(c)'
    BY <1>0, <1>1, <1>3, <1>6, <1>8, <1>12 DEF Early
  <2>2. UnitsInv(c)'
    <3>1. Units(downU[c], 0) /\ Len(downU[c]) = 0
      BY <1>2, <1>3 DEF ClientInv, UnitsInv
    <3>2. /\ Units(upU'[c], 4) /\ Units(downU'[c], 0) /\ Len(downU'[c]) = 0 /\ Len(upU'[c]) = 1
          /\ cph'[c] # "sending" /\ cph'[c] # "close"
      BY <1>1, <1>6, <1>8, <1>9, <1>12, <3>1
    <3> QED BY <3>2 DEF UnitsInv
  <2>3. DownInv(c)' /\ GotInv(c)'
    BY <1>0, <1>1, <1>3 DEF DownInv, GotInv
  <2> QED BY <2>1, <2>2, <2>3 DEF ClientInv
<1>18. ASSUME cur = c PROVE UpInv' /\ ServerInv'
  <2>0. cur # NoClient /\ sph \in Busy
    BY <1>18, WssConstants DEF IInv, TableInv
  <2>1. sph = "upgrade"
    <3>1. Len(upU[c]) = 0 /\ Len(read) \in Nat
      BY <1>3 DEF IInv, StreamInv, Types
    <3> QED BY <1>18, <2>0, <3>1 DEF IInv, StreamInv, ServerInv, Busy
  <2>2. Pos' = 0
    BY <1>0, <2>1 DEF Pos
  <2>3. Run(r, 0) /\ Fin(r, 0) = HttpLen
    <3>1. Run(Records(0, HttpLen), 0) /\ Fin(Records(0, HttpLen), 0) = 0 + HttpLen
      BY RecordsRun DEF HttpLen
    <3> QED BY <1>11, <3>1 DEF HttpLen
  <2>4. WEnd(cur)' = HttpLen
    BY <1>0, <1>1, <1>10, <1>12, <1>18 DEF WEnd
  <2>5. UpInv'
    BY <1>0, <1>1, <1>10, <1>12, <1>13, <1>18, <2>2, <2>3, <2>4 DEF UpInv, HttpLen
  <2>6. ServerInv'
    <3>1. read = <<>> /\ downU[cur] = <<>> /\ down[cur] = <<>>
      BY <2>1 DEF IInv, StreamInv, ServerInv
    <3> QED BY <1>0, <1>1, <1>6, <1>8, <1>11, <1>12, <1>13, <1>18, <2>0, <2>1, <3>1 DEF ServerInv
  <2> QED BY <2>5, <2>6
<1> QED BY <1>14, <1>15, <1>16, <1>17, <1>18 DEF StreamInv

\* One read takes all of the response.
LEMMA ReadResponseStep == ASSUME IInv, NEW c \in Client, ReadResponse(c) PROVE StreamInv'
<1>0. /\ cph[c] = "await101" /\ down[c] # <<>> /\ cph' = [cph EXCEPT ![c] = "open"]
      /\ down' = [down EXCEPT ![c] = Rest(down[c], RespBuf)]
      /\ UNCHANGED <<sph, cur, srx, read, backlog, crx, got, up, upU, downU, cend, send>>
  BY DEF ReadResponse, Goes, server
<1>1. /\ cph'[c] = "open" /\ \A d \in Client : d # c => cph'[d] = cph[d]
      /\ cph' \in [Client -> {"start", "connecting", "tls", "await101", "open", "sending",
                              "header", "ext", "payload", "close", "done", "failed", "gone"}]
  BY <1>0, GoesFacts
<1>2. ClientInv(c)
  BY DEF IInv, StreamInv
<1>3. down[c] = <<<<0, HttpLen>>>> /\ Len(downU[c]) = 1 /\ got[c] = <<>>
  BY <1>0, <1>2 DEF ClientInv, Early
<1>4. Rest(down[c], RespBuf) = <<>>
  <2>1. RespBuf \in Nat /\ RespBuf >= HttpLen
    BY DEF RespBuf, HttpLen
  <2> QED BY <1>3, <2>1, OneRecord
<1>5. /\ down'[c] = <<>> /\ \A d \in Client : d # c => down'[d] = down[d]
      /\ down' \in [Client -> Seq(Interval)]
  <2>1. <<>> \in Seq(Interval)
    BY EmptySeq
  <2> QED BY <1>0, <1>4, <2>1 DEF IInv, StreamInv, Types
<1>6. Types'
  BY <1>0, <1>1, <1>5 DEF IInv, StreamInv, Types
<1>7. LineInv'
  <2>1. PICK p : p = "open" /\ p \notin {"start", "connecting"}
    OBVIOUS
  <2>2. /\ cph' = [cph EXCEPT ![c] = p] /\ cph[c] # "start" /\ UNCHANGED <<backlog, cur, send>>
        /\ \A d \in Client : cend[d] => cend'[d]
        /\ cph[c] # "connecting"
    BY <1>0, <2>1
  <2> QED BY <2>1, <2>2, LineKept
<1>8. (\A d \in Client : d # c => ClientInv(d)') /\ (cur # c => UpInv' /\ ServerInv')
  BY <1>0, <1>1, <1>5, OthersKept
<1>9. ASSUME cur = c PROVE UpInv' /\ ServerInv'
  <2>0. cur # NoClient
    BY <1>9, WssConstants
  <2>1. sph # "upgrade"
    BY <1>0, <1>9 DEF IInv, StreamInv, ServerInv
  <2> QED BY <1>0, <1>1, <1>9, <2>0, <2>1, ServedQuiet
<1>10. ClientInv(c)'
  <2>1. Early(c)'
    BY <1>1 DEF Early
  <2>2. UnitsInv(c)' /\ GotInv(c)'
    BY <1>0, <1>1, <1>2, <1>3 DEF ClientInv, UnitsInv, GotInv
  <2>3. Units(downU[c], 0) /\ 1 \in 1..Len(downU[c]) /\ downU[c] # <<>>
    BY <1>2, <1>3 DEF ClientInv, UnitsInv
  <2>4. End(downU[c][1]) = HttpLen /\ Written(downU[c]) = HttpLen
    BY <1>3, <2>3, UnitsFacts DEF Written
  <2>5. Len(got[c]) = 0
    BY <1>3
  <2>6. CPos(c)' = HttpLen
    BY <1>0, <1>1, <2>4, <2>5 DEF CPos
  <2>7. Run(<<>>, HttpLen) /\ Fin(<<>>, HttpLen) = HttpLen
    BY DEF Run, Fin
  <2>8. DownInv(c)'
    BY <1>0, <1>1, <1>3, <1>5, <2>4, <2>5, <2>6, <2>7 DEF DownInv
  <2> QED BY <2>1, <2>2, <2>8 DEF ClientInv
<1> QED BY <1>6, <1>7, <1>8, <1>9, <1>10 DEF StreamInv

\* A client writes the next frame, all of it or all but the payload.
LEMMA FrameWritten ==
  ASSUME IInv, NEW c \in Client, NEW u \in Unit, NEW p \in {"sending", "header", "done"},
         NEW n \in Nat, cph[c] = "open" \/ (cph[c] = "close" /\ p = "done"),
         p = "done" \/ c \in FClient \cup CClient,
         u.kind = "frame", u.mask = 4, u.ext = ExtBytes(u.len), u.blanks <= u.len,
         u.start = Written(upU[c]), p = "sending" => u.len > 0,
         u.start + n = IF p = "sending" THEN Payload(u) ELSE End(u),
         cph' = [cph EXCEPT ![c] = p], Write(c, u, u.start, n),
         UNCHANGED <<sph, cur, srx, read, backlog, crx, got>>
  PROVE  StreamInv'
<1>1. /\ cph'[c] = p /\ \A d \in Client : d # c => cph'[d] = cph[d]
      /\ cph' \in [Client -> {"start", "connecting", "tls", "await101", "open", "sending",
                              "header", "ext", "payload", "close", "done", "failed", "gone"}]
  BY GoesFacts
<1>2. ClientInv(c) /\ Units(upU[c], 4) /\ Units(downU[c], 0) /\ upU[c] \in Seq(Unit)
  BY DEF IInv, StreamInv, ClientInv, UnitsInv, Types
<1>3. upU[c] # <<>>
  <2>1. CASE cph[c] = "open"
    BY <2>1, CPosFacts
  <2>2. CASE cph[c] = "close"
    BY <1>2, <2>2 DEF ClientInv, UnitsInv
  <2> QED BY <2>1, <2>2
<1>4. PICK l \in Nat : l = Len(upU[c]) /\ l >= 1
  BY <1>2, <1>3
<1>5. Written(upU[c]) \in Nat /\ u.start \in Nat /\ Payload(u) \in Nat /\ End(u) \in Nat
      /\ Payload(u) <= End(u)
  BY UnitFacts
<1>6. /\ upU' = [upU EXCEPT ![c] = Append(@, u)]
      /\ up' = [up EXCEPT ![c] = @ \o Records(u.start, n)]
      /\ UNCHANGED <<down, downU, cend, send>>
  BY DEF Write
<1>7. PICK us : us = Append(upU[c], u)
  OBVIOUS
<1>8. /\ Units(us, 4) /\ Written(us) = End(u) /\ Len(us) = l + 1 /\ us[l + 1] = u
      /\ \A m \in 1..l : us[m] = upU[c][m]
  BY <1>2, <1>3, <1>4, <1>7, UnitsAppend
<1>9. /\ upU'[c] = us /\ \A d \in Client : d # c => upU'[d] = upU[d]
      /\ upU' \in [Client -> Seq(Unit)]
  BY <1>6, <1>7, <1>8 DEF IInv, StreamInv, Types, Units
<1>10. /\ up'[c] = up[c] \o Records(u.start, n) /\ \A d \in Client : d # c => up'[d] = up[d]
       /\ up' \in [Client -> Seq(Interval)]
  <2>1. up[c] \in Seq(Interval)
    BY DEF IInv, StreamInv, Types
  <2>2. Records(u.start, n) \in Seq(Interval)
    BY <1>5, RecordsRun DEF Run
  <2>3. up[c] \o Records(u.start, n) \in Seq(Interval)
    BY <2>1, <2>2, ConcatProperties
  <2> QED BY <1>6, <2>3 DEF IInv, StreamInv, Types
<1>11. Types'
  BY <1>1, <1>6, <1>9, <1>10 DEF IInv, StreamInv, Types
<1>12. LineInv'
  <2>1. /\ p \notin {"start", "connecting"} /\ cph[c] # "start" /\ cph[c] # "connecting"
        /\ UNCHANGED <<backlog, cur, send>> /\ \A d \in Client : cend[d] => cend'[d]
    BY <1>6
  <2> QED BY <2>1, LineKept
<1>13. (\A d \in Client : d # c => ClientInv(d)') /\ (cur # c => UpInv' /\ ServerInv')
  BY <1>1, <1>6, <1>9, <1>10, OthersKept
<1>14. ASSUME cur = c PROVE UpInv' /\ ServerInv'
  <2>0. cur # NoClient
    BY <1>14, WssConstants
  <2>1. sph # "upgrade"
    BY <1>14 DEF IInv, StreamInv, ServerInv
  <2>2. WEnd(cur) = u.start
    BY <1>14 DEF WEnd
  <2>3. us # <<>> /\ us[Len(us)] = u
    BY <1>4, <1>8
  <2>4. WEnd(cur)' = WEnd(cur) + n
    <3>1. WEnd(cur)' = IF p = "sending" THEN Payload(us[Len(us)]) ELSE Written(us)
      BY <1>1, <1>9, <1>14 DEF WEnd
    <3> QED BY <1>8, <2>2, <2>3, <3>1
  <2>5. WEnd(cur) + n <= Written(upU'[cur])
    BY <1>5, <1>8, <1>9, <1>14, <2>2
  <2>6. /\ Len(upU'[cur]) \in Nat /\ Len(upU'[cur]) >= Len(upU[cur])
        /\ \A m \in 1..Len(upU[cur]) : upU'[cur][m] = upU[cur][m]
    BY <1>4, <1>8, <1>9, <1>14
  <2>7. /\ up'[cur] = up[cur] \o Records(WEnd(cur), n) /\ downU'[cur] = downU[cur]
        /\ cph[cur] # "gone" /\ cph'[cur] # "tls"
    BY <1>1, <1>6, <1>10, <1>14, <2>2
  <2> QED BY <2>0, <2>1, <2>4, <2>5, <2>6, <2>7, ServedWrites
<1>15. ClientInv(c)'
  <2>1. Early(c)'
    BY <1>1 DEF Early
  <2>2. UnitsInv(c)'
    <3>1. /\ Len(downU[c]) <= l
          /\ \A m \in 2..Len(downU[c]) : downU[c][m].of = m /\ downU[c][m].len > 0
          /\ Len(downU[c]) \in Nat
      BY <1>2, <1>4 DEF ClientInv, UnitsInv, Units
    <3>2. Len(downU[c]) <= l + 1 /\ l + 1 > 1 /\ us # <<>>
      BY <1>4, <1>8, <3>1
    <3>3. p = "sending" => Len(us) > 1 /\ us[Len(us)].len > 0
      BY <1>8, <3>2
    <3>4. Units(upU'[c], 4) /\ Units(downU'[c], 0) /\ downU'[c] = downU[c]
      BY <1>2, <1>6, <1>8, <1>9
    <3>5. Len(downU'[c]) <= Len(upU'[c])
      BY <1>8, <1>9, <3>2, <3>4
    <3>6. cph'[c] = "sending" => Len(upU'[c]) > 1 /\ upU'[c][Len(upU'[c])].len > 0
      BY <1>1, <1>9, <3>3
    <3>7. upU'[c] # <<>>
      BY <1>9, <3>2
    <3> QED BY <3>1, <3>4, <3>5, <3>6, <3>7 DEF UnitsInv
  <2>3. DownInv(c)'
    <3>1. CASE p = "done"
      BY <1>1, <3>1 DEF DownInv
    <3>2. CASE p # "done"
      <4>1. CPos(c)' = CPos(c)
        BY <1>1, <1>6, <3>2 DEF CPos
      <4>2. /\ Len(downU[c]) >= Len(got[c]) + 1
            /\ Run(down[c], CPos(c)) /\ Fin(down[c], CPos(c)) = Written(downU[c])
        BY <1>2, <3>2 DEF ClientInv, DownInv
      <4>3. cph'[c] \notin {"ext", "payload"}
        BY <1>1
      <4> QED BY <1>6, <4>1, <4>2, <4>3 DEF DownInv
    <3> QED BY <3>1, <3>2
  <2>4. GotInv(c)'
    BY <1>2, <1>6 DEF ClientInv, GotInv
  <2> QED BY <2>1, <2>2, <2>3, <2>4 DEF ClientInv
<1> QED BY <1>11, <1>12, <1>13, <1>14, <1>15 DEF StreamInv

\* The frames that clients write.
Sent(s, op, len, blanks) == Frame(s, op, ExtBytes(len), 4, len, blanks, 0)

\* A client writes the next frame it sends.
LEMMA SentStep ==
  ASSUME IInv, NEW c \in Client, NEW u, NEW p \in {"sending", "header", "done"},
         NEW op \in Nat, NEW len \in Nat, NEW blanks \in Nat, blanks <= len,
         u = Sent(Written(upU[c]), op, len, blanks), p = "sending" => len > 0,
         cph[c] = "open" \/ (cph[c] = "close" /\ p = "done"), cph' = [cph EXCEPT ![c] = p],
         p = "done" \/ c \in FClient \cup CClient,
         Write(c, u, u.start, (IF p = "sending" THEN Payload(u) ELSE End(u)) - u.start),
         UNCHANGED <<sph, cur, srx, read, backlog, crx, got>>
  PROVE  StreamInv'
<1>1. Written(upU[c]) \in Nat
  <2>1. Units(upU[c], 4)
    BY DEF IInv, StreamInv, ClientInv, UnitsInv
  <2>2. upU[c] = <<>> \/ 1 \in 1..Len(upU[c])
    BY <2>1 DEF Units
  <2> QED BY <2>1, <2>2, UnitsFacts DEF Written
<1>2. /\ u \in Unit /\ u.start = Written(upU[c]) /\ u.kind = "frame" /\ u.mask = 4
      /\ u.ext = ExtBytes(u.len) /\ u.blanks <= u.len /\ u.len = len
      /\ Payload(u) - u.start \in Nat /\ u.start + (Payload(u) - u.start) = Payload(u)
      /\ End(u) - u.start \in Nat /\ u.start + (End(u) - u.start) = End(u)
  <2>1. PICK s \in Nat, x \in {0, 2, 8} : s = Written(upU[c]) /\ x = ExtBytes(len)
    BY <1>1 DEF ExtBytes
  <2>2. /\ u \in Unit /\ u.start = s /\ u.kind = "frame" /\ u.mask = 4 /\ u.len = len
        /\ u.ext = ExtBytes(u.len) /\ u.blanks <= u.len
    <3>1. u = Frame(s, op, x, 4, len, blanks, 0)
      BY <2>1 DEF Sent
    <3>2. 4 \in {0, 4} /\ 0 \in Nat
      OBVIOUS
    <3>3. u \in Unit
      BY <3>1, <3>2 DEF Frame, Unit
    <3>4. /\ u.start = s /\ u.kind = "frame" /\ u.mask = 4 /\ u.len = len /\ u.ext = x
          /\ u.blanks = blanks
      BY <3>1 DEF Frame
    <3> QED BY <2>1, <3>3, <3>4
  <2>3. /\ u.start \in Nat /\ Payload(u) \in Nat /\ End(u) \in Nat
        /\ u.start <= Payload(u) /\ Payload(u) <= End(u)
    BY <2>2, UnitFacts
  <2> QED BY <2>1, <2>2, <2>3
<1>3. PICK n \in Nat : n = (IF p = "sending" THEN Payload(u) ELSE End(u)) - u.start
  BY <1>2
<1>4. /\ u.start + n = IF p = "sending" THEN Payload(u) ELSE End(u)
      /\ Write(c, u, u.start, n) /\ (p = "sending" => u.len > 0)
  BY <1>2, <1>3
<1> QED BY <1>2, <1>4, FrameWritten

\* ws_client.f90 sends a frame.
LEMMA FSendsStep == ASSUME IInv, NEW c \in Client, FSends(c) PROVE StreamInv'
<1>1. PICK t \in FTexts :
        LET u == Frame(Written(upU[c]), 1, 0, 4, t.len, 0, 0)
        IN  Write(c, u, u.start, End(u) - u.start)
  BY DEF FSends
<1>2. t.len \in Nat /\ ExtBytes(t.len) = 0 /\ 0 <= t.len
  BY WssConstants DEF Text, ExtBytes
<1>3. PICK u : u = Sent(Written(upU[c]), 1, t.len, 0)
  OBVIOUS
<1>4. PICK p \in {"sending", "header", "done"} : p = "header"
  OBVIOUS
<1>5. /\ Write(c, u, u.start, (IF p = "sending" THEN Payload(u) ELSE End(u)) - u.start)
      /\ cph[c] = "open" /\ cph' = [cph EXCEPT ![c] = p] /\ p # "sending"
      /\ c \in FClient \cup CClient
      /\ UNCHANGED <<sph, cur, srx, read, backlog, crx, got>>
  BY <1>1, <1>2, <1>3, <1>4 DEF Sent, FSends, Goes, server
<1>6. 0 \in Nat /\ 1 \in Nat
  OBVIOUS
<1> QED BY <1>2, <1>3, <1>5, <1>6, SentStep

\* gfns_ws.c sends the header of a frame.
LEMMA CSendsHeaderStep == ASSUME IInv, NEW c \in Client, CSendsHeader(c) PROVE StreamInv'
<1>1. PICK t \in CTexts :
        LET u == Frame(Written(upU[c]), 1, ExtBytes(t.len), 4, t.len, t.blanks, 0)
        IN  Write(c, u, u.start, Payload(u) - u.start)
  BY DEF CSendsHeader
<1>2. t.len \in Nat /\ t.len > 0 /\ t.blanks \in Nat /\ t.blanks <= t.len
  BY WssConstants DEF Text
<1>3. PICK u : u = Sent(Written(upU[c]), 1, t.len, t.blanks)
  OBVIOUS
<1>4. PICK p \in {"sending", "header", "done"} : p = "sending"
  OBVIOUS
<1>5. /\ Write(c, u, u.start, (IF p = "sending" THEN Payload(u) ELSE End(u)) - u.start)
      /\ cph[c] = "open" /\ cph' = [cph EXCEPT ![c] = p] /\ c \in FClient \cup CClient
      /\ UNCHANGED <<sph, cur, srx, read, backlog, crx, got>>
  BY <1>1, <1>3, <1>4 DEF Sent, CSendsHeader, Goes, server
<1>6. 1 \in Nat
  OBVIOUS
<1> QED BY <1>2, <1>3, <1>5, <1>6, SentStep

\* A client writes a close frame.
LEMMA CloseFrame ==
  ASSUME IInv, NEW c \in Client, cph[c] \in {"open", "close"}, cph' = [cph EXCEPT ![c] = "done"],
         LET u == Frame(Written(upU[c]), 8, 0, 4, 0, 0, 0)
         IN  Write(c, u, u.start, End(u) - u.start),
         UNCHANGED <<sph, cur, srx, read, backlog, crx, got>>
  PROVE  StreamInv'
<1>1. ExtBytes(0) = 0
  BY DEF ExtBytes, ShortMax
<1>2. PICK u : u = Sent(Written(upU[c]), 8, 0, 0)
  OBVIOUS
<1>3. PICK p \in {"sending", "header", "done"} : p = "done"
  OBVIOUS
<1>4. /\ Write(c, u, u.start, (IF p = "sending" THEN Payload(u) ELSE End(u)) - u.start)
      /\ cph[c] = "open" \/ (cph[c] = "close" /\ p = "done")
      /\ cph' = [cph EXCEPT ![c] = p] /\ p # "sending" /\ p = "done"
  BY <1>1, <1>2, <1>3 DEF Sent
<1>5. 0 \in Nat /\ 8 \in Nat /\ 0 <= 0
  OBVIOUS
<1> QED BY <1>2, <1>4, <1>5, SentStep

\* gf_ws_close.
LEMMA CClosesStep == ASSUME IInv, NEW c \in Client, CCloses(c) PROVE StreamInv'
<1>1. /\ cph[c] = "open" /\ cph' = [cph EXCEPT ![c] = "done"]
      /\ UNCHANGED <<sph, cur, srx, read, backlog, crx, got>>
  BY DEF CCloses, Goes, server
<1> QED BY <1>1, CloseFrame DEF CCloses

\* The end of a program: tls_close, or a close frame.
LEMMA ClosesStep == ASSUME IInv, NEW c \in Client, Closes(c) PROVE StreamInv'
<1>0. /\ cph[c] = "close" /\ cph' = [cph EXCEPT ![c] = "done"]
      /\ UNCHANGED <<sph, cur, srx, read, backlog, crx, got>>
  BY DEF Closes, Goes, server
<1>1. CASE c \notin FClient
  BY <1>0, <1>1, CloseFrame DEF Closes
<1>2. CASE c \in FClient
  <2>0. cend' = [cend EXCEPT ![c] = TRUE] /\ UNCHANGED <<up, down, upU, downU, send>>
    BY <1>2 DEF Closes
  <2>1. /\ cph'[c] = "done" /\ \A d \in Client : d # c => cph'[d] = cph[d]
        /\ cph' \in [Client -> {"start", "connecting", "tls", "await101", "open", "sending",
                                "header", "ext", "payload", "close", "done", "failed", "gone"}]
    BY <1>0, GoesFacts
  <2>2. cend' \in [Client -> BOOLEAN] /\ \A d \in Client : cend[d] => cend'[d]
    BY <2>0 DEF IInv, StreamInv, Types
  <2>3. Types'
    BY <1>0, <2>0, <2>1, <2>2 DEF IInv, StreamInv, Types
  <2>4. LineInv'
    <3>1. PICK p : p = "done" /\ p \notin {"start", "connecting"}
      OBVIOUS
    <3>2. /\ cph' = [cph EXCEPT ![c] = p] /\ cph[c] # "start" /\ UNCHANGED <<backlog, cur, send>>
          /\ cph[c] # "connecting"
      BY <1>0, <2>0, <3>1
    <3> QED BY <2>2, <3>1, <3>2, LineKept
  <2>5. (\A d \in Client : d # c => ClientInv(d)') /\ (cur # c => UpInv' /\ ServerInv')
    BY <1>0, <2>0, <2>1, OthersKept
  <2>6. ASSUME cur = c PROVE UpInv' /\ ServerInv'
    <3>0. cur # NoClient
      BY <2>6, WssConstants
    <3>1. sph # "upgrade"
      BY <1>0, <2>6 DEF IInv, StreamInv, ServerInv
    <3> QED BY <1>0, <2>0, <2>1, <2>6, <3>0, <3>1, ServedQuiet
  <2>7. ClientInv(c)'
    BY <1>0, <2>0, <2>1, ClientEnds
  <2> QED BY <2>3, <2>4, <2>5, <2>6, <2>7 DEF StreamInv
<1> QED BY <1>1, <1>2

\* gfns_ws.c sends the payload behind the header.
LEMMA CSendsPayloadStep == ASSUME IInv, NEW c \in Client, CSendsPayload(c) PROVE StreamInv'
<1>1. ClientInv(c) /\ Units(upU[c], 4) /\ cph[c] = "sending"
  BY DEF CSendsPayload, IInv, StreamInv, ClientInv, UnitsInv
<1>2. PICK l \in Nat : l = Len(upU[c]) /\ l > 1 /\ upU[c][l].len > 0
  BY <1>1 DEF ClientInv, UnitsInv, Units
<1>3. PICK u \in Unit : u = upU[c][l] /\ u.kind = "frame" /\ u.mask = 4 /\ u.len > 0
  BY <1>1, <1>2 DEF Units
<1>4. /\ u.start \in Nat /\ u.ext \in Nat /\ u.len \in Nat /\ Payload(u) \in Nat /\ End(u) \in Nat
      /\ End(u) = Payload(u) + u.len /\ Payload(u) = ((u.start + 2) + u.ext) + u.mask
  BY <1>3, UnitFacts
<1>5. Payload(u) # u.start
  BY <1>3, <1>4
<1>6. Written(upU[c]) = End(u)
  BY <1>1, <1>2, <1>3 DEF Written, Units
<1>7. /\ cph' = [cph EXCEPT ![c] = "header"] /\ Write(c, u, Payload(u), u.len)
      /\ UNCHANGED <<sph, cur, srx, read, backlog, crx, got>>
  BY <1>2, <1>3 DEF CSendsPayload, Goes, server
<1>8. /\ up' = [up EXCEPT ![c] = @ \o Records(Payload(u), u.len)]
      /\ UNCHANGED <<down, downU, cend, send>>
      /\ upU' = upU
  <2>1. upU' = [upU EXCEPT ![c] = @]
    BY <1>5, <1>7 DEF Write
  <2>2. upU' = upU
    BY <2>1 DEF IInv, StreamInv, Types
  <2> QED BY <1>7, <2>2 DEF Write
<1>9. /\ cph'[c] = "header" /\ \A d \in Client : d # c => cph'[d] = cph[d]
      /\ cph' \in [Client -> {"start", "connecting", "tls", "await101", "open", "sending",
                              "header", "ext", "payload", "close", "done", "failed", "gone"}]
  BY <1>7, GoesFacts
<1>10. /\ up'[c] = up[c] \o Records(Payload(u), u.len)
       /\ \A d \in Client : d # c => up'[d] = up[d]
       /\ up' \in [Client -> Seq(Interval)]
  <2>1. up[c] \in Seq(Interval)
    BY DEF IInv, StreamInv, Types
  <2>2. Records(Payload(u), u.len) \in Seq(Interval)
    BY <1>4, RecordsRun DEF Run
  <2>3. up[c] \o Records(Payload(u), u.len) \in Seq(Interval)
    BY <2>1, <2>2, ConcatProperties
  <2> QED BY <1>8, <2>3 DEF IInv, StreamInv, Types
<1>11. Types'
  BY <1>7, <1>8, <1>9, <1>10 DEF IInv, StreamInv, Types
<1>12. LineInv'
  <2>1. PICK p : p = "header" /\ p \notin {"start", "connecting"}
    OBVIOUS
  <2>2. /\ cph' = [cph EXCEPT ![c] = p] /\ cph[c] # "start" /\ UNCHANGED <<backlog, cur, send>>
        /\ cph[c] # "connecting" /\ \A d \in Client : cend[d] => cend'[d]
    BY <1>1, <1>7, <1>8, <2>1
  <2> QED BY <2>1, <2>2, LineKept
<1>13. (\A d \in Client : d # c => ClientInv(d)') /\ (cur # c => UpInv' /\ ServerInv')
  BY <1>7, <1>8, <1>9, <1>10, OthersKept
<1>14. ASSUME cur = c PROVE UpInv' /\ ServerInv'
  <2>0. cur # NoClient
    BY <1>14, WssConstants
  <2>1. sph # "upgrade"
    BY <1>1, <1>14 DEF IInv, StreamInv, ServerInv
  <2>2. WEnd(cur) = Payload(u)
    BY <1>1, <1>2, <1>3, <1>14 DEF WEnd
  <2>3. WEnd(cur)' = WEnd(cur) + u.len
    <3>1. WEnd(cur)' = Written(upU[c])
      BY <1>7, <1>8, <1>9, <1>14 DEF WEnd
    <3> QED BY <1>4, <1>6, <2>2, <3>1
  <2>4. WEnd(cur) + u.len <= Written(upU'[cur])
    BY <1>4, <1>6, <1>8, <1>14, <2>2
  <2>5. /\ Len(upU'[cur]) \in Nat /\ Len(upU'[cur]) >= Len(upU[cur])
        /\ \A m \in 1..Len(upU[cur]) : upU'[cur][m] = upU[cur][m]
    BY <1>2, <1>8, <1>14
  <2>6. /\ up'[cur] = up[cur] \o Records(WEnd(cur), u.len) /\ downU'[cur] = downU[cur]
        /\ cph[cur] # "gone" /\ cph'[cur] # "tls" /\ u.len \in Nat
    BY <1>1, <1>4, <1>8, <1>9, <1>10, <1>14, <2>2
  <2> QED BY <1>7, <2>0, <2>1, <2>3, <2>4, <2>5, <2>6, ServedWrites
<1>15. ClientInv(c)'
  <2>1. Early(c)'
    BY <1>9 DEF Early
  <2>2. UnitsInv(c)'
    BY <1>1, <1>8, <1>9 DEF ClientInv, UnitsInv
  <2>3. DownInv(c)'
    <3>1. CPos(c)' = CPos(c)
      BY <1>1, <1>7, <1>8, <1>9 DEF CPos
    <3> QED BY <1>1, <1>7, <1>8, <1>9, <3>1 DEF ClientInv, DownInv
  <2>4. GotInv(c)'
    BY <1>1, <1>7, <1>8 DEF ClientInv, GotInv
  <2> QED BY <2>1, <2>2, <2>3, <2>4 DEF ClientInv
<1> QED BY <1>11, <1>12, <1>13, <1>14, <1>15 DEF StreamInv

\* With bytes there, a client looks for a header at the beginning of the reply
\* behind the ones it has read.
LEMMA CFrameAhead ==
  ASSUME IInv, NEW c \in Client, cph[c] = "header", down[c] # <<>>
  PROVE  /\ CAt(c) \in 2..Len(downU[c]) /\ downU[c][CAt(c)].start = CPos(c)
         /\ CPos(c) \in Nat /\ Run(down[c], CPos(c)) /\ Units(downU[c], 0)
<1>1. PICK n \in Nat, l \in Nat : n = Len(got[c]) + 1 /\ l = Len(downU[c]) /\ n >= 1 /\ n <= l
  BY CPosFacts
<1>2. /\ Units(downU[c], 0) /\ CPos(c) \in Nat /\ Run(down[c], CPos(c))
      /\ Fin(down[c], CPos(c)) = Written(downU[c])
  BY CPosFacts
<1>3. CPos(c) = End(downU[c][n])
  BY <1>1 DEF CPos
<1>4. CPos(c) < Fin(down[c], CPos(c)) /\ Fin(down[c], CPos(c)) \in Nat
  BY <1>2, RunFin
<1>5. n # l
  <2>1. CASE n = l
    <3>1. Written(downU[c]) = CPos(c)
      BY <1>1, <1>2, <1>3, <2>1 DEF Written, Units
    <3> QED BY <1>2, <1>4, <3>1
  <2> QED BY <2>1
<1>6. n \in 1..l /\ n < l
  BY <1>1, <1>5
<1>7. downU[c][n + 1].start = CPos(c)
  BY <1>1, <1>2, <1>3, <1>6, UnitsFacts
<1>8. CAt(c) = n + 1 /\ n + 1 \in 2..l
  BY <1>1, <1>6, CPosFacts DEF CAt
<1> QED BY <1>1, <1>2, <1>7, <1>8

\* The reply a client is in.
LEMMA ReplyFacts ==
  ASSUME IInv, NEW c \in Client, CAt(c) \in 2..Len(downU[c])
  PROVE  LET u == downU[c][CAt(c)]
         IN  /\ u \in Unit /\ u.kind = "frame" /\ u.ext = ExtBytes(u.len) /\ u.len > 0
             /\ u.start \in Nat /\ u.ext \in Nat /\ u.len \in Nat
             /\ Payload(u) = (u.start + 2) + u.ext /\ End(u) = Payload(u) + u.len
<1> DEFINE u == downU[c][CAt(c)]
<1>1. UnitsInv(c) /\ Units(downU[c], 0)
  BY DEF IInv, StreamInv, ClientInv, UnitsInv
<1>2. u \in Unit /\ u.kind = "frame" /\ u.ext = ExtBytes(u.len) /\ u.mask = 0
  BY <1>1 DEF Units
<1>3. u.len > 0
  BY <1>1 DEF UnitsInv
<1>4. /\ u.start \in Nat /\ u.ext \in Nat /\ u.len \in Nat
      /\ Payload(u) = ((u.start + 2) + u.ext) + u.mask /\ End(u) = Payload(u) + u.len
  BY <1>2, UnitFacts
<1> HIDE DEF u
<1>5. Payload(u) = (u.start + 2) + u.ext
  BY <1>2, <1>4
<1> QED BY <1>2, <1>3, <1>4, <1>5 DEF u

\* A client reads: nothing changes for the server and the other clients.
LEMMA ClientMoves ==
  ASSUME IInv, NEW c \in Client, cph[c] \in {"header", "ext", "payload"},
         NEW p \in {"ext", "payload", "open", "close"}, cph' = [cph EXCEPT ![c] = p],
         NEW q \in Seq(Interval), down' = [down EXCEPT ![c] = q],
         NEW r \in FieldSet, crx' = [crx EXCEPT ![c] = r],
         NEW g \in Seq(Interval), got' = [got EXCEPT ![c] = g],
         UNCHANGED <<sph, cur, srx, read, backlog, up, upU, downU, cend, send>>,
         ClientInv(c)'
  PROVE  StreamInv'
<1>1. /\ cph'[c] = p /\ \A d \in Client : d # c => cph'[d] = cph[d]
      /\ cph' \in [Client -> {"start", "connecting", "tls", "await101", "open", "sending",
                              "header", "ext", "payload", "close", "done", "failed", "gone"}]
  BY GoesFacts
<1>2. /\ down' \in [Client -> Seq(Interval)] /\ \A d \in Client : d # c => down'[d] = down[d]
      /\ crx' \in [Client -> FieldSet] /\ \A d \in Client : d # c => crx'[d] = crx[d]
      /\ got' \in [Client -> Seq(Interval)] /\ \A d \in Client : d # c => got'[d] = got[d]
  BY DEF IInv, StreamInv, Types
<1>3. Types'
  BY <1>1, <1>2 DEF IInv, StreamInv, Types
<1>4. LineInv'
  <2>1. /\ p \notin {"start", "connecting"} /\ cph[c] # "start" /\ cph[c] # "connecting"
        /\ UNCHANGED <<backlog, cur, send>> /\ \A d \in Client : cend[d] => cend'[d]
    OBVIOUS
  <2> QED BY <2>1, LineKept
<1>5. (\A d \in Client : d # c => ClientInv(d)') /\ (cur # c => UpInv' /\ ServerInv')
  BY <1>1, <1>2, OthersKept
<1>6. ASSUME cur = c PROVE UpInv' /\ ServerInv'
  <2>0. cur # NoClient
    BY <1>6, WssConstants
  <2>1. sph # "upgrade"
    BY <1>6 DEF IInv, StreamInv, ServerInv
  <2>2. /\ UNCHANGED <<sph, cur, srx, read>> /\ up'[cur] = up[cur] /\ upU'[cur] = upU[cur]
        /\ downU'[cur] = downU[cur] /\ cph[cur] \notin {"gone", "sending"}
        /\ cph'[cur] \notin {"tls", "sending"}
    BY <1>1, <1>6
  <2> QED BY <2>0, <2>1, <2>2, ServedQuiet
<1> QED BY <1>3, <1>4, <1>5, <1>6 DEF StreamInv

\* What a client asks for, and where.
LEMMA CReadFacts ==
  ASSUME IInv, NEW c \in Client, cph[c] \in {"header", "ext", "payload"}, down[c] # <<>>
  PROVE  /\ CWant(c) \in Nat /\ CWant(c) > 0 /\ CAt(c) \in 2..Len(downU[c])
         /\ CPos(c) \in Nat /\ Run(down[c], CPos(c)) /\ Units(downU[c], 0)
         /\ crx[c] \in FieldSet /\ got[c] \in Seq(Interval) /\ Len(got[c]) \in Nat
         /\ crx[c].len \in Nat /\ upU[c] # <<>> /\ Len(downU[c]) \in Nat
         /\ c \in FClient \cup CClient
<1>1. /\ crx[c] \in FieldSet /\ crx[c].len \in Nat /\ crx[c].ext \in Nat
      /\ got[c] \in Seq(Interval) /\ Len(got[c]) \in Nat
  BY DEF IInv, StreamInv, Types, FieldSet
<1>2. DownInv(c)
  BY DEF IInv, StreamInv, ClientInv
<1>3. CPos(c) \in Nat /\ Run(down[c], CPos(c)) /\ Units(downU[c], 0) /\ upU[c] # <<>>
      /\ Len(downU[c]) \in Nat
  BY CPosFacts
<1>4. CAt(c) \in 2..Len(downU[c])
  <2>1. CASE cph[c] = "header"
    BY <2>1, CFrameAhead
  <2>2. CASE cph[c] # "header"
    BY <2>2, CPosFacts
  <2> QED BY <2>1, <2>2
<1>5. CWant(c) \in Nat /\ CWant(c) > 0
  <2>1. CASE cph[c] = "header"
    BY <2>1 DEF CWant
  <2>2. CASE cph[c] = "ext"
    <3>1. CWant(c) = crx[c].ext /\ crx[c].ext > 0
      BY <1>2, <2>2 DEF CWant, DownInv
    <3> QED BY <1>1, <3>1
  <2>3. CASE cph[c] = "payload"
    <3>1. CWant(c) = crx[c].len /\ crx[c].len > 0
      BY <1>2, <2>3 DEF CWant, DownInv
    <3> QED BY <1>1, <3>1
  <2> QED BY <2>1, <2>2, <2>3
<1>6. c \in FClient \cup CClient
  BY <1>2 DEF DownInv
<1> QED BY <1>1, <1>3, <1>4, <1>5, <1>6

\* What a client makes of the bytes is a frame's fields.
LEMMA CDecodedType ==
  ASSUME IInv, NEW c \in Client, cph[c] \in {"header", "ext", "payload"}, down[c] # <<>>,
         NEW iv, iv[1] = CPos(c), NEW r \in CDecoded(c, iv)
  PROVE  r \in FieldSet
<1>1. /\ CAt(c) \in 2..Len(downU[c]) /\ Units(downU[c], 0) /\ crx[c] \in FieldSet
  BY CReadFacts
<1>2. CASE cph[c] = "header"
  <2>1. downU[c][CAt(c)].start = iv[1]
    BY <1>2, CFrameAhead
  <2>2. r \in Headers(downU[c], iv)
    BY <1>2 DEF CDecoded
  <2>3. 0 \in Nat
    OBVIOUS
  <2> QED BY <1>1, <2>1, <2>2, <2>3, HeaderAt
<1>3. CASE cph[c] = "ext"
  <2>1. PICK n \in Lengths(downU[c], iv) : r = [crx[c] EXCEPT !.len = n]
    BY <1>3 DEF CDecoded
  <2>2. \A m \in DOMAIN downU[c] : downU[c][m].len \in Nat
    <3>1. \A u \in Unit : u.len \in Nat
      BY DEF Unit
    <3>2. \A m \in DOMAIN downU[c] : downU[c][m] \in Unit
      BY <1>1 DEF Units
    <3> QED BY <3>1, <3>2
  <2>3. n \in Nat
    BY <2>2 DEF Lengths
  <2> QED BY <1>1, <2>1, <2>3 DEF FieldSet
<1>4. CASE cph[c] = "payload"
  BY <1>1, <1>4 DEF CDecoded
<1> QED BY <1>2, <1>3, <1>4

\* A read that is not short moves a client on by what it asked for.
LEMMA ClientAdvances ==
  ASSUME IInv, NEW c \in Client, cph[c] \in {"header", "ext", "payload"}, down[c] # <<>>,
         ~Short(down[c], CWant(c)), down'[c] = Rest(down[c], CWant(c)),
         UNCHANGED <<upU, downU>>, cph'[c] \in {"ext", "payload", "open"},
         CPos(c)' = CPos(c) + CWant(c), Len(downU[c]) >= Len(got'[c]) + 1, GotInv(c)',
         cph'[c] \in {"ext", "payload"} =>
            CAt(c)' <= Len(downU[c]) /\ crx'[c].ext = downU[c][CAt(c)'].ext /\ crx'[c].len > 0,
         cph'[c] = "ext" => crx'[c].ext > 0 /\ c \in CClient,
         cph'[c] = "payload" /\ (c \in CClient \/ downU[c][CAt(c)'].len <= ShortMax) =>
            crx'[c].len = downU[c][CAt(c)'].len
  PROVE  ClientInv(c)'
<1>1. /\ CWant(c) \in Nat /\ CWant(c) > 0 /\ CPos(c) \in Nat /\ Run(down[c], CPos(c))
      /\ c \in FClient \cup CClient
  BY CReadFacts
<1>2. Fin(down[c], CPos(c)) = Written(downU[c])
  BY CPosFacts
<1>3. PICK n \in Nat : n = CWant(c) /\ n > 0
  BY <1>1
<1>4. Took(down[c], n) = <<CPos(c), CPos(c) + n>>
  BY <1>1, <1>3, RunTake
<1>5. Took(down[c], n)[2] = CPos(c) + n
  BY <1>4
<1>6. Run(down'[c], CPos(c) + n) /\ Fin(down'[c], CPos(c) + n) = Written(downU[c])
  BY <1>1, <1>2, <1>3, <1>5, RunTake
<1>7. DownInv(c)'
  BY <1>1, <1>3, <1>6 DEF DownInv
<1>8. Early(c)'
  BY DEF Early
<1>9. UnitsInv(c)'
  BY DEF IInv, StreamInv, ClientInv, UnitsInv
<1> QED BY <1>7, <1>8, <1>9 DEF ClientInv

\* The first two bytes of a reply.
LEMMA CReadHeader ==
  ASSUME IInv, NEW c \in Client, cph[c] = "header", down[c] # <<>>, ~Short(down[c], CWant(c)),
         NEW r \in CDecoded(c, Took(down[c], CWant(c))), CFieldBehind(c, r) # "refused",
         down'[c] = Rest(down[c], CWant(c)), crx'[c] = r, got'[c] = got[c],
         cph'[c] = CFieldBehind(c, r), UNCHANGED <<upU, downU>>
  PROVE  ClientInv(c)' /\ CFieldBehind(c, r) \in {"ext", "payload"}
<1>1. /\ CAt(c) \in 2..Len(downU[c]) /\ downU[c][CAt(c)].start = CPos(c)
      /\ CPos(c) \in Nat /\ Run(down[c], CPos(c)) /\ Units(downU[c], 0)
  BY CFrameAhead
<1>2. PICK u \in Unit : /\ u = downU[c][CAt(c)] /\ u.ext = ExtBytes(u.len) /\ u.len > 0
                        /\ u.start \in Nat /\ u.ext \in Nat /\ u.len \in Nat
  BY <1>1, ReplyFacts
<1>3. CWant(c) = 2
  BY DEF CWant
<1>4. Took(down[c], 2)[1] = u.start
  BY <1>1, <1>2, <1>3, RunTake
<1>5. PICK iv : iv = Took(down[c], 2) /\ iv[1] = downU[c][CAt(c)].start
  BY <1>2, <1>4
<1>6. r.ext = u.ext /\ r.len = Field7(u)
  <2>1. r \in Headers(downU[c], iv) /\ 0 \in Nat
    BY <1>3, <1>5 DEF CDecoded
  <2> QED BY <1>1, <1>2, <1>5, <2>1, HeaderAt
<1>7. /\ u.ext = 0 <=> u.len <= ShortMax
      /\ u.ext = 0 => Field7(u) = u.len
      /\ u.ext # 0 => Field7(u) > 0
  BY <1>2, ExtMatches
<1>8. cph'[c] = IF c \in CClient /\ r.ext > 0 THEN "ext" ELSE "payload"
  BY DEF CFieldBehind
<1>9. CAt(c)' = CAt(c)
  BY DEF CAt
<1>10. CPos(c)' = CPos(c) + 2
  <2>1. CASE c \in CClient /\ r.ext > 0
    <3>1. CPos(c)' = u.start + 2
      BY <1>2, <1>8, <1>9, <2>1 DEF CPos
    <3> QED BY <1>1, <1>2, <3>1
  <2>2. CASE ~(c \in CClient /\ r.ext > 0)
    <3>1. CPos(c)' = (u.start + 2) + (IF c \in CClient THEN u.ext ELSE 0)
      BY <1>2, <1>8, <1>9, <2>2 DEF CPos
    <3>2. c \in CClient => u.ext = 0
      BY <1>2, <1>6, <2>2
    <3> QED BY <1>1, <1>2, <3>1, <3>2
  <2> QED BY <2>1, <2>2
<1>11. GotInv(c)'
  BY DEF IInv, StreamInv, ClientInv, GotInv
<1>12. Len(downU[c]) >= Len(got'[c]) + 1
  BY CPosFacts
<1>13. /\ CAt(c)' <= Len(downU[c]) /\ crx'[c].ext = downU[c][CAt(c)'].ext /\ crx'[c].len > 0
       /\ cph'[c] = "ext" => crx'[c].ext > 0 /\ c \in CClient
       /\ cph'[c] = "payload" /\ (c \in CClient \/ downU[c][CAt(c)'].len <= ShortMax) =>
            crx'[c].len = downU[c][CAt(c)'].len
  <2>1. r.len > 0
    BY <1>2, <1>6, <1>7
  <2>2. cph'[c] = "payload" /\ (c \in CClient \/ u.len <= ShortMax) => r.len = u.len
    BY <1>2, <1>6, <1>7, <1>8
  <2> QED BY <1>1, <1>2, <1>6, <1>8, <1>9, <2>1, <2>2
<1> QED BY <1>3, <1>8, <1>10, <1>11, <1>12, <1>13, ClientAdvances

\* The extended length of a reply, which only gfns_ws.c reads.
LEMMA CReadExt ==
  ASSUME IInv, NEW c \in Client, cph[c] = "ext", down[c] # <<>>, ~Short(down[c], CWant(c)),
         NEW r \in CDecoded(c, Took(down[c], CWant(c))), CFieldBehind(c, r) # "refused",
         down'[c] = Rest(down[c], CWant(c)), crx'[c] = r, got'[c] = got[c],
         cph'[c] = CFieldBehind(c, r), UNCHANGED <<upU, downU>>
  PROVE  ClientInv(c)' /\ CFieldBehind(c, r) \in {"ext", "payload"}
<1>0. DownInv(c)
  BY DEF IInv, StreamInv, ClientInv
<1>1. /\ CAt(c) \in 2..Len(downU[c]) /\ CPos(c) \in Nat /\ Run(down[c], CPos(c))
      /\ Units(downU[c], 0) /\ crx[c] \in FieldSet
  BY CReadFacts
<1>2. PICK u \in Unit : /\ u = downU[c][CAt(c)] /\ u.ext = ExtBytes(u.len) /\ u.len > 0
                        /\ u.start \in Nat /\ u.ext \in Nat /\ u.len \in Nat
  BY <1>1, ReplyFacts
<1>3. CWant(c) = u.ext /\ u.ext > 0 /\ crx[c].ext = u.ext /\ c \in CClient
  BY <1>0, <1>2 DEF CWant, DownInv
<1>4. CPos(c) = u.start + 2
  BY <1>2 DEF CPos
<1>5. Took(down[c], CWant(c)) = <<u.start + 2, (u.start + 2) + u.ext>>
  BY <1>1, <1>2, <1>3, <1>4, RunTake
<1>6. r = [crx[c] EXCEPT !.len = u.len]
  <2>1. PICK n \in Lengths(downU[c], <<u.start + 2, (u.start + 2) + u.ext>>) :
            r = [crx[c] EXCEPT !.len = n]
    BY <1>5 DEF CDecoded
  <2>2. 0 \in Nat
    OBVIOUS
  <2>3. Lengths(downU[c], <<u.start + 2, (u.start + 2) + u.ext>>) = {u.len}
    BY <1>1, <1>2, <1>3, <2>2, LengthAt
  <2> QED BY <2>1, <2>3
<1>7. r.ext = u.ext /\ r.len = u.len
  BY <1>1, <1>3, <1>6 DEF FieldSet
<1>8. cph'[c] = "payload"
  BY DEF CFieldBehind
<1>9. CAt(c)' = CAt(c)
  BY DEF CAt
<1>10. CPos(c)' = CPos(c) + CWant(c)
  <2>1. CPos(c)' = (u.start + 2) + u.ext
    BY <1>2, <1>3, <1>8, <1>9 DEF CPos
  <2> QED BY <1>3, <1>4, <2>1
<1>11. GotInv(c)'
  BY DEF IInv, StreamInv, ClientInv, GotInv
<1>12. Len(downU[c]) >= Len(got'[c]) + 1
  BY CPosFacts
<1>13. CAt(c)' <= Len(downU[c]) /\ crx'[c].ext = downU[c][CAt(c)'].ext /\ crx'[c].len > 0
       /\ crx'[c].len = downU[c][CAt(c)'].len
  BY <1>1, <1>2, <1>7, <1>9
<1> QED BY <1>8, <1>10, <1>11, <1>12, <1>13, ClientAdvances

\* The payload of a reply: the text is all of it, and the client is behind it,
\* unless ws_client.f90 took the wrong length; then it closes.
LEMMA CReadPayload ==
  ASSUME IInv, NEW c \in Client, cph[c] = "payload", down[c] # <<>>, ~Short(down[c], CWant(c)),
         down'[c] = Rest(down[c], CWant(c)), cph'[c] = AfterRecv(c),
         got'[c] = Append(got[c], Took(down[c], CWant(c))), UNCHANGED <<upU, downU>>
  PROVE  ClientInv(c)'
<1>0. ClientInv(c) /\ DownInv(c) /\ GotInv(c)
  BY DEF IInv, StreamInv, ClientInv
<1>1. /\ CAt(c) \in 2..Len(downU[c]) /\ CPos(c) \in Nat /\ Run(down[c], CPos(c))
      /\ got[c] \in Seq(Interval) /\ crx[c].len \in Nat /\ upU[c] # <<>>
      /\ c \in FClient \cup CClient /\ CWant(c) \in Nat /\ CWant(c) > 0
  BY CReadFacts
<1>2. PICK u \in Unit : /\ u = downU[c][CAt(c)] /\ u.ext = ExtBytes(u.len)
                        /\ u.start \in Nat /\ u.ext \in Nat /\ u.len \in Nat
                        /\ Payload(u) = (u.start + 2) + u.ext /\ End(u) = Payload(u) + u.len
  BY <1>1, ReplyFacts
<1>3. PICK l \in Nat : l = Len(got[c]) /\ l + 2 = CAt(c) /\ l + 2 <= Len(downU[c])
  <2>1. Len(got[c]) \in Nat /\ Len(got[c]) + 2 = CAt(c)
    BY <1>1 DEF CAt
  <2>2. CAt(c) <= Len(downU[c])
    BY <1>1
  <2> QED BY <2>1, <2>2
<1>4. PICK iv : iv = Took(down[c], CWant(c))
  OBVIOUS
<1>5. iv \in Interval /\ iv = <<CPos(c), CPos(c) + CWant(c)>>
  BY <1>1, <1>4, RunTake
<1>6. CWant(c) = crx[c].len
  BY DEF CWant
<1>7. CPos(c) = (u.start + 2) + (IF c \in CClient THEN u.ext ELSE 0)
  BY <1>2 DEF CPos
<1>8. ASSUME c \in CClient \/ u.len <= ShortMax PROVE iv = <<Payload(u), End(u)>>
  <2>1. crx[c].len = u.len
    BY <1>0, <1>2, <1>8 DEF DownInv
  <2>2. c \in CClient \/ u.ext = 0
    BY <1>2, <1>8, ExtMatches
  <2>3. CPos(c) = Payload(u)
    BY <1>2, <1>7, <2>2
  <2> QED BY <1>2, <1>5, <1>6, <2>1, <2>3
<1>9. PICK g \in Seq(Interval) :
        /\ g = got'[c] /\ Len(g) = l + 1 /\ g[l + 1] = iv
        /\ \A m \in 1..l : g[m] = got[c][m]
  <2>1. got'[c] = Append(got[c], iv) /\ got[c] \in Seq(Interval) /\ iv \in Interval
    BY <1>1, <1>4, <1>5
  <2>2. /\ Append(got[c], iv) \in Seq(Interval)
        /\ Len(Append(got[c], iv)) = Len(got[c]) + 1
        /\ Append(got[c], iv)[Len(got[c]) + 1] = iv
        /\ \A m \in 1..Len(got[c]) : Append(got[c], iv)[m] = got[c][m]
    BY <2>1, AppendProperties
  <2> QED BY <1>3, <2>1, <2>2
<1>10. GotInv(c)'
  <2>1. ASSUME NEW m \in 1..(l + 1)
        PROVE  /\ m + 1 <= Len(downU[c])
               /\ (c \in CClient \/ downU[c][m + 1].len <= ShortMax) =>
                     g[m] = <<Payload(downU[c][m + 1]), End(downU[c][m + 1])>>
    <3>1. CASE m \in 1..l
      BY <1>0, <1>3, <1>9, <3>1 DEF GotInv
    <3>2. CASE m = l + 1
      <4>1. m + 1 = CAt(c) /\ g[m] = iv /\ m + 1 <= Len(downU[c])
        BY <1>3, <1>9, <3>2
      <4> QED BY <1>2, <1>8, <4>1
    <3> QED BY <3>1, <3>2
  <2> QED BY <1>9, <2>1 DEF GotInv
<1>11. CASE c \in FClient
  <2>1. cph'[c] = "close"
    BY <1>11 DEF AfterRecv
  <2>2. Early(c)' /\ DownInv(c)'
    BY <2>1 DEF Early, DownInv
  <2>3. UnitsInv(c)'
    BY <1>0, <1>1, <2>1 DEF ClientInv, UnitsInv
  <2> QED BY <1>10, <2>2, <2>3 DEF ClientInv
<1>12. CASE c \notin FClient
  <2>1. c \in CClient /\ cph'[c] = "open"
    BY <1>1, <1>12 DEF AfterRecv
  <2>2. iv = <<Payload(u), End(u)>>
    BY <1>8, <2>1
  <2>3. CPos(c) + CWant(c) = End(u)
    BY <1>5, <2>2
  <2>4. Len(got'[c]) + 1 = CAt(c)
    BY <1>3, <1>9
  <2>5. CPos(c)' = End(u)
    BY <1>2, <2>1, <2>4 DEF CPos
  <2>6. CPos(c)' = CPos(c) + CWant(c) /\ Len(downU[c]) >= Len(got'[c]) + 1
    BY <1>1, <1>3, <2>3, <2>4, <2>5
  <2> QED BY <1>10, <2>1, <2>6, ClientAdvances
<1> QED BY <1>11, <1>12

\* One read of a client.
LEMMA ClientReadsStep == ASSUME IInv, NEW c \in Client, ClientReads(c) PROVE StreamInv'
<1>0. /\ cph[c] \in {"header", "ext", "payload"} /\ down[c] # <<>>
      /\ down' = [down EXCEPT ![c] = Rest(down[c], CWant(c))]
      /\ UNCHANGED <<sph, cur, srx, read, backlog, up, upU, downU, cend, send>>
  BY DEF ClientReads, server
<1>1. PICK iv : iv = Took(down[c], CWant(c))
  OBVIOUS
<1>2. PICK r \in CDecoded(c, iv) :
        /\ crx' = [crx EXCEPT ![c] = r]
        /\ IF Short(down[c], CWant(c)) \/ CFieldBehind(c, r) = "refused"
           THEN Goes(c, "close") /\ UNCHANGED got
           ELSE IF CFieldBehind(c, r) = "read"
           THEN Goes(c, AfterRecv(c)) /\ got' = [got EXCEPT ![c] = Append(@, iv)]
           ELSE Goes(c, CFieldBehind(c, r)) /\ UNCHANGED got
  BY <1>1 DEF ClientReads
<1>3. /\ CWant(c) \in Nat /\ CWant(c) > 0 /\ CPos(c) \in Nat /\ Run(down[c], CPos(c))
      /\ got[c] \in Seq(Interval) /\ upU[c] # <<>>
  BY <1>0, CReadFacts
<1>4. iv \in Interval /\ iv[1] = CPos(c)
  BY <1>0, <1>1, <1>3, RunTake
<1>5. r \in FieldSet
  BY <1>0, <1>4, CDecodedType
<1>6. PICK q \in Seq(Interval) : q = Rest(down[c], CWant(c)) /\ down'[c] = q
  <2>1. Rest(down[c], CWant(c)) \in Seq(Interval)
    <3>1. Run(Rest(down[c], CWant(c)), Took(down[c], CWant(c))[2])
      BY <1>0, <1>3, RunTake
    <3> QED BY <3>1 DEF Run
  <2>2. down'[c] = Rest(down[c], CWant(c))
    BY <1>0 DEF IInv, StreamInv, Types
  <2> QED BY <2>1, <2>2
<1>7. crx'[c] = r
  BY <1>2 DEF IInv, StreamInv, Types
<1>8. got = [got EXCEPT ![c] = got[c]]
  BY DEF IInv, StreamInv, Types
<1>9. CASE Short(down[c], CWant(c)) \/ CFieldBehind(c, r) = "refused"
  <2>1. PICK p \in {"ext", "payload", "open", "close"} : p = "close" /\ cph' = [cph EXCEPT ![c] = p]
    BY <1>2, <1>9 DEF Goes
  <2>2. got' = got /\ cph'[c] = "close"
    BY <1>2, <1>9, <2>1 DEF IInv, StreamInv, Types
  <2>3. ClientInv(c)'
    BY <1>0, <1>3, <2>2, ClientEnds
  <2>4. PICK g \in Seq(Interval) : got' = [got EXCEPT ![c] = g]
    BY <1>3, <1>8, <2>2
  <2> QED BY <1>0, <1>2, <1>5, <1>6, <2>1, <2>3, <2>4, ClientMoves
<1>10. CASE /\ ~Short(down[c], CWant(c)) /\ cph[c] = "payload"
            /\ CFieldBehind(c, r) # "refused"
  <2>1. CFieldBehind(c, r) = "read"
    BY <1>10 DEF CFieldBehind
  <2>2. PICK p \in {"ext", "payload", "open", "close"} :
            p = AfterRecv(c) /\ cph' = [cph EXCEPT ![c] = p]
    BY <1>2, <1>10, <2>1 DEF Goes, AfterRecv
  <2>3. PICK g \in Seq(Interval) : g = Append(got[c], iv) /\ got' = [got EXCEPT ![c] = g]
    BY <1>2, <1>3, <1>4, <1>10, <2>1, AppendProperties
  <2>4. cph'[c] = AfterRecv(c) /\ got'[c] = Append(got[c], Took(down[c], CWant(c)))
    BY <1>1, <2>2, <2>3 DEF IInv, StreamInv, Types
  <2>5. ClientInv(c)'
    BY <1>0, <1>6, <1>10, <2>4, CReadPayload
  <2> QED BY <1>0, <1>2, <1>5, <1>6, <2>2, <2>3, <2>5, ClientMoves
<1>11. CASE /\ ~Short(down[c], CWant(c)) /\ cph[c] # "payload"
            /\ CFieldBehind(c, r) # "refused"
  <2>1. CFieldBehind(c, r) # "read"
    BY <1>0, <1>11 DEF CFieldBehind
  <2>2. cph' = [cph EXCEPT ![c] = CFieldBehind(c, r)] /\ got' = got
    BY <1>2, <1>11, <2>1 DEF Goes
  <2>3. cph'[c] = CFieldBehind(c, r) /\ got'[c] = got[c]
    BY <2>2 DEF IInv, StreamInv, Types
  <2>4. r \in CDecoded(c, Took(down[c], CWant(c))) /\ down'[c] = Rest(down[c], CWant(c))
    BY <1>1, <1>6
  <2>5. ClientInv(c)' /\ CFieldBehind(c, r) \in {"ext", "payload"}
    <3>1. CASE cph[c] = "header"
      BY <1>0, <1>7, <1>11, <2>3, <2>4, <3>1, CReadHeader
    <3>2. CASE cph[c] = "ext"
      BY <1>0, <1>7, <1>11, <2>3, <2>4, <3>2, CReadExt
    <3> QED BY <1>0, <1>11, <3>1, <3>2
  <2>6. PICK p \in {"ext", "payload", "open", "close"} : cph' = [cph EXCEPT ![c] = p]
    BY <2>2, <2>5
  <2>7. PICK g \in Seq(Interval) : got' = [got EXCEPT ![c] = g]
    BY <1>3, <1>8, <2>2
  <2> QED BY <1>0, <1>2, <1>5, <1>6, <2>5, <2>6, <2>7, ClientMoves
<1> QED BY <1>0, <1>9, <1>10, <1>11

-----------------------------------------------------------------------------
(* The theorems about the streams *)

\* Nothing is under way in the beginning.
LEMMA StreamInit == Init => StreamInv
<1> SUFFICES ASSUME Init PROVE StreamInv
  OBVIOUS
<1>1. /\ sph = "start" /\ cur = NoClient /\ srx = NoFrame /\ read = <<>> /\ backlog = <<>>
      /\ cph = [c \in Client |-> "start"] /\ crx = [c \in Client |-> NoFrame]
      /\ got = [c \in Client |-> <<>>]
      /\ up = [c \in Client |-> <<>>] /\ down = [c \in Client |-> <<>>]
      /\ upU = [c \in Client |-> <<>>] /\ downU = [c \in Client |-> <<>>]
      /\ cend = [c \in Client |-> FALSE] /\ send = [c \in Client |-> FALSE]
  BY DEF Init
<1>2. NoFrame \in FieldSet
  BY DEF NoFrame, FieldSet
<1>3. <<>> \in Seq(Interval) /\ <<>> \in Seq(Unit) /\ Len(<<>>) = 0
  BY EmptySeq
<1>4. Types
  BY <1>1, <1>2, <1>3 DEF Types
<1>5. LineInv
  BY <1>1, <1>3 DEF LineInv
<1>6. UpInv /\ ServerInv
  BY <1>1 DEF UpInv, ServerInv
<1>7. ASSUME NEW c \in Client PROVE ClientInv(c)
  <2>1. /\ cph[c] = "start" /\ up[c] = <<>> /\ upU[c] = <<>> /\ down[c] = <<>>
        /\ downU[c] = <<>> /\ got[c] = <<>>
    BY <1>1
  <2>2. Units(<<>>, 4) /\ Units(<<>>, 0)
    BY <1>3 DEF Units
  <2>3. Early(c) /\ DownInv(c) /\ GotInv(c)
    BY <1>3, <2>1 DEF Early, DownInv, GotInv
  <2>4. UnitsInv(c)
    BY <1>3, <2>1, <2>2 DEF UnitsInv
  <2> QED BY <2>3, <2>4 DEF ClientInv
<1> QED BY <1>4, <1>5, <1>6, <1>7 DEF StreamInv

\* Every step keeps the invariant of the streams.
LEMMA StreamNext == IInv /\ [Next]_vars => StreamInv'
<1> SUFFICES ASSUME IInv, [Next]_vars PROVE StreamInv'
  OBVIOUS
<1>1. CASE UNCHANGED vars
  <2>1. /\ UNCHANGED <<sph, cur, srx, read, backlog, cph, crx, got, up, down, upU, downU>>
        /\ UNCHANGED <<cend, send>>
    BY <1>1 DEF vars, server, clients, streams
  <2>2. Types' /\ LineInv'
    BY <2>1 DEF IInv, StreamInv, Types, LineInv
  <2>3. UpInv' /\ ServerInv'
    BY <2>1, ServedKept DEF IInv, StreamInv
  <2>4. ASSUME NEW c \in Client PROVE ClientInv(c)'
    BY <2>1, ClientKept DEF IInv, StreamInv
  <2> QED BY <2>2, <2>3, <2>4 DEF StreamInv
<1>2. CASE Server
  BY <1>2, ListenStep, TlsAcceptStep, TlsAcceptFailsStep, ServerReadFailsStep, UpgradeStep,
     ServerReadsStep, EchoStep DEF Server
<1>3. ASSUME NEW c \in Client, Connect(c) \/ ClientStep(c) \/ BreaksOff(c) PROVE StreamInv'
  <2>1. CASE Connect(c)
    BY <2>1, ConnectStep
  <2>2. CASE BreaksOff(c)
    BY <2>2, BreaksOffStep
  <2>3. CASE ClientStep(c)
    BY <2>3, SendRequestStep, ReadResponseStep, FSendsStep, CSendsHeaderStep, CSendsPayloadStep,
       CClosesStep, ClientReadsStep, ClientReadFailsStep, ClosesStep DEF ClientStep
  <2> QED BY <1>3, <2>1, <2>2, <2>3
<1> QED BY <1>1, <1>2, <1>3 DEF Next

\* The whole invariant holds of every reachable state.
THEOREM StreamsHold == FairSpec => []IInv
<1>1. Init => IInv
  BY TableInit, StreamInit DEF IInv
<1>2. IInv /\ [Next]_vars => IInv'
  BY TableNext, StreamNext DEF IInv
<1> QED BY <1>1, <1>2, PTL DEF FairSpec

\* For any clients, texts and sizes, and whatever records header, key and
\* payload travel in, ws_recv_text looks for a header only where a frame of its
\* peer begins: a read that is cut short ends the session instead of leaving the
\* server in the middle of a frame.
THEOREM ServerInStep == FairSpec => []InStep
<1>1. ASSUME IInv PROVE InStep
  <2> SUFFICES ASSUME sph = "header", up[cur] # <<>>
               PROVE  \E m \in DOMAIN upU[cur] :
                          upU[cur][m].kind = "frame" /\ upU[cur][m].start = up[cur][1][1]
    BY DEF InStep
  <2>1. /\ At \in 2..Len(upU[cur]) /\ upU[cur][At].start = up[cur][1][1]
        /\ upU[cur][At].kind = "frame" /\ cur # NoClient
    BY <1>1, FrameAhead
  <2>2. upU[cur] \in Seq(Unit)
    BY <1>1, <2>1, PosFacts DEF Units
  <2>3. At \in DOMAIN upU[cur]
    BY <2>1, <2>2
  <2> QED BY <2>1, <2>3
<1> QED BY <1>1, StreamsHold, PTL

\* For any clients, texts and sizes, the m-th text a client reads is all of the
\* server's m-th reply and that reply answers the client's m-th text, with the
\* exception the code makes: ws_client.f90 takes a reply of more than 125 bytes
\* for a shorter one.
THEOREM RepliesMatchTexts == FairSpec => []EchoIntact
<1>1. ASSUME IInv PROVE EchoIntact
  <2> SUFFICES ASSUME NEW c \in Client, NEW m \in DOMAIN got[c]
               PROVE  LET u == downU[c][m + 1]
                      IN  /\ u.of = m + 1
                          /\ c \in CClient \/ u.len <= ShortMax => got[c][m] = <<Payload(u), End(u)>>
    BY DEF EchoIntact
  <2>1. got[c] \in Seq(Interval) /\ UnitsInv(c) /\ GotInv(c)
    BY <1>1 DEF IInv, StreamInv, Types, ClientInv
  <2>2. m \in 1..Len(got[c]) /\ m \in Nat
    BY <2>1
  <2>3. /\ m + 1 <= Len(downU[c])
        /\ (c \in CClient \/ downU[c][m + 1].len <= ShortMax) =>
              got[c][m] = <<Payload(downU[c][m + 1]), End(downU[c][m + 1])>>
    BY <2>1, <2>2 DEF GotInv
  <2>4. m + 1 \in 2..Len(downU[c])
    BY <2>1, <2>2, <2>3 DEF UnitsInv, Units
  <2>5. downU[c][m + 1].of = m + 1
    BY <2>1, <2>4 DEF UnitsInv
  <2> QED BY <2>3, <2>5
<1> QED BY <1>1, StreamsHold, PTL
=============================================================================
