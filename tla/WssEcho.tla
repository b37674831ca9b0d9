------------------------------ MODULE WssEcho ------------------------------
(***************************************************************************)
(* The WebSocket echo server of src/src/core/fortran/websoket_server       *)
(* (ws_serveur.f90, with wrappers/fortran/websocket.f90 over the blocking  *)
(* TLS wrapper wrappers/c/tls_wrapper.c) and the peers that talk to it:    *)
(* ws_client.f90, programs that use gfns_ws.c through gfns_ws.pbi, and     *)
(* peers that send an HTTP request with no WebSocket key.                  *)
(*                                                                         *)
(* Bytes are offsets in the stream of their direction, a TLS record is an  *)
(* interval <<a, b>> of them (the bytes a+1..b), and what was written is   *)
(* kept as units, so that a reader that is out of step reads bytes that    *)
(* are no header.  All sizes are those of the code.                        *)
(***************************************************************************)
EXTENDS Integers, Sequences

CONSTANTS FClient,  \* runs of ws_client.f90
          CClient,  \* programs that use gfns_ws.c
          HClient,  \* peers whose request has no Sec-WebSocket-Key
          FTexts, CTexts, \* texts they send: length and trailing blanks
          MaxMsgs,  \* bound: texts a C program sends
          MaxSsl,   \* MAX_SSL_CONNECTIONS
          NoClient

Client == FClient \cup CClient \cup HClient
Text == [len : Nat \ {0}, blanks : Nat]

ShortMax == 125    \* longest payload of the two byte header
BufLen == 8192     \* BUF_LEN of websocket.f90
ReqBuf == 4096     \* req(4096) of ws_serveur.f90
PbBuf == 4096      \* bufSize of gf_ws_recv_text
RespBuf == 512     \* buf[512] of ws_send_handshake
RecMax == 16384    \* payload of a TLS record
HttpLen == 130     \* a request or a response

\* ws_client.f90 sends short texts without trailing blanks only.  A text that
\* ws_recv_text accepts has a reply that fits its frame buffer: writing behind
\* that buffer is undefined.
ASSUME WssConstants ==
    /\ NoClient \notin Client /\ MaxMsgs \in Nat /\ MaxSsl \in Nat \ {0}
    /\ FTexts \subseteq Text /\ CTexts \subseteq Text
    /\ \A t \in FTexts : t.blanks = 0 /\ t.len <= ShortMax
    /\ \A t \in CTexts : t.blanks <= t.len
    /\ \A t \in CTexts : t.len > BufLen \/ 4 + 6 + t.len - t.blanks <= BufLen

VARIABLES
    sph,      \* where the server is
    cur,      \* the client it serves
    ssl_table,\* [slot -> the session's client]; a session has the name of its client
    srx,      \* the frame the server is reading
    backlog,  \* connections the kernel has accepted
    cph,      \* where a client is
    crx,      \* the frame a client is reading
    up, down, \* records on their way to the server and to the client
    upU, downU, \* what was written: HTTP heads and frames
    cend, send, \* the client's and the server's socket is closed
    read,     \* texts the server read, in order
    got       \* texts a client read, in order

server == <<sph, cur, ssl_table, srx, read>>
clients == <<cph, crx, got>>
streams == <<up, down, upU, downU, cend, send>>
vars == <<server, backlog, clients, streams>>

Slot == 0..(MaxSsl - 1)
NoFrame == [op |-> 0, masked |-> FALSE, ext |-> 0, len |-> 0]
Http(start, key) == [kind |-> "http", start |-> start, op |-> 0, ext |-> 0, mask |-> 0,
                     len |-> HttpLen, key |-> key, blanks |-> 0, of |-> 0]
Frame(start, op, ext, mask, len, blanks, of) ==
    [kind |-> "frame", start |-> start, op |-> op, ext |-> ext, mask |-> mask,
     len |-> len, key |-> FALSE, blanks |-> blanks, of |-> of]

Payload(u) == u.start + (IF u.kind = "frame" THEN 2 ELSE 0) + u.ext + u.mask
End(u) == Payload(u) + u.len
Written(us) == IF us = <<>> THEN 0 ELSE End(us[Len(us)])

Init ==
    /\ sph = "start" /\ cur = NoClient
    /\ ssl_table = [i \in Slot |-> NoClient]
    /\ srx = NoFrame /\ read = <<>> /\ backlog = <<>>
    /\ cph = [c \in Client |-> "start"] /\ crx = [c \in Client |-> NoFrame]
    /\ got = [c \in Client |-> <<>>]
    /\ up = [c \in Client |-> <<>>] /\ down = [c \in Client |-> <<>>]
    /\ upU = [c \in Client |-> <<>>] /\ downU = [c \in Client |-> <<>>]
    /\ cend = [c \in Client |-> FALSE] /\ send = [c \in Client |-> FALSE]

-----------------------------------------------------------------------------
(* The TLS connection, blocking: SSL_write cuts into records, SSL_read      *)
(* returns at most what is left of one record.                             *)

Lesser(a, b) == IF a < b THEN a ELSE b

Records(a, n) == [k \in 1..((n + RecMax - 1) \div RecMax) |->
                    <<a + (k - 1) * RecMax, Lesser(a + k * RecMax, a + n)>>]

Took(q, n) == <<q[1][1], Lesser(q[1][1] + n, q[1][2])>>
Rest(q, n) == IF Took(q, n) = q[1] THEN Tail(q) ELSE <<<<Took(q, n)[2], q[1][2]>>>> \o Tail(q)
Short(q, n) == Took(q, n)[2] - Took(q, n)[1] # n

\* Fault for the checks: the length field is taken for one of seven full bits.
ExtBytesLate(len) == IF len <= 127 THEN 0 ELSE IF len <= 65535 THEN 2 ELSE 8

\* Bytes of extended length a sender puts behind the first two.
ExtBytes(len) == IF len <= ShortMax THEN 0 ELSE IF len <= 65535 THEN 2 ELSE 8

\* The length field of the first two bytes, and the extended length a reader
\* looks for behind it.
Field7(u) == CASE u.ext = 0 -> u.len [] u.ext = 2 -> 126 [] u.ext = 8 -> 127
ExtWanted(l7) == CASE l7 = 126 -> 2 [] l7 = 127 -> 8 [] OTHER -> 0

\* What a header read at iv can hold: the fields of the frame that starts
\* there, anything if none does.
Headers(us, iv) ==
    LET F == {m \in DOMAIN us : us[m].kind = "frame" /\ us[m].start = iv[1]}
    IN  IF F # {} THEN {[op |-> us[m].op, masked |-> us[m].mask > 0,
                         ext |-> ExtWanted(Field7(us[m])), len |-> Field7(us[m])] : m \in F}
        ELSE [op : {1, 8}, masked : BOOLEAN, ext : {0, 2}, len : {100}]

Lengths(us, iv) ==
    LET F == {m \in DOMAIN us : us[m].ext > 0 /\ iv = <<us[m].start + 2, us[m].start + 2 + us[m].ext>>}
    IN  IF F # {} THEN {us[m].len : m \in F} ELSE {100}

-----------------------------------------------------------------------------
(* The server *)

\* tls_init_server, tls_listen(4433): the program stops if that fails.
Listen ==
    /\ sph = "start"
    /\ sph' \in {"accept", "stopped"}
    /\ UNCHANGED <<cur, ssl_table, srx, read, backlog, clients, streams>>

\* ssl_table_add: the first free entry.
Free(i) == ssl_table[i] = NoClient /\ \A j \in Slot : j < i => ssl_table[j] # NoClient

\* tls_accept: accept(), SSL_accept() with a client that is still there, and the
\* session in the table.
TlsAccept ==
    /\ sph = "accept" /\ backlog # <<>>
    /\ LET c == Head(backlog)
       IN  /\ ~cend[c]
           /\ \E i \in Slot : Free(i) /\ ssl_table' = [ssl_table EXCEPT ![i] = c]
           /\ cur' = c /\ cph' = [cph EXCEPT ![c] = "tls"]
    /\ sph' = "upgrade"
    /\ backlog' = Tail(backlog)
    /\ UNCHANGED <<srx, read, crx, got, streams>>

\* tls_accept returns -2 to -4 (no context, no memory, the handshake fails) or,
\* with the table full, -5: the socket is closed and the program goes on.
TlsAcceptFails ==
    /\ sph = "accept" /\ backlog # <<>>
    /\ send' = [send EXCEPT ![Head(backlog)] = TRUE]
    /\ backlog' = Tail(backlog)
    /\ UNCHANGED <<server, clients, up, down, upU, downU, cend>>

\* Fault for the checks: the entry stays behind when the session is freed.
TlsCloseKeeps ==
    /\ UNCHANGED ssl_table
    /\ send' = [send EXCEPT ![cur] = TRUE]
    /\ cur' = NoClient /\ sph' = "accept" /\ srx' = NoFrame /\ read' = <<>>

\* tls_close(client_sock): the session is shut down, freed and taken out of the
\* table, the socket closed; then the next tls_accept.
TlsClose ==
    /\ ssl_table' = [i \in Slot |-> IF ssl_table[i] = cur THEN NoClient ELSE ssl_table[i]]
    /\ send' = [send EXCEPT ![cur] = TRUE]
    /\ cur' = NoClient /\ sph' = "accept" /\ srx' = NoFrame /\ read' = <<>>

\* tls_recv fails: the peer is gone.
ServerReadFails ==
    /\ sph \in {"upgrade", "header", "ext", "mask", "payload"}
    /\ cend[cur] /\ up[cur] = <<>>
    /\ TlsClose
    /\ UNCHANGED <<backlog, clients, up, down, upU, downU, cend>>

\* ws_accept_handshake, ws_handle_upgrade: one tls_recv, and the 101 response if
\* the request has a key; to a peer that is gone it may fail.
Upgrade ==
    /\ sph = "upgrade" /\ up[cur] # <<>>
    /\ up' = [up EXCEPT ![cur] = Rest(up[cur], ReqBuf)]
    /\ \/ /\ upU[cur][1].key
          /\ sph' = "header"
          /\ downU' = [downU EXCEPT ![cur] = <<Http(0, FALSE)>>]
          /\ down' = [down EXCEPT ![cur] = Records(0, HttpLen)]
          /\ UNCHANGED <<cur, ssl_table, srx, read, send>>
       \/ /\ ~upU[cur][1].key \/ cend[cur]
          /\ TlsClose /\ UNCHANGED <<down, downU>>
    /\ UNCHANGED <<backlog, clients, upU, cend>>

\* The bytes ws_recv_text asks for, and the field behind.
Want == CASE sph = "header" -> 2 [] sph = "ext" -> srx.ext
          [] sph = "mask" -> 4 [] sph = "payload" -> srx.len

\* ws_recv_text checks the length when all of the header is read; the empty
\* frame is not modelled.
AfterHead(r) == IF r.len \in 1..BufLen THEN "payload" ELSE "refused"
AfterLength(r) == IF r.masked THEN "mask" ELSE AfterHead(r)

\* Fault for the checks: a masked frame's key is taken for payload.
FieldBehindNoMask(r) ==
    CASE sph = "header" -> IF r.op = 8 THEN "refused"
                           ELSE IF r.ext > 0 THEN "ext" ELSE AfterHead(r)
      [] sph = "ext" -> AfterHead(r)
      [] sph = "payload" -> "echo"

FieldBehind(r) ==
    CASE sph = "header" -> IF r.op = 8 THEN "refused"
                           ELSE IF r.ext > 0 THEN "ext" ELSE AfterLength(r)
      [] sph = "ext" -> AfterLength(r)
      [] sph = "mask" -> AfterHead(r)
      [] sph = "payload" -> "echo"

\* What the field read at iv makes of the frame.
Decoded(iv) ==
    CASE sph = "header" -> Headers(upU[cur], iv)
      [] sph = "ext" -> {[srx EXCEPT !.len = n] : n \in Lengths(upU[cur], iv)}
      [] OTHER -> {srx}

\* One ws_recv_raw of ws_recv_text.  It returns .false. for a close frame, a
\* length out of bounds and a read that is short, and the session ends.
ServerReads ==
    /\ sph \in {"header", "ext", "mask", "payload"} /\ up[cur] # <<>>
    /\ LET q == up[cur]
           iv == Took(q, Want)
       IN  /\ up' = [up EXCEPT ![cur] = Rest(q, Want)]
           /\ \E r \in Decoded(iv) :
                IF Short(q, Want) \/ FieldBehind(r) = "refused"
                THEN TlsClose
                ELSE /\ sph' = FieldBehind(r)
                     /\ srx' = r
                     /\ read' = IF sph = "payload" THEN Append(read, iv) ELSE read
                     /\ UNCHANGED <<cur, ssl_table, send>>
    /\ UNCHANGED <<backlog, clients, down, upU, downU, cend>>

\* The frame whose payload is iv; its text without the trailing blanks.
FrameOf(us, iv) == CHOOSE m \in 0..Len(us) :
                      IF \E k \in DOMAIN us : iv = <<Payload(us[k]), End(us[k])>>
                      THEN m > 0 /\ iv = <<Payload(us[m]), End(us[m])>>
                      ELSE m = 0

\* Trailing blanks of "echo: " // trim(payload) are not sent.
EchoLen(n, blanks) == IF n = blanks THEN 5 ELSE 6 + n - blanks

\* ws_send_text(client_sock, "echo: " // trim(payload)): one tls_send, whose
\* result is not looked at.
Echo ==
    /\ sph = "echo"
    /\ LET m == FrameOf(upU[cur], read[Len(read)])
           n == EchoLen(srx.len, IF m = 0 THEN 0 ELSE upU[cur][m].blanks)
           u == Frame(Written(downU[cur]), 1, ExtBytes(n), 0, n, 0, m)
       IN  /\ downU' = [downU EXCEPT ![cur] = Append(@, u)]
           /\ down' = [down EXCEPT ![cur] = @ \o Records(u.start, End(u) - u.start)]
    /\ sph' = "header" /\ srx' = NoFrame
    /\ UNCHANGED <<cur, ssl_table, read, backlog, clients, up, upU, cend, send>>

-----------------------------------------------------------------------------
(* The clients *)

Goes(c, p) == cph' = [cph EXCEPT ![c] = p]

\* tls_connect, gfns_tls_connect: the kernel completes the connection when the
\* server listens.
Connect(c) ==
    /\ cph[c] = "start"
    /\ IF sph \in {"start", "stopped"}
       THEN Goes(c, "failed") /\ UNCHANGED backlog
       ELSE Goes(c, "connecting") /\ backlog' = Append(backlog, c)
    /\ UNCHANGED <<server, crx, got, streams>>

Write(c, u, from, n) ==
    /\ upU' = [upU EXCEPT ![c] = IF from = u.start THEN Append(@, u) ELSE @]
    /\ up' = [up EXCEPT ![c] = @ \o Records(from, n)]
    /\ UNCHANGED <<down, downU, cend, send>>

SendRequest(c) ==
    /\ cph[c] = "tls"
    /\ Write(c, Http(0, c \notin HClient), 0, HttpLen)
    /\ Goes(c, "await101")
    /\ UNCHANGED <<server, backlog, crx, got>>

\* ws_client.f90 reads up to 4096 bytes, ws_send_handshake up to 512; neither
\* looks at them.
ReadResponse(c) ==
    /\ cph[c] = "await101" /\ down[c] # <<>>
    /\ down' = [down EXCEPT ![c] = Rest(down[c], RespBuf)]
    /\ Goes(c, "open")
    /\ UNCHANGED <<server, backlog, crx, got, up, upU, downU, cend, send>>

\* ws_send_frame of ws_client.f90: header, key and payload in one tls_send.
FSends(c) ==
    /\ c \in FClient /\ cph[c] = "open"
    /\ \E t \in FTexts :
        LET u == Frame(Written(upU[c]), 1, 0, 4, t.len, 0, 0)
        IN  Write(c, u, u.start, End(u) - u.start)
    /\ Goes(c, "header")
    /\ UNCHANGED <<server, backlog, crx, got>>

\* gf_ws_send_text, ws_send_frame of gfns_ws.c: the header in one write ...
CSendsHeader(c) ==
    /\ c \in CClient /\ cph[c] = "open" /\ Len(upU[c]) <= MaxMsgs
    /\ \E t \in CTexts :
        LET u == Frame(Written(upU[c]), 1, ExtBytes(t.len), 4, t.len, t.blanks, 0)
        IN  Write(c, u, u.start, Payload(u) - u.start)
    /\ Goes(c, "sending")
    /\ UNCHANGED <<server, backlog, crx, got>>

\* ... and the payload in another; then gf_ws_recv_text.
CSendsPayload(c) ==
    /\ cph[c] = "sending"
    /\ LET u == upU[c][Len(upU[c])] IN Write(c, u, Payload(u), u.len)
    /\ Goes(c, "header")
    /\ UNCHANGED <<server, backlog, crx, got>>

\* Fault for the checks: no close frame, as if the socket were closed as well.
CClosesSilently(c) ==
    /\ c \in CClient /\ cph[c] = "open"
    /\ Goes(c, "done")
    /\ UNCHANGED <<server, backlog, crx, got, streams>>

\* gf_ws_close: a close frame, and no close() of the socket.
CCloses(c) ==
    /\ c \in CClient /\ cph[c] = "open"
    /\ LET u == Frame(Written(upU[c]), 8, 0, 4, 0, 0, 0)
       IN  Write(c, u, u.start, End(u) - u.start)
    /\ Goes(c, "done")
    /\ UNCHANGED <<server, backlog, crx, got>>

CWant(c) == CASE cph[c] = "header" -> 2 [] cph[c] = "ext" -> crx[c].ext
              [] cph[c] = "payload" -> crx[c].len

\* gfns_ws_recv reads an extended length, ws_recv_frame of ws_client.f90 takes
\* the second byte for the length.
CFieldBehind(c, r) ==
    CASE cph[c] = "header" /\ c \in CClient /\ r.ext > 0 -> "ext"
      [] cph[c] = "payload" -> "read"
      [] OTHER -> IF c \in CClient /\ r.len > PbBuf THEN "refused" ELSE "payload"

CDecoded(c, iv) ==
    CASE cph[c] = "header" -> Headers(downU[c], iv)
      [] cph[c] = "ext" -> {[crx[c] EXCEPT !.len = n] : n \in Lengths(downU[c], iv)}
      [] OTHER -> {crx[c]}

\* ws_client.f90 closes behind its only message, a C program goes on.
AfterRecv(c) == IF c \in FClient THEN "close" ELSE "open"

\* One read of gfns_ws_recv or of ws_recv_frame.
ClientReads(c) ==
    /\ cph[c] \in {"header", "ext", "payload"} /\ down[c] # <<>>
    /\ LET q == down[c]
           iv == Took(q, CWant(c))
       IN  /\ down' = [down EXCEPT ![c] = Rest(q, CWant(c))]
           /\ \E r \in CDecoded(c, iv) :
                /\ crx' = [crx EXCEPT ![c] = r]
                /\ IF Short(q, CWant(c)) \/ CFieldBehind(c, r) = "refused"
                   THEN Goes(c, "close") /\ UNCHANGED got
                   ELSE IF CFieldBehind(c, r) = "read"
                   THEN Goes(c, AfterRecv(c)) /\ got' = [got EXCEPT ![c] = Append(@, iv)]
                   ELSE Goes(c, CFieldBehind(c, r)) /\ UNCHANGED got
    /\ UNCHANGED <<server, backlog, up, upU, downU, cend, send>>

\* A read of a connection the server has closed; SSL_connect too.
ClientReadFails(c) ==
    /\ send[c] /\ down[c] = <<>>
    /\ \/ cph[c] \in {"connecting", "await101"} /\ Goes(c, "failed")
       \/ cph[c] \in {"header", "ext", "payload"} /\ Goes(c, "close")
    /\ UNCHANGED <<server, backlog, crx, got, streams>>

\* tls_close at the end of ws_client.f90, gf_ws_close behind a failure.
Closes(c) ==
    /\ cph[c] = "close"
    /\ IF c \in FClient
       THEN cend' = [cend EXCEPT ![c] = TRUE] /\ UNCHANGED <<up, down, upU, downU, send>>
       ELSE LET u == Frame(Written(upU[c]), 8, 0, 4, 0, 0, 0)
            IN  Write(c, u, u.start, End(u) - u.start)
    /\ Goes(c, "done")
    /\ UNCHANGED <<server, backlog, crx, got>>

\* A client program breaks off at any point; what it sent may be lost with a reset.
BreaksOff(c) ==
    /\ cph[c] \notin {"start", "done", "failed", "gone"}
    /\ Goes(c, "gone")
    /\ cend' = [cend EXCEPT ![c] = TRUE]
    /\ \/ UNCHANGED up
       \/ up' = [up EXCEPT ![c] = <<>>]
    /\ UNCHANGED <<server, backlog, crx, got, down, upU, downU, send>>

-----------------------------------------------------------------------------
Server == Listen \/ TlsAccept \/ TlsAcceptFails \/ ServerReadFails \/ Upgrade \/ ServerReads \/ Echo

ClientStep(c) ==
    \/ SendRequest(c) \/ ReadResponse(c) \/ FSends(c) \/ CSendsHeader(c) \/ CSendsPayload(c)
    \/ CCloses(c) \/ ClientReads(c) \/ ClientReadFails(c) \/ Closes(c)

Next == Server \/ \E c \in Client : Connect(c) \/ ClientStep(c) \/ BreaksOff(c)

\* The programs run on; the C ones close after at most MaxMsgs texts.
FairSpec ==
    /\ Init /\ [][Next]_vars
    /\ WF_vars(Server)
    /\ \A c \in Client : WF_vars(ClientStep(c))

-----------------------------------------------------------------------------
(* Properties *)

TypeOK ==
    /\ sph \in {"start", "stopped", "accept", "upgrade", "header", "ext", "mask", "payload", "echo"}
    /\ cur \in Client \cup {NoClient} /\ (cur = NoClient <=> sph \in {"start", "stopped", "accept"})
    /\ ssl_table \in [Slot -> Client \cup {NoClient}]
    /\ backlog \in Seq(Client)
    /\ cph \in [Client -> {"start", "connecting", "tls", "await101", "open", "sending", "header",
                            "ext", "payload", "close", "done", "failed", "gone"}]
    /\ cend \in [Client -> BOOLEAN] /\ send \in [Client -> BOOLEAN]
    /\ \A c \in Client : \A k \in DOMAIN up[c] : up[c][k][1] < up[c][k][2]

\* Whatever records header, key and payload travel in, ws_recv_text looks for a
\* header only where a frame begins: a read that is cut short ends the session.
InStep ==
    (sph = "header" /\ up[cur] # <<>>) =>
        \E m \in DOMAIN upU[cur] : upU[cur][m].kind = "frame" /\ upU[cur][m].start = up[cur][1][1]

\* The m-th text a client read is all of the server's m-th reply, and that
\* reply answers its m-th text.  ws_client.f90 knows no extended length, so
\* this holds for it up to a reply of 125 bytes, its own text one of 119.
EchoIntact ==
    \A c \in Client : \A m \in DOMAIN got[c] :
        LET u == downU[c][m + 1]
        IN  /\ u.of = m + 1
            /\ c \in CClient \/ u.len <= ShortMax => got[c][m] = <<Payload(u), End(u)>>

\* The table holds the session of the client being served and no other, so that
\* tls_send and tls_recv never take the plain socket and a descriptor number
\* used again finds no stale session.
TableMatches ==
    \A c \in Client : (\E i \in Slot : ssl_table[i] = c) <=> (c = cur)

\* One client at a time and blocking calls on both sides, but nobody waits for
\* ever: who has connected is served, refused, or has ended by itself.
EveryClientFinishes ==
    \A c \in Client : cph[c] = "connecting" ~> cph[c] \in {"done", "failed", "gone"}
=============================================================================
