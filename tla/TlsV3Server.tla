---------------------------- MODULE TlsV3Server ----------------------------
(***************************************************************************)
(* The BearSSL server of src/src/wrappers/c/tls_wrapper_v3.c: the client   *)
(* table, the loop of tlsv2_server_run in its select() and its WSAPoll()   *)
(* form, and the record engine each client has between the socket and the  *)
(* JSON buffers.                                                           *)
(*                                                                         *)
(* A frame from the peer is one record and a count, as in TlsV2Server.     *)
(* The other direction is kept in bytes, because it matters here where     *)
(* they are: in out_buf, in the record the engine is filling (held), in a  *)
(* record ready to be sent (rec), or with the peer.                        *)
(***************************************************************************)
EXTENDS Integers, FiniteSets

CONSTANTS MaxClients,  \* TLSV2_MAX_CLIENTS
          Hdr,         \* bytes of the length prefix, 4 in the code
          SendLens,    \* lengths of the application's messages
          Frag,        \* plaintext bytes the engine puts in a record
          Fd, Conn, NoFd, NoConn,
          Windows,     \* the WSAPoll() loop is compiled in
          MaxMsgs,     \* bound: messages one peer sends
          MaxSends     \* bound: messages the application gets queued

ASSUME ServerConstants ==
    /\ MaxClients \in Nat \ {0}
    /\ Hdr \in Nat \ {0} /\ SendLens \subseteq Nat /\ Frag \in Nat \ {0}
    /\ NoFd \notin Fd /\ NoConn \notin Conn
    /\ Windows \in BOOLEAN
    /\ MaxMsgs \in Nat /\ MaxSends \in Nat

VARIABLES
    \* the network and the kernel
    link,      \* how far the peer is in the handshake
    end,       \* how the connection ended, "no" while it has not
    pending,   \* frames of a connection not yet read
    room,      \* the socket's send buffer has room
    arrived,   \* bytes of the application's messages the peer got
    backlog,   \* connections waiting in the listen queue
    sock,      \* the connection an open descriptor stands for
    again,     \* errno (WSAGetLastError) says "would block"
    \* g_clients[]
    fd, state,
    engine,    \* mode of the record engine
    plain,     \* the decrypted frame the engine holds
    out,       \* out_used - out_sent
    held, rec, \* plaintext bytes in the open and in the finished record
    \* the loop of tlsv2_server_run
    pc, cur, ready,
    report,    \* WSAPoll: revents by position in fds[]
    idx,       \* WSAPoll: position of the current client
    \* the application
    cb, session, received, sends,
    accepted   \* bytes it got queued for a connection, prefixes included

netVars == <<link, end, pending, room, arrived, backlog>>
bufVars == <<engine, plain, out, held, rec>>
tableVars == <<sock, fd, state, bufVars>>
loopVars == <<pc, cur, ready, report, idx>>
appVars == <<session, received, sends, accepted>>
vars == <<netVars, again, tableVars, loopVars, cb, appVars>>

Slot == 0..(MaxClients - 1)
Active(i) == state[i] # "UNUSED"
ConnOf(i) == sock[fd[i]]

\* How a peer ends a connection: a close_notify, a record the engine refuses
\* (TLSV2_IOBUF_SIZE is less than a full record needs), a frame longer than
\* TLSV2_MAX_JSON_SIZE, the bare end of the stream, a reset.
PeerEnds == {"notify", "refused", "oversize", "eof", "reset"}
PCs == {"stopped", "poll", "accept", "scan", "recv", "send", "open",
        "plain", "write", "last"}

TypeOK ==
    /\ link \in [Conn -> {"new", "hello", "flight", "ready"}]
    /\ end \in [Conn -> {"no", "dropped"} \cup PeerEnds] /\ pending \in [Conn -> Nat]
    /\ room \in [Conn -> BOOLEAN] /\ arrived \in [Conn -> Nat]
    /\ backlog \in SUBSET Conn
    /\ again \in BOOLEAN
    /\ sock \in [Fd -> Conn \cup {NoConn}]
    /\ fd \in [Slot -> Fd \cup {NoFd}]
    /\ state \in [Slot -> {"UNUSED", "HANDSHAKE", "OPEN"}]
    /\ engine \in [Slot -> {"handshake", "app", "closing", "closed"}]
    /\ plain \in [Slot -> {"none", "frame", "oversize"}] /\ out \in [Slot -> Nat]
    /\ held \in [Slot -> 0..(Frag - 1)] /\ rec \in [Slot -> 0..Frag]
    /\ pc \in PCs /\ cur \in 0..MaxClients
    /\ ready \in SUBSET Fd
    /\ report \in [1..MaxClients -> {"yes", "no", "junk"}]
    /\ idx \in 1..(MaxClients + 1)
    /\ cb \in {"none", "connected", "disconnected", "json"}
    /\ session \in [Fd -> Conn \cup {NoConn}]
    /\ received \in [Conn -> Nat] /\ sends \in Nat /\ accepted \in [Conn -> Nat]

-----------------------------------------------------------------------------
(* g_clients[] *)

Init ==
    /\ link = [c \in Conn |-> "new"] /\ end = [c \in Conn |-> "no"]
    /\ pending = [c \in Conn |-> 0] /\ room = [c \in Conn |-> TRUE]
    /\ arrived = [c \in Conn |-> 0]
    /\ backlog = {} /\ again = FALSE
    /\ sock = [f \in Fd |-> NoConn]
    /\ fd = [i \in Slot |-> NoFd] /\ state = [i \in Slot |-> "UNUSED"]
    /\ engine = [i \in Slot |-> "handshake"] /\ plain = [i \in Slot |-> "none"]
    /\ out = [i \in Slot |-> 0] /\ held = [i \in Slot |-> 0]
    /\ rec = [i \in Slot |-> 0]
    /\ pc = "stopped" /\ cur = 0 /\ ready = {}
    /\ report = [k \in 1..MaxClients |-> "junk"] /\ idx = 1
    /\ cb = "none"
    /\ session = [f \in Fd |-> NoConn] /\ received = [c \in Conn |-> 0]
    /\ sends = 0 /\ accepted = [c \in Conn |-> 0]

\* Fault for the checks: the counters of the last client stay in the entry.
ClientAllocStale(i, f) ==
    /\ fd' = [fd EXCEPT ![i] = f]
    /\ state' = [state EXCEPT ![i] = "HANDSHAKE"]
    /\ engine' = [engine EXCEPT ![i] = "handshake"]
    /\ plain' = [plain EXCEPT ![i] = "none"]
    /\ held' = [held EXCEPT ![i] = 0]
    /\ rec' = [rec EXCEPT ![i] = 0]
    /\ UNCHANGED out

\* tlsv2_client_alloc: the first UNUSED entry, its buffers emptied and its
\* engine reset.
FirstUnused(i) == ~Active(i) /\ \A j \in Slot : j < i => Active(j)

ClientAlloc(i, f) ==
    /\ fd' = [fd EXCEPT ![i] = f]
    /\ state' = [state EXCEPT ![i] = "HANDSHAKE"]
    /\ engine' = [engine EXCEPT ![i] = "handshake"]
    /\ plain' = [plain EXCEPT ![i] = "none"]
    /\ out' = [out EXCEPT ![i] = 0]
    /\ held' = [held EXCEPT ![i] = 0]
    /\ rec' = [rec EXCEPT ![i] = 0]

\* Fault for the checks: the descriptor is forgotten, not closed.
ClientCloseLeaks(i) ==
    /\ end' = [end EXCEPT ![ConnOf(i)] = "dropped"]
    /\ fd' = [fd EXCEPT ![i] = NoFd]
    /\ state' = [state EXCEPT ![i] = "UNUSED"]
    /\ session' = [session EXCEPT ![fd[i]] = NoConn]
    /\ cb' = "disconnected"
    /\ UNCHANGED sock

\* tlsv2_client_close: no close_notify, and only fd and state are reset.
ClientClose(i) ==
    /\ end' = [end EXCEPT ![ConnOf(i)] = "dropped"]
    /\ sock' = [sock EXCEPT ![fd[i]] = NoConn]
    /\ fd' = [fd EXCEPT ![i] = NoFd]
    /\ state' = [state EXCEPT ![i] = "UNUSED"]
    /\ session' = [session EXCEPT ![fd[i]] = NoConn]
    /\ cb' = "disconnected"

KeepsClient == UNCHANGED <<end, sock, fd, state, session, cb>>

-----------------------------------------------------------------------------
(* The loop *)

\* The keys are loaded, the table is emptied and the socket listens.
StartServer ==
    /\ pc = "stopped"
    /\ fd' = [i \in Slot |-> NoFd] /\ state' = [i \in Slot |-> "UNUSED"]
    /\ out' = [i \in Slot |-> 0]
    /\ pc' = "poll"
    /\ UNCHANGED <<netVars, again, sock, engine, plain, held, rec, cur, ready,
                   report, idx, cb, appVars>>

\* What a read on entry i meets: a reset overtakes everything else, the rest
\* comes in the order it was sent.
NextInput(i) ==
    LET c == ConnOf(i) IN
    CASE end[c] = "reset" -> "reset"
      [] engine[i] = "handshake" /\ link[c] = "hello" -> "hello"
      [] engine[i] = "handshake" /\ link[c] = "ready" -> "finished"
      [] engine[i] = "app" /\ pending[c] > 0 -> "frame"
      [] OTHER -> end[c]

Polled(i) ==
    /\ Active(i)
    /\ \/ NextInput(i) # "no" \/ engine[i] = "closed"
       \/ room[ConnOf(i)] \/ end[ConnOf(i)] = "reset"

\* Entry i is the k-th active one.
IsNth(i, k) == Active(i) /\ Cardinality({j \in Slot : j <= i /\ Active(j)}) = k

\* select() and WSAPoll() wait for input and for room in the send buffer.  The
\* entries of fds[] behind the last client are not initialised.
PollReturns ==
    /\ pc = "poll" /\ cb = "none"
    /\ backlog # {} \/ \E i \in Slot : Polled(i)
    /\ ready' = IF Windows THEN {} ELSE {fd[i] : i \in {j \in Slot : Polled(j)}}
    /\ report' = [k \in 1..MaxClients |->
                    IF ~Windows \/ ~\E i \in Slot : IsNth(i, k) THEN "junk"
                    ELSE IF \E i \in Slot : IsNth(i, k) /\ Polled(i) THEN "yes"
                    ELSE "no"]
    /\ idx' = 1 /\ cur' = 0
    /\ pc' = IF backlog # {} THEN "accept" ELSE "scan"
    /\ UNCHANGED <<netVars, again, tableVars, cb, appVars>>

\* An error of select() restarts the loop, whatever it is.
PollFails ==
    /\ pc = "poll" /\ cb = "none"
    /\ again' = FALSE
    /\ UNCHANGED <<netVars, tableVars, loopVars, cb, appVars>>

\* tlsv2_accept_new_client, one turn of its loop: a new client ...
AcceptClient ==
    /\ pc = "accept" /\ cb = "none"
    /\ \E c \in backlog, f \in Fd, i \in Slot :
        /\ sock[f] = NoConn
        /\ FirstUnused(i)
        /\ backlog' = backlog \ {c}
        /\ sock' = [sock EXCEPT ![f] = c]
        /\ ClientAlloc(i, f)
        /\ session' = [session EXCEPT ![f] = c]
        /\ cb' = "connected"
    /\ UNCHANGED <<link, end, pending, room, arrived, again, loopVars,
                   received, sends, accepted>>

\* Fault for the checks: the application is told of one that is turned away.
AcceptDropsTold ==
    /\ pc = "accept" /\ cb = "none"
    /\ \E c \in backlog, f \in Fd :
        /\ sock[f] = NoConn
        /\ backlog' = backlog \ {c}
        /\ end' = [end EXCEPT ![c] = "dropped"]
        /\ session' = [session EXCEPT ![f] = c]
    /\ cb' = "connected"
    /\ UNCHANGED <<link, pending, room, arrived, again, tableVars, loopVars,
                   received, sends, accepted>>

\* ... one turned away, because the table is full or fcntl() failed ...
AcceptDrops ==
    /\ pc = "accept" /\ cb = "none"
    /\ \E f \in Fd : sock[f] = NoConn
    /\ \E c \in backlog : /\ backlog' = backlog \ {c}
                          /\ end' = [end EXCEPT ![c] = "dropped"]
    /\ UNCHANGED <<link, pending, room, arrived, again, tableVars, loopVars,
                   cb, appVars>>

\* ... or none: the queue is empty, or accept() failed.
AcceptEnds ==
    /\ pc = "accept" /\ cb = "none"
    /\ pc' = "scan"
    /\ again' \in {backlog = {}, FALSE}
    /\ UNCHANGED <<netVars, tableVars, cur, ready, report, idx, cb, appVars>>

\* Whether the scan finds entry i reported: by descriptor, or by position.
Reported(i) ==
    IF ~Windows THEN {fd[i] \in ready}
    ELSE CASE report[idx] = "yes" -> {TRUE}
           [] report[idx] = "no" -> {FALSE}
           [] report[idx] = "junk" -> BOOLEAN

NextSlot ==
    /\ pc' = "scan" /\ cur' = cur + 1
    /\ idx' = IF Windows THEN idx + 1 ELSE idx
    /\ UNCHANGED <<ready, report>>

ScanSkips ==
    /\ pc = "scan" /\ cb = "none" /\ cur < MaxClients
    /\ \/ ~Active(cur) /\ pc' = "scan" /\ cur' = cur + 1 /\ UNCHANGED <<ready, report, idx>>
       \/ Active(cur) /\ FALSE \in Reported(cur) /\ NextSlot
    /\ UNCHANGED <<netVars, again, tableVars, cb, appVars>>

ScanEnds ==
    /\ pc = "scan" /\ cb = "none" /\ cur = MaxClients
    /\ pc' = "poll" /\ cur' = 0 /\ ready' = {} /\ idx' = 1
    /\ report' = [k \in 1..MaxClients |-> "junk"]
    /\ UNCHANGED <<netVars, again, tableVars, cb, appVars>>

-----------------------------------------------------------------------------
(* tlsv2_handle_client: first tlsv2_engine_recv ... *)

Handling ==
    /\ cb = "none"
    /\ \/ pc = "recv"
       \/ pc = "scan" /\ cur < MaxClients /\ Active(cur) /\ TRUE \in Reported(cur)
Goto(p) == pc' = p /\ UNCHANGED <<cur, ready, report, idx>>

\* BR_SSL_RECVREC, BR_SSL_SENDREC.
TakesRecords(i) == engine[i] \in {"handshake", "app"}
HasRecord(i) == engine[i] = "closing" \/ (engine[i] = "app" /\ rec[i] > 0)

AfterRecv == Goto(IF HasRecord(cur) THEN "send" ELSE "open")

\* The engine takes no more records, or the socket would block.
RecvNothing ==
    /\ Handling
    /\ ~TakesRecords(cur) \/ NextInput(cur) = "no"
    /\ again' = IF TakesRecords(cur) THEN TRUE ELSE again
    /\ AfterRecv
    /\ UNCHANGED <<netVars, tableVars, cb, appVars>>

\* A ClientHello is answered; the client's last message completes the
\* handshake; either way the next read would block or finds a frame.
RecvHandshake ==
    /\ Handling /\ engine[cur] = "handshake"
    /\ \/ /\ NextInput(cur) = "hello"
          /\ link' = [link EXCEPT ![ConnOf(cur)] = "flight"]
          /\ again' = TRUE
          /\ AfterRecv
          /\ UNCHANGED engine
       \/ /\ NextInput(cur) = "finished"
          /\ engine' = [engine EXCEPT ![cur] = "app"]
          /\ Goto("recv")
          /\ UNCHANGED <<link, again>>
    /\ UNCHANGED <<end, pending, room, arrived, backlog, sock, fd, state, plain,
                   out, held, rec, cb, appVars>>

\* One record is decrypted; the engine takes the next one only when the frame
\* in it was read.
RecvRecord ==
    /\ Handling /\ engine[cur] = "app"
    /\ \/ /\ NextInput(cur) = "frame"
          /\ plain' = [plain EXCEPT ![cur] = "frame"]
          /\ pending' = [pending EXCEPT ![ConnOf(cur)] = @ - 1]
       \/ /\ NextInput(cur) = "oversize"
          /\ plain' = [plain EXCEPT ![cur] = "oversize"]
          /\ UNCHANGED pending
    /\ AfterRecv
    /\ UNCHANGED <<link, end, room, arrived, backlog, again, sock, fd, state,
                   engine, out, held, rec, cb, appVars>>

\* A record it refuses closes the engine at once.  On a close_notify it takes
\* nothing more, seals the open record and has a close_notify to send behind it.
RecvCloses ==
    /\ Handling /\ TakesRecords(cur)
    /\ \/ /\ NextInput(cur) = "refused"
          /\ engine' = [engine EXCEPT ![cur] = "closed"]
          /\ Goto("open")
          /\ UNCHANGED <<held, rec>>
       \/ /\ NextInput(cur) = "notify"
          /\ engine' = [engine EXCEPT ![cur] = "closing"]
          /\ rec' = [rec EXCEPT ![cur] = @ + held[cur]]
          /\ held' = [held EXCEPT ![cur] = 0]
          /\ Goto("send")
    /\ UNCHANGED <<netVars, again, sock, fd, state, plain, out, cb, appVars>>

\* Fault for the checks: a reset is taken for "would block" too.
RecvFailsNever ==
    /\ Handling /\ TakesRecords(cur)
    /\ NextInput(cur) \in {"eof", "reset"}
    /\ KeepsClient /\ AfterRecv
    /\ UNCHANGED <<link, pending, room, arrived, backlog, again, bufVars,
                   received, sends, accepted>>

\* read() returns 0 at the end of the stream and leaves errno as it was: it
\* is an error only if errno does not happen to say "would block".
RecvFails ==
    /\ Handling /\ TakesRecords(cur)
    /\ NextInput(cur) \in {"eof", "reset"}
    /\ again' = (again /\ NextInput(cur) = "eof")
    /\ IF again' THEN KeepsClient /\ AfterRecv
                 ELSE ClientClose(cur) /\ NextSlot
    /\ UNCHANGED <<link, pending, room, arrived, backlog, bufVars,
                   received, sends, accepted>>

\* ... then tlsv2_engine_send, if there is a record to send; it is also the
\* last thing the handler does ...
AfterSend == IF pc = "send" THEN Goto("open") ELSE NextSlot

SendNothing ==
    /\ pc \in {"send", "last"} /\ cb = "none"
    /\ \/ ~HasRecord(cur) /\ again' = again
       \/ /\ HasRecord(cur)
          /\ ~room[ConnOf(cur)] /\ end[ConnOf(cur)] # "reset"
          /\ again' = TRUE
    /\ AfterSend
    /\ UNCHANGED <<netVars, tableVars, cb, appVars>>

\* A record of the application; the loop looks whether there is another.
SendRecord ==
    /\ pc \in {"send", "last"} /\ cb = "none"
    /\ rec[cur] > 0 /\ HasRecord(cur)
    /\ room[ConnOf(cur)] /\ end[ConnOf(cur)] # "reset"
    /\ arrived' = [arrived EXCEPT ![ConnOf(cur)] = @ + rec[cur]]
    /\ rec' = [rec EXCEPT ![cur] = 0]
    /\ \E b \in BOOLEAN : room' = [room EXCEPT ![ConnOf(cur)] = b]
    /\ UNCHANGED <<link, end, pending, backlog, again, sock, fd, state, engine,
                   plain, out, held, loopVars, cb, appVars>>

\* The close_notify behind the last one; then the engine is closed.
SendNotify ==
    /\ pc \in {"send", "last"} /\ cb = "none"
    /\ engine[cur] = "closing" /\ rec[cur] = 0
    /\ room[ConnOf(cur)] /\ end[ConnOf(cur)] # "reset"
    /\ engine' = [engine EXCEPT ![cur] = "closed"]
    /\ \E b \in BOOLEAN : room' = [room EXCEPT ![ConnOf(cur)] = b]
    /\ AfterSend
    /\ UNCHANGED <<link, end, pending, arrived, backlog, again, sock, fd, state,
                   plain, out, held, rec, cb, appVars>>

SendFails ==
    /\ pc \in {"send", "last"} /\ cb = "none"
    /\ HasRecord(cur) /\ end[ConnOf(cur)] = "reset"
    /\ ClientClose(cur) /\ NextSlot
    /\ again' = FALSE
    /\ UNCHANGED <<link, pending, room, arrived, backlog, bufVars,
                   received, sends, accepted>>

\* ... then the state of the engine, looked at only in the handshake ...
\* Fault for the checks: BR_SSL_CLOSED is not looked at.
CheckStateOpenOnly ==
    /\ pc = "open" /\ cb = "none"
    /\ state' = IF state[cur] = "HANDSHAKE" /\ engine[cur] = "app"
                THEN [state EXCEPT ![cur] = "OPEN"] ELSE state
    /\ NextSlot
    /\ UNCHANGED <<end, sock, fd, session, cb>>
    /\ UNCHANGED <<link, pending, room, arrived, backlog, again, bufVars,
                   received, sends, accepted>>

ToPlain == Goto(IF plain[cur] = "none" THEN "write" ELSE "plain")

CheckState ==
    /\ pc = "open" /\ cb = "none"
    /\ \/ /\ state[cur] = "HANDSHAKE" /\ engine[cur] = "closed"
          /\ ClientClose(cur) /\ NextSlot
       \/ /\ state[cur] = "HANDSHAKE" /\ engine[cur] = "app"
          /\ state' = [state EXCEPT ![cur] = "OPEN"]
          /\ ToPlain
          /\ UNCHANGED <<end, sock, fd, session, cb>>
       \/ /\ state[cur] = "HANDSHAKE" /\ engine[cur] = "handshake"
          /\ KeepsClient /\ NextSlot
       \/ /\ state[cur] = "HANDSHAKE" /\ engine[cur] = "closing"
          /\ KeepsClient /\ Goto("last")
       \/ /\ state[cur] = "OPEN"
          /\ KeepsClient /\ ToPlain
    /\ UNCHANGED <<link, pending, room, arrived, backlog, again, bufVars,
                   received, sends, accepted>>

\* Fault for the checks: the plaintext is acknowledged, the message dropped.
ReadPlainDrops ==
    /\ pc = "plain" /\ cb = "none" /\ plain[cur] = "frame"
    /\ plain' = [plain EXCEPT ![cur] = "none"]
    /\ Goto("write")
    /\ UNCHANGED <<netVars, again, sock, fd, state, engine, out, held, rec, cb,
                   session, received, sends, accepted>>

\* ... then tlsv2_engine_read_plain: a frame is handed to the application, a
\* length above the limit closes the client ...
ReadPlain ==
    /\ pc = "plain" /\ cb = "none" /\ plain[cur] = "frame"
    /\ plain' = [plain EXCEPT ![cur] = "none"]
    /\ received' = [received EXCEPT ![ConnOf(cur)] = @ + 1]
    /\ cb' = "json"
    /\ Goto("write")
    /\ UNCHANGED <<netVars, again, sock, fd, state, engine, out, held, rec,
                   session, sends, accepted>>

ReadPlainFails ==
    /\ pc = "plain" /\ cb = "none" /\ plain[cur] = "oversize"
    /\ ClientClose(cur) /\ NextSlot
    /\ UNCHANGED <<link, pending, room, arrived, backlog, again, bufVars,
                   received, sends, accepted>>

ToLast(record) == IF record THEN Goto("last") ELSE NextSlot

\* ... then tlsv2_engine_write_plain: the engine finishes a record when it is
\* full, and nothing flushes one that is not.
WritePlain ==
    /\ pc = "write" /\ cb = "none"
    /\ out[cur] > 0 /\ engine[cur] = "app" /\ rec[cur] = 0
    /\ LET space == Frag - held[cur]
           n == IF out[cur] > space THEN space ELSE out[cur]
       IN  /\ out' = [out EXCEPT ![cur] = @ - n]
           /\ IF n = space
              THEN /\ rec' = [rec EXCEPT ![cur] = Frag] /\ held' = [held EXCEPT ![cur] = 0]
              ELSE /\ held' = [held EXCEPT ![cur] = @ + n] /\ UNCHANGED rec
    /\ ToLast(rec'[cur] > 0)
    /\ UNCHANGED <<netVars, again, sock, fd, state, engine, plain, cb, appVars>>

WriteNothing ==
    /\ pc = "write" /\ cb = "none"
    /\ out[cur] = 0 \/ engine[cur] # "app" \/ rec[cur] > 0
    /\ ToLast(HasRecord(cur))
    /\ UNCHANGED <<netVars, again, tableVars, cb, appVars>>

-----------------------------------------------------------------------------
(* The application, inside a callback *)

\* tlsv2_send_json; a call that returns -1 or -2 changes nothing.
SendJson(id, len) ==
    /\ cb # "none" /\ sends < MaxSends
    /\ \E i \in Slot :
        /\ Active(i) /\ fd[i] = id
        /\ out[i] = 0
        /\ out' = [out EXCEPT ![i] = Hdr + len]
        /\ accepted' = [accepted EXCEPT ![ConnOf(i)] = @ + Hdr + len]
    /\ sends' = sends + 1
    /\ UNCHANGED <<netVars, again, sock, fd, state, engine, plain, held, rec,
                   loopVars, cb, session, received>>

\* What the callback did may have changed errno.
CallbackReturns ==
    /\ cb # "none"
    /\ cb' = "none"
    /\ again' \in {again, FALSE}
    /\ UNCHANGED <<netVars, tableVars, loopVars, appVars>>

-----------------------------------------------------------------------------
(* The peers *)

PeerConnects(c) ==
    /\ pc # "stopped" /\ link[c] = "new"
    /\ link' = [link EXCEPT ![c] = "hello"]
    /\ backlog' = backlog \cup {c}
    /\ UNCHANGED <<end, pending, room, arrived, again, tableVars, loopVars, cb, appVars>>

PeerFinishes(c) ==
    /\ link[c] = "flight" /\ end[c] = "no"
    /\ link' = [link EXCEPT ![c] = "ready"]
    /\ UNCHANGED <<end, pending, room, arrived, backlog, again, tableVars,
                   loopVars, cb, appVars>>

PeerSends(c) ==
    /\ link[c] = "ready" /\ end[c] = "no"
    /\ received[c] + pending[c] < MaxMsgs
    /\ pending' = [pending EXCEPT ![c] = @ + 1]
    /\ UNCHANGED <<link, end, room, arrived, backlog, again, tableVars,
                   loopVars, cb, appVars>>

PeerDrains(c) ==
    /\ ~room[c] /\ end[c] \in {"no", "notify"}
    /\ room' = [room EXCEPT ![c] = TRUE]
    /\ UNCHANGED <<link, end, pending, arrived, backlog, again, tableVars,
                   loopVars, cb, appVars>>

PeerBreaks(c, how) ==
    /\ link[c] # "new"
    /\ end[c] = "no" \/ (end[c] = "notify" /\ how = "reset")
    /\ how = "oversize" => link[c] = "ready"
    /\ end' = [end EXCEPT ![c] = how]
    /\ pending' = IF how = "reset" THEN [pending EXCEPT ![c] = 0] ELSE pending
    /\ UNCHANGED <<link, room, arrived, backlog, again, tableVars, loopVars,
                   cb, appVars>>

-----------------------------------------------------------------------------
ServerStep ==
    \/ PollReturns \/ AcceptClient \/ AcceptDrops \/ AcceptEnds
    \/ ScanSkips \/ ScanEnds
    \/ RecvNothing \/ RecvHandshake \/ RecvRecord \/ RecvCloses \/ RecvFails
    \/ SendNothing \/ SendRecord \/ SendNotify \/ SendFails
    \/ CheckState \/ ReadPlain \/ ReadPlainFails
    \/ WritePlain \/ WriteNothing \/ CallbackReturns

Next ==
    \/ ServerStep
    \/ StartServer \/ PollFails
    \/ \E id \in Fd, len \in SendLens : SendJson(id, len)
    \/ \E c \in Conn : \/ PeerConnects(c) \/ PeerFinishes(c) \/ PeerSends(c)
                       \/ PeerDrains(c)
                       \/ \E how \in PeerEnds : PeerBreaks(c, how)

Spec == Init /\ [][Next]_vars

\* The loop runs on (its thread is scheduled and callbacks return) and a live
\* peer reads what it is sent.
FairSpec == Spec /\ WF_vars(ServerStep)
                 /\ \A c \in Conn : WF_vars(PeerDrains(c))
-----------------------------------------------------------------------------
(* Properties *)

\* The application's sessions, the table and the kernel agree, as in
\* TlsV2Server: one entry for an announced id and for an open descriptor.
SessionsMatchTable ==
    /\ session = sock
    /\ \A f \in Fd : sock[f] # NoConn <=> \E i \in Slot : Active(i) /\ fd[i] = f
    /\ \A i, j \in Slot : Active(i) /\ Active(j) /\ fd[i] = fd[j] => i = j

\* Every byte tlsv2_send_json accepted for a connection is in exactly one
\* place: out_buf, the open record, the finished record, or with the peer.
\* Nothing of an earlier client of the entry is among them.
BytesAccounted ==
    \A i \in Slot : Active(i) =>
        accepted[ConnOf(i)] = arrived[ConnOf(i)] + rec[i] + held[i] + out[i]

\* The callbacks are those ClientSessions allows.
Sessions == INSTANCE ClientSessions WITH Id <- Fd
ImplementsSessions == Sessions!Spec

\* A frame that waits on a connection is decrypted, read out of the engine and
\* handed to on_json_received, unless the connection is over.
PendingIsDelivered ==
    \A c \in Conn : \A n \in 0..(MaxMsgs - 1) :
        (pending[c] > 0 /\ received[c] = n) ~> (received[c] > n \/ end[c] # "no")

\* A connection that is reset before its engine has ended, also while the
\* close_notify is under way, and one whose handshake ends in a close_notify or
\* a refused record, is closed and its id given back.
EndIsReported ==
    \A c \in Conn :
        (\E i \in Slot : /\ Active(i) /\ ConnOf(i) = c
                         /\ \/ end[c] = "reset" /\ engine[i] # "closed"
                            \/ state[i] = "HANDSHAKE" /\ engine[i] \in {"closing", "closed"})
            ~> (\A f \in Fd : session[f] # c)

\* What tlsv2_send_json accepted for a peer whose handshake is over arrives,
\* unless the connection ends.
AcceptedArrives ==
    \A c \in Conn : (link[c] = "ready" /\ accepted[c] > arrived[c])
                        ~> (accepted[c] = arrived[c] \/ end[c] # "no")
=============================================================================
