---------------------------- MODULE TlsV2Server ----------------------------
(***************************************************************************)
(* The multi-client server of src/src/wrappers/c/tls_wrapper_v2.c: the     *)
(* client table, the select() loop of tlsv2_server_run, and the callbacks  *)
(* it makes into the application.  One thread runs the loop; the kernel,   *)
(* the peers and the application's callbacks act around it.                *)
(*                                                                         *)
(* A JSON message is a count here: pending[c] complete frames wait to be   *)
(* read on connection c.  How bytes become frames is the subject of        *)
(* TlsV2Receive and TlsV2Reply; the lengths that matter to the loop        *)
(* (out_used, out_sent) are kept.                                          *)
(***************************************************************************)
EXTENDS Integers

CONSTANTS MaxClients,  \* TLSV2_MAX_CLIENTS
          Hdr,         \* bytes of the length prefix, 4 in the code
          MaxJson,     \* TLSV2_MAX_JSON_SIZE
          Fd,          \* socket descriptors the kernel may hand out
          Conn,        \* TCP connections peers open; each is opened once
          NoFd, NoConn,
          MaxMsgs,     \* bound: messages one peer sends
          MaxSends     \* bound: messages the application gets queued

ASSUME ServerConstants ==
    /\ MaxClients \in Nat \ {0}
    /\ Hdr \in Nat \ {0}
    /\ MaxJson \in Nat
    /\ MaxMsgs \in Nat
    /\ MaxSends \in Nat
    /\ NoFd \notin Fd
    /\ NoConn \notin Conn

VARIABLES
    \* the network and the kernel
    link,      \* how far the peer of a connection is; "gone": it finished the
               \* handshake and has ended the stream; "broken": nothing can be read
    pending,   \* complete frames of a connection not yet read
    room,      \* the socket's send buffer has room
    backlog,   \* connections waiting in the listen queue
    sock,      \* the connection an open descriptor stands for
    \* g_clients[]
    fd, state, outUsed, outSent,
    outMsg,    \* which message out_buf holds
    retry,     \* arguments of the SSL_write that last returned WANT_*
    \* the loop of tlsv2_server_run
    pc, cur, readfds, writefds,
    polled,    \* the connection each descriptor stood for when select() returned
    \* the application
    cb,        \* the callback it is in
    session,   \* its view: the connection announced under an id
    received,  \* messages it was handed, per connection
    sends      \* messages of its own that were queued so far

netVars == <<link, pending, room, backlog>>
outVars == <<outUsed, outSent, outMsg, retry>>
loopVars == <<pc, cur, readfds, writefds, polled>>
vars == <<netVars, sock, fd, state, outVars, loopVars,
          cb, session, received, sends>>

Slot == 0..(MaxClients - 1)
Active(i) == state[i] # "UNUSED"

\* The SSL_write arguments as the library remembers them for a retry.
NoRetry == [msg |-> 0, off |-> 0, len |-> 0]
WriteArgs(i) == [msg |-> outMsg[i], off |-> outSent[i], len |-> outUsed[i]]

Links == {"new", "hello", "flight", "ready", "gone", "broken"}
Lost(c) == link[c] \in {"gone", "broken"}
PCs == {"stopped", "select", "accept", "read", "receive", "write", "shutdown"}
Callbacks == {"none", "connected", "disconnected", "json"}

TypeNet ==
    /\ link \in [Conn -> Links]
    /\ pending \in [Conn -> Nat]
    /\ room \in [Conn -> BOOLEAN]
    /\ backlog \in SUBSET Conn

TypeTable ==
    /\ sock \in [Fd -> Conn \cup {NoConn}]
    /\ session \in [Fd -> Conn \cup {NoConn}]
    /\ fd \in [Slot -> Fd \cup {NoFd}]
    /\ state \in [Slot -> {"UNUSED", "HANDSHAKE", "OPEN"}]

TypeOut ==
    /\ outUsed \in [Slot -> Nat]
    /\ outSent \in [Slot -> Nat]
    /\ outMsg \in [Slot -> Nat]
    /\ retry \in [Slot -> [msg : Nat, off : Nat, len : Nat]]

TypeLoop ==
    /\ pc \in PCs
    /\ cur \in 0..MaxClients
    /\ readfds \in SUBSET Fd
    /\ writefds \in SUBSET Fd
    /\ polled \in [Fd -> Conn \cup {NoConn}]

TypeApp ==
    /\ cb \in Callbacks
    /\ received \in [Conn -> Nat]
    /\ sends \in Nat

TypeOK == TypeNet /\ TypeTable /\ TypeOut /\ TypeLoop /\ TypeApp

-----------------------------------------------------------------------------
(* g_clients[] *)

\* tlsv2_clients_init, which every run starts with.
ClientsInit ==
    /\ fd' = [i \in Slot |-> NoFd]
    /\ state' = [i \in Slot |-> "UNUSED"]
    /\ outUsed' = [i \in Slot |-> 0]
    /\ outSent' = [i \in Slot |-> 0]
    /\ outMsg' = [i \in Slot |-> 0]
    /\ retry' = [i \in Slot |-> NoRetry]

\* tlsv2_client_alloc takes the first entry that is UNUSED.
FirstUnused(i) == ~Active(i) /\ \A j \in Slot : j < i => Active(j)

ClientAlloc(i, f) ==
    /\ fd' = [fd EXCEPT ![i] = f]
    /\ state' = [state EXCEPT ![i] = "HANDSHAKE"]
    /\ outUsed' = [outUsed EXCEPT ![i] = 0]
    /\ outSent' = [outSent EXCEPT ![i] = 0]
    /\ outMsg' = [outMsg EXCEPT ![i] = 0]
    /\ retry' = [retry EXCEPT ![i] = NoRetry]

\* Fault for the checks: the descriptor is forgotten, not closed.
ClientCloseLeaks(i) ==
    /\ link' = [link EXCEPT ![sock[fd[i]]] = "broken"]
    /\ fd' = [fd EXCEPT ![i] = NoFd]
    /\ state' = [state EXCEPT ![i] = "UNUSED"]
    /\ outUsed' = [outUsed EXCEPT ![i] = 0]
    /\ outSent' = [outSent EXCEPT ![i] = 0]
    /\ outMsg' = [outMsg EXCEPT ![i] = 0]
    /\ retry' = [retry EXCEPT ![i] = NoRetry]
    /\ session' = [session EXCEPT ![fd[i]] = NoConn]
    /\ cb' = "disconnected"
    /\ UNCHANGED sock

\* tlsv2_client_close: shut the session down, close the descriptor, free the
\* entry and only then tell the application.
ClientClose(i) ==
    /\ link' = [link EXCEPT ![sock[fd[i]]] = "broken"]
    /\ sock' = [sock EXCEPT ![fd[i]] = NoConn]
    /\ fd' = [fd EXCEPT ![i] = NoFd]
    /\ state' = [state EXCEPT ![i] = "UNUSED"]
    /\ outUsed' = [outUsed EXCEPT ![i] = 0]
    /\ outSent' = [outSent EXCEPT ![i] = 0]
    /\ outMsg' = [outMsg EXCEPT ![i] = 0]
    /\ retry' = [retry EXCEPT ![i] = NoRetry]
    /\ session' = [session EXCEPT ![fd[i]] = NoConn]
    /\ cb' = "disconnected"

-----------------------------------------------------------------------------
(* Starting and stopping: tlsv2_server_run outside its loop *)

\* Before the first run the table is zero-initialised: UNUSED everywhere (the
\* fd of such an entry is never read).
Init ==
    /\ link = [c \in Conn |-> "new"]
    /\ pending = [c \in Conn |-> 0]
    /\ room = [c \in Conn |-> TRUE]
    /\ backlog = {}
    /\ sock = [f \in Fd |-> NoConn]
    /\ fd = [i \in Slot |-> NoFd]
    /\ state = [i \in Slot |-> "UNUSED"]
    /\ outUsed = [i \in Slot |-> 0]
    /\ outSent = [i \in Slot |-> 0]
    /\ outMsg = [i \in Slot |-> 0]
    /\ retry = [i \in Slot |-> NoRetry]
    /\ pc = "stopped" /\ cur = 0
    /\ readfds = {} /\ writefds = {}
    /\ polled = [f \in Fd |-> NoConn]
    /\ cb = "none"
    /\ session = [f \in Fd |-> NoConn]
    /\ received = [c \in Conn |-> 0]
    /\ sends = 0

\* A run that gets its context and its listening socket enters the loop (one
\* that does not returns -1 with the table as it was).
StartServer ==
    /\ pc = "stopped" /\ cb = "none"
    /\ ClientsInit
    /\ pc' = "select"
    /\ UNCHANGED <<netVars, sock, cur, readfds, writefds, polled, cb,
                   session, received, sends>>

\* select() fails with something other than EINTR: leave the loop and close
\* the listening socket, which resets what still waits in its queue.
SelectFails ==
    /\ pc = "select" /\ cb = "none"
    /\ pc' = "shutdown" /\ cur' = 0
    /\ backlog' = {}
    /\ link' = [c \in Conn |-> IF c \in backlog THEN "broken" ELSE link[c]]
    /\ UNCHANGED <<pending, room, sock, fd, state, outVars, readfds, writefds,
                   polled, cb, session, received, sends>>

\* Fault for the checks: clients still in the handshake are not closed.
ShutdownOpenOnly ==
    /\ pc = "shutdown" /\ cb = "none" /\ cur < MaxClients
    /\ cur' = cur + 1
    /\ IF state[cur] = "OPEN"
       THEN ClientClose(cur)
       ELSE UNCHANGED <<link, sock, fd, state, outVars, session, cb>>
    /\ UNCHANGED <<pending, room, backlog, pc, readfds, writefds, polled,
                   received, sends>>

\* One turn of the loop that closes every client.
ShutdownClient ==
    /\ pc = "shutdown" /\ cb = "none" /\ cur < MaxClients
    /\ cur' = cur + 1
    /\ IF Active(cur) THEN ClientClose(cur)
                      ELSE UNCHANGED <<link, sock, fd, state, outVars, session, cb>>
    /\ UNCHANGED <<pending, room, backlog, pc, readfds, writefds, polled,
                   received, sends>>

ServerReturns ==
    /\ pc = "shutdown" /\ cb = "none" /\ cur = MaxClients
    /\ pc' = "stopped" /\ cur' = 0
    /\ UNCHANGED <<netVars, sock, fd, state, outVars, readfds, writefds,
                   polled, cb, session, received, sends>>

-----------------------------------------------------------------------------
(* The loop: select(), accept, then every client in table order *)

\* Faults for the checks: the loop that fills the sets starts at 1; a client
\* with a queued message is not polled for writing.
PollReadFromOne == {fd[i] : i \in {j \in Slot : j > 0 /\ Active(j)}}
PollWriteHandshake == {fd[i] : i \in {j \in Slot : state[j] = "HANDSHAKE"}}

\* What select() is asked about.
PollRead == {fd[i] : i \in {j \in Slot : Active(j)}}
PollWrite == {fd[i] : i \in {j \in Slot :
                 \/ state[j] = "HANDSHAKE"
                 \/ state[j] = "OPEN" /\ outUsed[j] > outSent[j]}}

\* What the kernel answers: a descriptor is readable when a handshake message,
\* application data or the end of the stream waits on it.
Readable(f) ==
    LET c == sock[f] IN
    \/ link[c] = "hello" \/ Lost(c)
    \/ pending[c] > 0
    \/ link[c] = "ready" /\ \E i \in Slot : fd[i] = f /\ state[i] = "HANDSHAKE"
Writable(f) == room[sock[f]] \/ Lost(sock[f])

\* select() returns once something is ready; the listening socket is served
\* first.  (EINTR restarts the loop and changes nothing.)
SelectReturns ==
    /\ pc = "select" /\ cb = "none"
    /\ readfds' = {f \in PollRead : Readable(f)}
    /\ writefds' = {f \in PollWrite : Writable(f)}
    /\ readfds' \cup writefds' # {} \/ backlog # {}
    /\ polled' = sock
    /\ pc' = IF backlog # {} THEN "accept" ELSE "read"
    /\ cur' = 0
    /\ UNCHANGED <<netVars, sock, fd, state, outVars, cb, session, received, sends>>

\* Fault for the checks: the application is told before accept() has given the
\* connection an entry, so that it also hears of one that is turned away.
AcceptDropsTold ==
    /\ pc = "accept" /\ cb = "none"
    /\ \E c \in backlog, f \in Fd :
        /\ sock[f] = NoConn
        /\ backlog' = backlog \ {c}
        /\ link' = [link EXCEPT ![c] = "broken"]
        /\ session' = [session EXCEPT ![f] = c]
    /\ cb' = "connected"
    /\ UNCHANGED <<pending, room, sock, fd, state, outVars, loopVars,
                   received, sends>>

\* tlsv2_accept_new_client, one turn of its loop: a connection is accepted
\* under a free descriptor and gets the first free table entry.
AcceptClient ==
    /\ pc = "accept" /\ cb = "none"
    /\ \E c \in backlog, f \in Fd, i \in Slot :
        /\ sock[f] = NoConn
        /\ FirstUnused(i)
        /\ backlog' = backlog \ {c}
        /\ sock' = [sock EXCEPT ![f] = c]
        /\ ClientAlloc(i, f)
        /\ session' = [session EXCEPT ![f] = c]
        /\ cb' = "connected"
    /\ UNCHANGED <<link, pending, room, loopVars, received, sends>>

\* The same turn when the table is full, or when fcntl() or SSL_new() fail:
\* the descriptor is closed and the application hears nothing.
AcceptDrops ==
    /\ pc = "accept" /\ cb = "none"
    /\ \E f \in Fd : sock[f] = NoConn
    /\ \E c \in backlog :
        /\ backlog' = backlog \ {c}
        /\ link' = [link EXCEPT ![c] = "broken"]
    /\ UNCHANGED <<pending, room, sock, fd, state, outVars, loopVars,
                   cb, session, received, sends>>

\* accept() returns -1: the queue is empty, or the process is out of
\* descriptors or memory.
AcceptEnds ==
    /\ pc = "accept" /\ cb = "none"
    /\ pc' = "read"
    /\ UNCHANGED <<netVars, sock, fd, state, outVars, cur, readfds, writefds,
                   polled, cb, session, received, sends>>

-----------------------------------------------------------------------------
(* tlsv2_handle_client_read / tlsv2_handle_client_write *)

\* SSL_accept on entry i: answer a ClientHello, finish, fail, or want more.
SslAccept(i) ==
    LET c == sock[fd[i]] IN
    \/ /\ link[c] \in {"ready", "gone"}
       /\ state' = [state EXCEPT ![i] = "OPEN"]
       /\ UNCHANGED <<link, sock, fd, outVars, session, cb>>
    \/ /\ link[c] \in {"hello", "flight"}
       /\ link' = [link EXCEPT ![c] = "flight"]
       /\ UNCHANGED <<sock, fd, state, outVars, session, cb>>
    \/ /\ link[c] = "broken"
       /\ ClientClose(i)

ReadSkips ==
    /\ pc = "read" /\ cb = "none" /\ cur < MaxClients
    /\ ~(Active(cur) /\ fd[cur] \in readfds)
    /\ pc' = "write"
    /\ UNCHANGED <<netVars, sock, fd, state, outVars, cur, readfds, writefds,
                   polled, cb, session, received, sends>>

ReadHandshake ==
    /\ pc = "read" /\ cb = "none" /\ cur < MaxClients
    /\ state[cur] = "HANDSHAKE" /\ fd[cur] \in readfds
    /\ SslAccept(cur)
    /\ pc' = "write"
    /\ UNCHANGED <<pending, room, backlog, cur, readfds, writefds, polled,
                   received, sends>>

ReadOpen ==
    /\ pc = "read" /\ cb = "none" /\ cur < MaxClients
    /\ state[cur] = "OPEN" /\ fd[cur] \in readfds
    /\ pc' = "receive"
    /\ UNCHANGED <<netVars, sock, fd, state, outVars, cur, readfds, writefds,
                   polled, cb, session, received, sends>>

\* Faults for the checks: a frame is handed over before it is complete; the
\* end of the stream is taken for "would block".
ReceiveIncomplete ==
    /\ pc = "receive" /\ cb = "none"
    /\ LET c == sock[fd[cur]] IN
        /\ pending' = [pending EXCEPT ![c] = @ - 1]
        /\ received' = [received EXCEPT ![c] = @ + 1]
    /\ cb' = "json"
    /\ UNCHANGED <<link, room, backlog, sock, fd, state, outVars, loopVars,
                   session, sends>>

ReceiveIgnoresEnd ==
    /\ pc = "receive" /\ cb = "none"
    /\ pending[sock[fd[cur]]] = 0
    /\ pc' = "write"
    /\ UNCHANGED <<netVars, sock, fd, state, outVars, cur, readfds, writefds,
                   polled, cb, session, received, sends>>

\* tlsv2_json_try_receive hands the next complete frame to on_json_received
\* under the id c->fd ...
ReceiveDelivers ==
    /\ pc = "receive" /\ cb = "none"
    /\ LET c == sock[fd[cur]] IN
        /\ pending[c] > 0
        /\ pending' = [pending EXCEPT ![c] = @ - 1]
        /\ received' = [received EXCEPT ![c] = @ + 1]
    /\ cb' = "json"
    /\ UNCHANGED <<link, room, backlog, sock, fd, state, outVars, loopVars,
                   session, sends>>

\* ... until SSL_read wants more, or reports the end of the stream or an
\* error, for which the client is closed.
ReceiveEnds ==
    /\ pc = "receive" /\ cb = "none"
    /\ pending[sock[fd[cur]]] = 0
    /\ IF Lost(sock[fd[cur]])
       THEN ClientClose(cur)
       ELSE UNCHANGED <<link, sock, fd, state, outVars, session, cb>>
    /\ pc' = "write"
    /\ UNCHANGED <<pending, room, backlog, cur, readfds, writefds, polled,
                   received, sends>>

NextSlot == pc' = "read" /\ cur' = cur + 1

WriteSkips ==
    /\ pc = "write" /\ cb = "none"
    /\ \/ ~Active(cur)
       \/ fd[cur] \notin writefds
       \/ state[cur] = "OPEN" /\ outSent[cur] >= outUsed[cur]
    /\ NextSlot
    /\ UNCHANGED <<netVars, sock, fd, state, outVars, readfds, writefds,
                   polled, cb, session, received, sends>>

WriteHandshake ==
    /\ pc = "write" /\ cb = "none"
    /\ state[cur] = "HANDSHAKE" /\ fd[cur] \in writefds
    /\ SslAccept(cur)
    /\ NextSlot
    /\ UNCHANGED <<pending, room, backlog, readfds, writefds, polled,
                   received, sends>>

\* tlsv2_json_flush: SSL_write takes n bytes of what is left ...
FlushWrites ==
    /\ pc = "write" /\ cb = "none"
    /\ state[cur] = "OPEN" /\ fd[cur] \in writefds /\ outSent[cur] < outUsed[cur]
    /\ Writable(fd[cur])
    /\ \E n \in 1..(outUsed[cur] - outSent[cur]) :
        IF outSent[cur] + n >= outUsed[cur]
        THEN /\ outUsed' = [outUsed EXCEPT ![cur] = 0]
             /\ outSent' = [outSent EXCEPT ![cur] = 0]
        ELSE /\ outSent' = [outSent EXCEPT ![cur] = @ + n]
             /\ UNCHANGED outUsed
    /\ retry' = [retry EXCEPT ![cur] = NoRetry]
    /\ \E b \in BOOLEAN : room' = [room EXCEPT ![sock[fd[cur]]] = b]
    /\ NextSlot
    /\ UNCHANGED <<link, pending, backlog, sock, fd, state, outMsg, readfds,
                   writefds, polled, cb, session, received, sends>>

\* ... or fills the send buffer and wants to be called again with the same
\* arguments (bound: once for each attempt, so that a message needs finitely
\* many calls) ...
FlushWants ==
    /\ pc = "write" /\ cb = "none"
    /\ state[cur] = "OPEN" /\ fd[cur] \in writefds /\ outSent[cur] < outUsed[cur]
    /\ ~Lost(sock[fd[cur]])
    /\ retry[cur] = NoRetry
    /\ retry' = [retry EXCEPT ![cur] = WriteArgs(cur)]
    /\ room' = [room EXCEPT ![sock[fd[cur]]] = FALSE]
    /\ NextSlot
    /\ UNCHANGED <<link, pending, backlog, sock, fd, state, outUsed, outSent,
                   outMsg, readfds, writefds, polled, cb, session, received, sends>>

\* ... or fails.
FlushFails ==
    /\ pc = "write" /\ cb = "none"
    /\ state[cur] = "OPEN" /\ fd[cur] \in writefds /\ outSent[cur] < outUsed[cur]
    /\ Lost(sock[fd[cur]])
    /\ ClientClose(cur)
    /\ NextSlot
    /\ UNCHANGED <<pending, room, backlog, readfds, writefds, polled,
                   received, sends>>

\* Fault for the checks: the sets of the last select() are used once more.
LoopWithoutSelect ==
    /\ pc = "read" /\ cb = "none" /\ cur = MaxClients
    /\ pc' \in {"select", "accept"} /\ cur' = 0
    /\ UNCHANGED <<netVars, sock, fd, state, outVars, readfds, writefds, polled,
                   cb, session, received, sends>>

\* The top of the loop empties both sets before it fills them again.
LoopAgain ==
    /\ pc = "read" /\ cb = "none" /\ cur = MaxClients
    /\ pc' = "select"
    /\ readfds' = {} /\ writefds' = {}
    /\ polled' = [f \in Fd |-> NoConn]
    /\ UNCHANGED <<netVars, sock, fd, state, outVars, cur, cb, session,
                   received, sends>>

-----------------------------------------------------------------------------
(* The application, inside a callback *)

\* Fault for the checks: a message that is still pending is overwritten.
QueueSendOver(i, len) ==
    /\ state[i] = "OPEN"
    /\ len <= MaxJson
    /\ outUsed' = [outUsed EXCEPT ![i] = Hdr + len]
    /\ outSent' = [outSent EXCEPT ![i] = 0]
    /\ outMsg' = [outMsg EXCEPT ![i] = sends + 1]

\* tlsv2_send_json / tlsv2_json_queue_send: the id is looked up in the table,
\* and the message is copied to out_buf unless one is still pending.  A call
\* that returns -1 or -2 changes nothing.
QueueSend(i, len) ==
    /\ state[i] = "OPEN"
    /\ len <= MaxJson
    /\ outUsed[i] = outSent[i]
    /\ outUsed' = [outUsed EXCEPT ![i] = Hdr + len]
    /\ outSent' = [outSent EXCEPT ![i] = 0]
    /\ outMsg' = [outMsg EXCEPT ![i] = sends + 1]

SendJson(id, len) ==
    /\ cb # "none" /\ sends < MaxSends
    /\ \E i \in Slot : Active(i) /\ fd[i] = id /\ QueueSend(i, len)
    /\ sends' = sends + 1
    /\ UNCHANGED <<netVars, sock, fd, state, retry, loopVars, cb, session, received>>

CallbackReturns ==
    /\ cb # "none"
    /\ cb' = "none"
    /\ UNCHANGED <<netVars, sock, fd, state, outVars, loopVars, session,
                   received, sends>>

-----------------------------------------------------------------------------
(* The peers and the network *)

PeerConnects(c) ==
    /\ pc \notin {"stopped", "shutdown"}
    /\ link[c] = "new"
    /\ link' = [link EXCEPT ![c] = "hello"]
    /\ backlog' = backlog \cup {c}
    /\ UNCHANGED <<pending, room, sock, fd, state, outVars, loopVars, cb,
                   session, received, sends>>

PeerFinishes(c) ==
    /\ link[c] = "flight"
    /\ link' = [link EXCEPT ![c] = "ready"]
    /\ UNCHANGED <<pending, room, backlog, sock, fd, state, outVars, loopVars,
                   cb, session, received, sends>>

PeerSends(c) ==
    /\ link[c] = "ready"
    /\ received[c] + pending[c] < MaxMsgs
    /\ pending' = [pending EXCEPT ![c] = @ + 1]
    /\ UNCHANGED <<link, room, backlog, sock, fd, state, outVars, loopVars, cb,
                   session, received, sends>>

PeerDrains(c) ==
    /\ ~room[c] /\ ~Lost(c)
    /\ room' = [room EXCEPT ![c] = TRUE]
    /\ UNCHANGED <<link, pending, backlog, sock, fd, state, outVars, loopVars,
                   cb, session, received, sends>>

\* The peer closes or violates the protocol (an announced length above MaxJson
\* included) behind what it has sent, or the connection breaks in the
\* handshake or is reset, and what was not read is lost.
PeerBreaks(c) ==
    /\ \/ /\ link[c] = "ready"
          /\ link' = [link EXCEPT ![c] = "gone"]
          /\ UNCHANGED pending
       \/ /\ link[c] \in {"hello", "flight", "ready"}
          /\ link' = [link EXCEPT ![c] = "broken"]
          /\ pending' = [pending EXCEPT ![c] = 0]
    /\ UNCHANGED <<room, backlog, sock, fd, state, outVars, loopVars, cb,
                   session, received, sends>>

-----------------------------------------------------------------------------
\* What the server's thread does, the callbacks' return included.
ServerStep ==
    \/ SelectReturns \/ AcceptClient \/ AcceptDrops \/ AcceptEnds
    \/ ReadSkips \/ ReadHandshake \/ ReadOpen \/ ReceiveDelivers \/ ReceiveEnds
    \/ WriteSkips \/ WriteHandshake \/ FlushWrites \/ FlushWants \/ FlushFails
    \/ LoopAgain \/ ShutdownClient \/ ServerReturns \/ CallbackReturns

Next ==
    \/ ServerStep
    \/ StartServer \/ SelectFails
    \/ \E id \in Fd, len \in 0..MaxJson : SendJson(id, len)
    \/ \E c \in Conn : \/ PeerConnects(c) \/ PeerFinishes(c) \/ PeerSends(c)
                       \/ PeerDrains(c) \/ PeerBreaks(c)

Spec == Init /\ [][Next]_vars

\* The loop runs on (its thread is scheduled and callbacks return) and a live
\* peer reads what it is sent.
FairSpec == Spec /\ WF_vars(ServerStep)
                 /\ \A c \in Conn : WF_vars(PeerDrains(c))
-----------------------------------------------------------------------------
(* Properties *)

\* The application's sessions, the table and the kernel agree: an id between
\* its on_client_connected and its on_client_disconnected is the descriptor of
\* exactly one table entry and still stands for the connection it was
\* announced for, and every open descriptor has such an entry, so that none
\* leaks and no id is reused while the application may use it.
SessionsMatchTable ==
    /\ session = sock
    /\ \A f \in Fd : sock[f] # NoConn <=> \E i \in Slot : Active(i) /\ fd[i] = f
    /\ \A i, j \in Slot : Active(i) /\ Active(j) /\ fd[i] = fd[j] => i = j

\* A handler only ever runs on the connection select() reported: a descriptor
\* closed and handed out again since then is not mistaken for the old one,
\* although accept() runs between select() and the handlers.
DispatchedWasPolled ==
    pc \in {"read", "receive", "write"} /\ cb = "none" /\ cur < MaxClients =>
        (Active(cur) /\ fd[cur] \in readfds \cup writefds
            => polled[fd[cur]] = sock[fd[cur]])

\* OpenSSL demands that an SSL_write which returned WANT_* is repeated with
\* the same buffer and length.  Whatever the application sends meanwhile, the
\* entry's buffer still is the message, offset and length of that call.
RetryUnchanged ==
    \A i \in Slot : retry[i] # NoRetry => retry[i] = WriteArgs(i)

\* When tlsv2_server_run has returned, nothing is left behind: every accepted
\* connection was closed, and the application was told of every one.
StoppedIsClean ==
    pc = "stopped" /\ cb = "none" =>
        \A f \in Fd : sock[f] = NoConn /\ session[f] = NoConn

\* The callbacks are those ClientSessions allows: announced ids are fresh,
\* messages come only under announced ids, and only those are taken back.
Sessions == INSTANCE ClientSessions WITH Id <- Fd
ImplementsSessions == Sessions!Spec

\* A connection whose peer is gone is closed, and its id given back.
LossIsReported ==
    \A c \in Conn : (Lost(c) /\ \E f \in Fd : session[f] = c)
                        ~> (\A f \in Fd : session[f] # c)

\* A queued message is written out, however the writes are split, unless its
\* connection ends first.
QueuedIsFlushed ==
    \A n \in 1..MaxSends :
        (\E i \in Slot : outMsg[i] = n /\ outSent[i] < outUsed[i])
            ~> (\A i \in Slot : outMsg[i] = n => outSent[i] = outUsed[i])

\* A frame that waits on an open connection reaches the application, unless
\* the connection is lost first.
PendingIsDelivered ==
    \A c \in Conn : pending[c] > 0 ~> (pending[c] = 0 \/ link[c] = "broken")
-----------------------------------------------------------------------------
(* The inductive invariant behind the safety properties *)

\* Where the loop stands: the handlers have a client, a receiving one is OPEN,
\* and a stopping server has closed the entries it has passed.
LoopPosition ==
    /\ pc = "write" => cur < MaxClients
    /\ pc = "receive" => cur < MaxClients /\ state[cur] = "OPEN"
    /\ pc = "shutdown" => \A i \in Slot : i < cur => ~Active(i)
    /\ pc = "stopped" => \A i \in Slot : ~Active(i)

\* A connection waits in the listen queue, or has a descriptor, or neither.
QueuedHasNoFd ==
    /\ \A c \in backlog : link[c] # "new" /\ \A f \in Fd : sock[f] # c
    /\ \A c \in Conn : link[c] = "new" => \A f \in Fd : sock[f] # c

\* A descriptor select() reported still is that connection, or is closed; it
\* is not closed yet while new connections are accepted.
ReportedIsOld ==
    pc \in {"accept", "read", "receive", "write"} =>
        \A f \in readfds \cup writefds :
            /\ polled[f] # NoConn
            /\ sock[f] = polled[f] \/ (pc # "accept" /\ sock[f] = NoConn)

\* A write to be retried is of a message that is not sent yet.
RetryIsPending == \A i \in Slot : retry[i] # NoRetry => outSent[i] < outUsed[i]

ActiveHasFd == \A i \in Slot : Active(i) => fd[i] \in Fd

IInv == /\ TypeOK /\ LoopPosition /\ ActiveHasFd /\ SessionsMatchTable
        /\ QueuedHasNoFd /\ ReportedIsOld /\ RetryUnchanged /\ RetryIsPending
=============================================================================
