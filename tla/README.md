# GF-NetStack in TLA+

GF-NetStack is a small network SDK: C libraries that carry length-prefixed JSON
messages or WebSocket frames over TLS, with bindings for PureBasic, FreeBASIC
and Fortran. This
directory holds TLA+ modules for its parts, the TLC configurations that check
them on small instances, and TLAPS proofs for every instance.

Contents: the system, the modules, the runs, the findings, the proofs, what is
only checked, what is not modelled, the plan.

## The system

Paths are relative to the repository's `src/` directory.

| Component | State | Operations | What is hard |
|---|---|---|---|
| **TLSv2 server** `wrappers/c/tls_wrapper_v2.c` (OpenSSL) | `g_clients[256]` (fd, state, `in_buf`, `expected_len`, `out_buf`, `out_used`, `out_sent`), `g_listen_fd`, the callbacks | `tlsv2_server_run` (one thread, `select()`), accept, handshake, `tlsv2_json_try_receive`, `tlsv2_json_flush`, `tlsv2_client_close`, `tlsv2_send_json` from inside callbacks | descriptor numbers are reused between `select()` and the handlers; an `SSL_write` must be repeated with the same arguments; one out buffer for each client; callbacks reenter the library |
| **TLSv2 framing** (same file) | 4-byte length, `in_buf`, `out_buf` | cut frames out of a stream that arrives in pieces, write a frame in pieces | splits at every position, limits, lengths 0 and 65536 |
| **Blocking client** (`tls_wrapper_v2.c`, `tls_wrapper_v3.c`) | `g_client_conns[64]`, objects on the heap | connect, send, receive, close, all by descriptor number | the registry is full, numbers are reused, a call fails half way through a message |
| **Application templates** `examples/purebasic/linux/tls_v2_jsontemplate_server-client` | none between requests | send a request, wait for the reply; answer from `on_json_received` | both sides wait for each other |
| **TLSv3 server** `wrappers/c/tls_wrapper_v3.c` (BearSSL) | as TLSv2, and a record engine for each client; `errno` | the same API; `select()` on Linux, `WSAPoll()` on Windows | the engine holds data back; `errno` is read when it was not set; poll results are looked up by position |
| **BearSSL's record layer** `wrappers/c/bearssl/src/ssl/ssl_engine.c` (vendored) | registers `ixa`..`oxc` into two buffers, `application_data`, `shutdown_recv` | take and give records and payload, flush, fail; a handshake processor that runs inside these calls | four users move the same registers in any order; a `close_notify` meets a record half filled |
| **TLS wrapper v1** `wrappers/c/tls_wrapper.c` | `ssl_table[]`, two contexts | blocking accept, connect, send, receive, close | entries are found by descriptor number; plain-text fallback |
| **Connections and WebSocket client** `gfns_conn.c`, `gfns_ws.c`, `gfns_ws.pbi` | connection and WebSocket objects, a map of handles | open by URL, send and receive frames, close | handle numbers, short reads, ownership when a step fails |
| **Fortran echo server and client** `core/fortran/websoket_server`, `wrappers/fortran/websocket.f90` | the frame being read | accept, upgrade, read a text, echo it, close | one client at a time with no timeout; frames against records; three length encodings |
| Poll based Fortran server `wrappers/fortran/wss_server.f90` | `clients(128)` | poll, accept, route, remove | does not link |
| FreeBASIC and PureBasic bindings, crypto helpers, scripts | little or none | declarations, single calls | |

The parts meet in four places. The *application* hands three callbacks to a
server (`on_client_connected`, `on_json_received`, `on_client_disconnected`) and
calls `tlsv2_send_json` from inside them; a client is named by its descriptor
number. *Client and server* meet on the byte stream, in frames of a 4-byte
big-endian length and a payload. *Library and kernel* meet in descriptor
numbers, which the kernel hands out again as soon as they are closed. *Library
and TLS* meet in records: OpenSSL returns at most one record from a read, BearSSL
is a state machine the library has to move by hand.

What makes the core correct:

* the ids an application holds, the table and the open descriptors agree, in
  every order of accepts, failures, callbacks, shutdowns and restarts;
* callbacks come in the order connected, json..., disconnected, for one
  connection under one id;
* what is delivered is what was sent, whatever pieces it came in;
* a lost connection is reported, a queued message is written, a waiting message
  is delivered;
* no call reaches a connection, or a handle an object, other than the one it
  names;
* a reader that has lost its place in the stream stops, it does not take payload
  for a header.

`PROJECT.json` lists the hazards behind these, each at its line.

## The modules

| Module | Models |
|---|---|
| `ClientSessions` | abstract: what the callbacks promise the application |
| `TlsV2Server` | the server of `tls_wrapper_v2.c`, 80-513 |
| `TlsV2Receive` | `tlsv2_client_send_json` → stream → `tlsv2_json_try_receive` |
| `TlsV2Reply` | `tlsv2_json_queue_send`, `tlsv2_json_flush` → records → `tlsv2_client_recv_json` |
| `TlsV2Exchange` | composes the last two with the request/reply discipline of the templates |
| `TlsClientConns` | the client's registry, `tls_wrapper_v3.c` 865-1050 |
| `TlsV3Server` | the server of `tls_wrapper_v3.c`, both loops, 344-858 |
| `BrSslEngine` | BearSSL's record layer, `ssl_engine.c`, with an AEAD suite |
| `TlsV3Link` | composes `BrSslEngine`, the handler of `tls_wrapper_v3.c` 517-743, the frame loop of `TlsV2Receive` and a peer |
| `TlsV3Connect` | `tlsv2_client_connect` of `tls_wrapper_v3.c` through BearSSL's handshake and validator |
| `GfnsWs` | `gfns_conn.c`, `gfns_ws.c` and the handles of `gfns_ws.pbi` |
| `WssEcho` | `ws_serveur.f90` and `websocket.f90` over `tls_wrapper.c`, with `ws_client.f90` and `gfns_ws.c` as clients |
| `TlsV2ServerProofs`, `TlsV2ReplyProofs`, `TlsV2ExchangeProofs` (with `TlsV2Receive`), `TlsV3ServerProofs`, `TlsClientConnsProofs`, `TlsV3LinkProofs` (with `BrSslEngine`), `GfnsWsProofs`, `WssEchoProofs` | the proofs |
| `MC...` | symmetry sets and values for TLC |

A definition named "Fault for the checks" is a plausible wrong version of the
definition behind it. It is used in no specification; `PROJECT.json` pairs each
with the property it would violate.

### TlsV2Server

`fd`, `state`, `outUsed`, `outSent` are the fields of `g_clients[]`. `sock` is
the kernel's table of descriptors, `session` what the application was told.
`pc`, `cur`, `readfds`, `writefds` are the position of the thread in
`tlsv2_server_run` and its two sets; one action is one turn of a loop in the code
(one accepted connection, one handler, one delivered frame), and while `cb` is
not `"none"` the application runs and may call `tlsv2_send_json`. Peers connect,
finish the handshake, send, drain their receive buffer, close or break at any
time. `polled` and `retry` are history: which connection a descriptor stood for
when `select()` reported it, and the arguments OpenSSL expects to see again.

A complete frame is a count here (`pending`), since bytes are the subject of the
next two modules. A handshake is four states of `link`. `FlushWants` is taken
once for each attempt, which stands for a send buffer that fills up and drains.

### TlsV2Receive and TlsV2Reply

A byte is its offset in the sender's stream, so that a byte lost, repeated or
moved is seen. What four bytes decode to is looked up in the history of what was
sent; in `TlsV2Receive` nothing else is ever decoded. In `TlsV2Reply` a client
that was told -3 reads on inside a payload, and what four bytes of a payload can
be taken for is the constant `Texts`. In `v2_reply` it has every 32-bit number that
is too large for the buffer, the one that wraps included; four characters of JSON text are a
length above 500 million. A header that was cut short would decode to anything. The module
keeps TLS records apart, because `SSL_read` never returns bytes of two records,
the 32-bit addition `nlen + 1` with its wrap (`Wrap`), and the conversion of the
number of bytes asked for to `int` (`AsInt`). For 2^32 - 1 the sum is 0 and the
comparison passes; the conversion then asks `SSL_read` for -1 bytes, which it
refuses, so the call returns -4 and writes nothing.

### TlsV2Exchange

Both directions at once. The client sends at most `window` requests before it
waits; the template has `window = 1`. A request whose length is not in `Known`
stands for one of unknown type, which the template ignores.

### TlsClientConns

An entry of `g_client_conns[]` is a pointer to an object with a `sock` field;
`live` are the objects not freed. Calls are atomic, since the library has no lock
and gives no promise to two threads.

### TlsV3Server

The table and loop as above, and for each client the record engine: `engine` is
its mode, `plain` a decrypted frame it holds, `held` the bytes in the record it
is filling, `rec` a finished record. `again` is whether `errno` (or
`WSAGetLastError()`) says "would block"; it changes only where the code makes a
call that sets it, and a callback may reset it. Behind a
`close_notify` the engine is `"closing"`, which ends when the open record and the
answer are sent. `end` is how a peer ends a connection: a `close_notify`, a record the engine refuses, an oversize frame, the bare end of the stream, a
reset. `Windows` chooses the loop: with `WSAPoll()` results are kept by position (`report`),
and positions behind the last polled client hold `"junk"`, any value.

### BrSslEngine and TlsV3Link

`BrSslEngine` has the registers as numbers and one operator for each function of
`ssl_engine.c` that moves them. The handshake processor is a coroutine (T0 code)
that runs inside the engine's functions; in `EngineSpec` it is anything that keeps to
its interface, which is what the proofs are about. The wrapper gives the engine
two buffers, so the half-duplex modes of BearSSL are not reached.

`TlsV3Link` starts behind the handshake and adds the plaintext the registers stand
for, the real coroutine for alerts and closing, the handler step by step, and the
peer: one that uses BearSSL and flushes behind a message, one that uses OpenSSL and
writes prefix and payload by themselves, one that packs messages. The loop that
cuts frames out of `in_buf` is the same in both wrappers, so its turns are those of
`TlsV2Receive` (`Rx`). Connections that break below TLS are in `TlsV3Server`.

### TlsV3Connect

The two handshakes as sequences of messages, and what decides this one: the
validator, certificate by certificate, with the trust anchors the code gives it,
which are none. Signatures are good and names match, since the server is honest.

### GfnsWs

`handles` is the map `GF_WS()`, `held` what the program was given. A WebSocket, its
connection and its socket share a name. The stream of a server is offsets;
`recv()` returns what has arrived, so every field of a frame can be cut. What the
bytes at a wrong offset decode to is any header. A length is 7 bits, 2 bytes or 8
bytes (`ShortMax`, `MidMax`). `sync` says whether the reader is in step with the
frames, and if not, what put it out of step: the response or a field that did not
arrive in one piece (`"cut"`), or a frame longer than the buffer, whose payload is left unread (`"long"`). What is
returned after that is not followed.

### WssEcho

All sizes are those of the code (buffers of 4096, 8192 and 512 bytes, records of
16384), because the edges between them are the subject; a byte is an offset and a
record an interval, so large texts cost nothing. `upU` and `downU` are what was
written, `up` and `down` the records not yet read. The server is one process that
serves `cur`; clients that have connected wait in `backlog`.

## The runs

| Run | Instance | States | Shows |
|---|---|---|---|
| `v2_server` | 2 entries, 3 descriptors, 3 connections, 2 sends | 2.3 M | `TypeOK`, `SessionsMatchTable`, `DispatchedWasPolled`, `RetryUnchanged`, `StoppedIsClean`, refinement of `ClientSessions` |
| `v2_server_live` | 2 entries, 2 descriptors | 0.3 M | `LossIsReported`, `QueuedIsFlushed`, `PendingIsDelivered` |
| `v2_reply` | header 4, limit 6, records of 5, lengths 0, 2, 5, 6, a buffer of 6; payload reads as any number from 6 to 15, the last one | 15 k | `FitsBuffer`, `SkipsWholeMessages`, `FittingReceived` |
| `v2_exchange` | windows 1 and 2, three requests of 0 to 3 bytes (limit 2), one kind known | 9.2 k | `DeliveredIntact`, `ClosedForCause`, `LockStep`, `RepliesIntact`, `EveryRequestAnswered` |
| `client_conns` | 2 entries, 4 descriptors, 5 connections | 1.5 k | `EntriesAreLive`, `CallHitsOwnConnection` |
| `v3_server` | Linux, 2 entries, 2 connections, 2 sends of 3 bytes, records of 2 | 3.9 M | `SessionsMatchTable`, `BytesAccounted`, refinement of `ClientSessions` |
| `v3_live` | Windows, 2 entries | 0.5 M | `SessionsMatchTable`, `PendingIsDelivered`, `EndIsReported` |
| `v3_arrives` | Linux, 1 entry | 3.3 k | **violated**: `AcceptedArrives` |
| `v3_link` | header 2, nonce 1, tag 1, fragments of 2, input buffer 6, limit 2, two messages, three kinds of peer | 0.2 M | `RegistersSane`, `NeverStuck`, `DeliveredIntact`, `RepliesIntact`, `NotifyFlushes`, `ClosedForCause`, `NonEmptyDelivered`, `NotifyAnswered` |
| `v3_connect` | a self-signed server, one with a CA, one that sends its CA; no anchors | 69 | **violated**: `ConnectSucceeds` |
| `gfns_ws` | 3 WebSockets, one of them with 2 frames: of 1 byte with a 2-byte length, or of 2 bytes with an 8-byte length; a buffer of 1 | 8.2 M | `HandlesAlive`, `NewestFirstKeepsHandles`, `InOrderWhileInStep` |
| `wss_echo` | a Fortran client, a C client with 2 texts, one that is no WebSocket; texts of 119, 120, 121, 4091, 65536 bytes | 64 k | `InStep`, `EchoIntact`, `TableMatches`, `EveryClientFinishes` |

Every component's module (all but `ClientSessions` and `TlsV3Connect`) has, or extends one
with, a `TypeOK` that gives the ranges of its variables. It is listed only for
`v2_server`, where `TypeCorrect` proves it; for the client registry and the record
layer it is a conjunct of the inductive invariant proved below, and in the other
modules it documents the state and holds when it is added to a configuration.

**Bounds.** Two entries are the least with which one client disturbs another,
and a third connection the least that meets a full table and a descriptor
reused while another client is served. One message from each peer is enough for
the table properties, which do not look at contents; two sends are needed for
`RetryUnchanged`, since the second is what could overwrite the first. In `v2_server`
a message is two bytes with its header, the least that can be written in part;
`v2_server_live` has messages of one and two bytes. In `v2_exchange`
a header of two bytes is split in the middle, a limit of 2 leaves lengths below,
at and above it, and three messages put one in front of, one inside and one
behind the pieces under test. In `TlsV2Reply` a
record of 5 bytes makes a message span two records, with one payload byte behind
the header in the first, and a buffer of 6 takes a payload of 5 but not one of 6,
which is the limit; the numbers go up to 15, so that a sum wraps. In `TlsV3Server` records of two bytes and messages of three leave a record empty,
partly filled, full, and full with a rest. In `v3_link` the input buffer takes a
record of two bytes of payload and refuses one of three, `in_buf` takes 4
bytes, so that a record straddles two messages and may not fit behind the rest of
one, and fragments of two bytes cut a prefix with its payload. In `gfns_ws` a third
WebSocket is the least with which a handle is used again while a later one is
open; only one of them has a stream in pieces, since streams do not meet. In its
stream a frame of 1 byte fits the buffer exactly and one of 2 does not; a length of
7 bits differs from these only in a field that is not read. In
`wss_echo` 119 and 120 are the last text with a short reply and the first with a
long one, 121 with a trailing blank is trimmed to 120, again the long case, 4091 makes a
reply that is longer than the buffer of the PureBasic client, and 65536 needs the
8 byte length and is refused. `MaxMsgs`, `MaxSends`, `MaxCount` and
`MaxReplies` only bound counters.

**Symmetry** is used for descriptors and connections in runs without liveness
properties; the actions treat all of them alike.

**Deadlock** is not checked where the system may stop for good: a stopped server
is not started again, peers have sent all they will.

**Fairness.** Weak fairness of the server's steps together: its thread is
scheduled and callbacks return. It does not make `select()` fail or the server
start. Weak fairness of `PeerDrains`: a live peer reads. In `TlsV2Receive` the
peer that announced a message writes it (`tlsv2_client_send_json` is one call). In
`TlsV2Reply` and `TlsV2Exchange` both programs go on. In `TlsV3Link` the loop comes
back to a client (it is polled for writing all the time), TCP delivers, and the
peer reads and finishes the message it began. In `WssEcho` each program takes its
next step when it can, and a C program closes after its texts; a program may
break off at any point, and nothing makes it connect. In `TlsV3Connect` both ends
go on. None of these is about
the order among clients: that a client is reached is shown from the table scan.

## Findings

Two places where the code does something else than the repository says; each is
a run that TLC refutes, and `PROJECT.json` quotes both sides.

1. **The BearSSL server does not flush** (`tls_wrapper_v3.c:665`, `v3_arrives`): the tail of
   a message that does not fill a record is sent only when more follows, or with
   the answer to a `close_notify` (`NotifyFlushes`). No byte is lost or
   repeated inside (`v3_server`, `v3_link`); it just stays in the engine. `AcceptedArrives` asks
   only for peers that have finished their handshake and do not end; with a
   flush in `tlsv2_engine_write_plain` it holds.
2. **The BearSSL client never connects** (`tls_wrapper_v3.c:943`, `v3_connect`): the
   comment says "no verification", but a validator with no trust anchors trusts
   nobody, and `tlsv2_client_connect` returns -2.

Behaviour the models contain and properties are worded around:

* A message of length zero blocks its connection, because `expected_len == 0` also
  means "no header yet" (`tls_wrapper_v2.c:210`, and the copy in v3): it is the
  condition in `ClosedForCause` and, for v3, in `NonEmptyDelivered`.
* Two requests that arrive together get one reply (`tls_wrapper_v2.c:142`); a
  client in lock step never sees this (`LockStep`).
* The BearSSL server may not notice the bare end of a stream
  (`tls_wrapper_v3.c:536`), because it asks `errno` after a `read()` that returned 0;
  and an OPEN client whose engine has ended stays in the table. `EndIsReported`
  says which ends are noticed.
* The BearSSL server refuses a record that does not fit behind what `in_buf`
  holds; `ClosedForCause` shows that this meets only peers that pack messages. Its
  16 KB input buffer refuses full records of an OpenSSL peer; a BearSSL peer
  negotiates smaller ones and is never refused.
* A handle of `gfns_ws.pbi` is the size of the map plus one and may replace one in
  use; newest-first closing is the order in which this does not happen
  (`NewestFirstKeepsHandles`), and in no order does a handle dangle.
* `gfns_ws_recv` does not resume after a short read, and leaves the payload of a frame
  that is too long in the stream. `InOrderWhileInStep` says that before such a call
  everything returned is right, and that no other call gives up; of what is decoded
  afterwards it says nothing. A connection is never closed, neither when the handshake fails nor with
  `gf_ws_close`; the echo server depends on the close frame.
* `ws_client.f90` takes the marker 126 for a length; `EchoIntact` claims whole
  replies for it up to 125 bytes. Texts of 8183 to 8192 bytes, whose reply does
  not fit the frame buffer of `ws_send_text`, are left out: what happens is undefined.

Worth knowing, though no text contradicts it outright: a caller of
`tlsv2_client_recv_json` whose buffer has `TLSV2_MAX_JSON_SIZE` bytes gets -3 for
a message of that size, because the terminating zero needs one byte more
(`tls_wrapper_v2.c:643`). `v2_reply` has this buffer and shows what follows: the
client skips the payload call by call and is back in step at the next message.

## The proofs

Proved with TLAPS for every value of the constants, from the named assumption
each module makes on its constants (`ServerConstants`, `ReceiveConstants`,
`ReplyConstants`, `ExchangeConstants`, `ConnsConstants`, `EngineConstants`, `LinkConstants`, `GfnsConstants`,
`WssConstants`). They say that sizes are natural numbers, that the null values are no
members, that twice the largest message stays below 2^32, that the engine's buffers hold a fragment with its overhead, that a
fragment holds an alert (2 bytes) and fits into the `in_buf` of the JSON layer (at most 16384 bytes
against 65536), that the 16 bits of a record header can announce what a peer puts in a record, that the
caller of `tlsv2_client_recv_json` has a buffer of at most `TLSV2_MAX_JSON_SIZE` + 1 bytes, and of
the echo server's texts what "Findings" says of them. TLC evaluates all
of them on the runs.

Every theorem about an invariant has the same shape: `IInv` implies the property,
`Init => IInv`, and `IInv /\ [Next]_vars => IInv'` with a lemma for each action or
group of actions. What `IInv` adds to the property, and why, is said below.

**TlsV2Server** (`TlsV2ServerProofs`): `TypeCorrect`, `SessionsAgree`, `DispatchSafe`,
`RetrySafe`, `StopsClean` and the refinement `ServerImplementsSessions`, all from
`Inductive == Spec => []IInv`. `SessionsMatchTable` alone is not inductive. `IInv` adds

* `LoopPosition`: a receiving client is OPEN, and a stopping server has closed
  the entries it has passed. `StoppedIsClean` rests on this;
* `ActiveHasFd` and `QueuedHasNoFd`: a connection waits in the listen queue or
  has a descriptor, never both, so that an accept announces a connection that
  has no id yet. The refinement rests on this;
* `ReportedIsOld`: a descriptor in the sets is still the connection it was, or
  closed, and not closed while connections are being accepted. So no accept can
  give a reported number to a newcomer, which is the argument for `DispatchSafe`;
* `RetryIsPending`: a write to be repeated is of a message not sent yet, so
  `tlsv2_send_json` refuses to replace it: the argument for `RetrySafe`.

The step is proved group by group (`TableStep`, `OutStep`, `NetStep`, `LoopStep`,
`QueueStep`, `ReportedStep`), each by cases over the actions; `TableStep` first shows
that every action does one of five things to the table.

**TlsClientConns** (`TlsClientConnsProofs`): `RegistryLive` and `CallsHitOwn`, from
`RegistryInductive`. `IInv` adds that allocated objects have their own open
descriptor (`LiveIsOpen`) and that the caller still holds the descriptor of
every entry (`EntriesAreHeld`). The key lemma is `OneMatch`: two entries with one
descriptor would be the same connection, so the first match is the only one.

**BrSslEngine** (`TlsV3LinkProofs`): `EngineRegistersSane`, `EngineNeverStuck`, from one invariant,
the types together with `RegistersSane`, which is inductive because it lists all
situations of both directions with their bounds (BearSSL's notes list them without
proof). Each function has a lemma that says it leads from one situation to
another; the step theorem applies them action by action. `FragLenMeetsConstants`
closes the gap to the code: the fragment length `br_ssl_engine_set_buffers_bidi`
computes for any two buffers satisfies `EngineConstants` for the overheads of the
suites, so the theorems hold for every engine it does not refuse.

**TlsV3Link** (`TlsV3LinkProofs`): first `LinkUsesEngine`, that every step of the link is a step `EngineSpec`
allows or leaves the registers alone; from this `LinkRegistersSane`. Above the record layer
`LinkDelivers`, `LinkRepliesIntact`, `LinkNotifyFlushes`, `LinkClosesForCause` and `LinkTypeOK`, from `LinkInv`:

* `HsOK`, what the place of the handshake processor says about `shutdown_recv` and
  `application_data`, and `OutOK`, that plaintext in `obuf` belongs to a record that is open or being
  sent, and no longer to an open one when the processor writes its answer. This is
  `NotifyFlushes` one step earlier; without it nothing says that the record sent before
  the `close_notify` was the last one.
* `StreamOK`, where the bytes are. Three witnesses: the offsets `e` of the records on the wire in
  the stream of ciphertext, the offsets `p` of their payloads in the stream of plaintext, and
  `q`, the byte `in_buf` has to get next. `e` counts what is in flight, in the socket and
  in `ibuf` (`Taken`), so that a read which ends anywhere stays inside the first record and its last
  byte completes exactly that one; `p` continues at `q` plus the plaintext `ibuf` holds
  (`Held`), so that what `read_plain` appends to `in_buf` is what comes next.
* `Span`, what each kind of peer puts in one record. It is why `ClosedForCause` holds: a record
  of at most a fragment passes the length check, and one that stays inside a message fits behind the
  part of it `in_buf` holds.
* `SentOK` and `FramesOK`, the invariant of `TlsV2Receive` again, with `ipl` in the place of its wire.

**TlsV2Receive and TlsV2Exchange** (`TlsV2ExchangeProofs`): `RequestsIntact` and `ClosesForCause`
for one direction; `ImplementsReceive` and `ImplementsReply`, that the exchange with its
client and application is still an instance of both directions; from these
`ExchangeDelivers`, `ExchangeRepliesIntact` and `LockStepHolds`. Bytes are offsets, so the
bytes in `in_buf` and on the wire are one interval that ends at what was written
(`BytesOK`) and begins at the first message not delivered; then the four bytes in
front are always a header the peer wrote, and what is cut off is its payload.
`LengthOK` and `NoneComplete` say what the loop of `tlsv2_json_try_receive` knows when it
waits: less than a header, or less than the message the header announces.
`LockStep` counts: delivered requests of a known type = replies queued, because
with `window` 1 a request can only arrive when the client has every reply, and then the
out buffer is empty and `tlsv2_send_json` accepts.

**TlsV2Reply** (`TlsV2ReplyProofs`): `PayloadFits`, `WholeMessagesOnly`, `FittingRepliesIntact`. The
client's side is described by three rigid witnesses: `s`, the offsets where the
records on their way are cut; `f`, the message each returned payload came from;
`c`, the message at hand. The point is `InMessage`: a record never ends inside a
header and never spans two messages, because one `SSL_write` writes one queued
message and continues it at `out_sent`; so a `SSL_read` of four bytes at the start
of a message gets all four. That is what makes skipping payloads work: the
next read in step is a header again. `FittingRepliesIntact`, `ExchangeRepliesIntact` and
`LockStepHolds` have a hypothesis, that every reply fits the caller's buffer
(`len + 1 <= max_len`); without it the client skips, as `v2_reply` shows.
`WholeMessagesOnly` has the hypothesis `TextsTooLong`, that no part of a payload reads
as a length that fits (2^32 - 1 does not, though it passes the comparison): with arbitrary payloads a client that was told -3 may take
a payload for a message. `PayloadFits` has no hypothesis and its own invariant,
`FitInv`: a length that passed the check is either one that fits, or 2^32 - 1, for which
nothing has been read and the number of bytes asked for is negative. That
`SSL_read` refuses a negative count is OpenSSL's part (`RecvRefused`).

**TlsV3Server** (`TlsV3ServerProofs`): `SessionsAgree`, `NoByteLost` and the refinement
`ServerImplementsSessions`, as for v2. `BytesAccounted` needs that a connection has one
descriptor (`OneFd`) and that one without an entry yet has its counters at zero
(`FreshConns`), so that bytes of an earlier owner of an entry are never counted again.

**GfnsWs** (`GfnsWsProofs`): `HandlesLeadToLive`, `StackDisciplineIsSafe`, `FramesInOrder`. `HandlesAlive`
rests on `ObjectsOK`: a WebSocket in its handshake has no handle, one that has is
allocated and held by the program. `NewestFirstKeepsHandles` rests on `StackOfHandles`: as long
as the newest is closed first, the handles are exactly 1..n in the order they were
given, so the size of the map plus one is free. `InOrderWhileInStep` is per WebSocket: while
it is in step the stream still to be read begins with a whole frame (`Unread`), so that the three
fields of its header decode to what was sent, and a length that is refused is that of a real frame.

**WssEcho** (`WssEchoProofs`): `TableIsExact`, `ServerInStep`, `RepliesMatchTexts`, for any number of clients
and entries. `TableInv` says where the session of each client is, from accept to
free, depending on where the server is (`sph`). `StreamInv` follows the bytes: what a client has
written and the server has not read is a sequence of whole units (the request, then frames), of which the
server may have read a part of the first, just as much as its position tells (`ServerInv`, `UnitsInv`);
what the server has written and the client has not read are whole reply frames, one for each frame
echoed (`DownInv`, `GotInv`). `StreamsHold` proves it as an invariant in its own right.

The invariants were checked with TLC before they were proved.

## Only model-checked

* All liveness properties: the prover has no support for fairness.
* `TlsV3Connect`: its run is the evidence of a finding, about liveness.

## Not modelled

* Contents of JSON messages, logging, certificates, key loading, cryptography.
* OpenSSL beyond what the wrappers use of it; `SIGPIPE`, which the wrappers
  leave at its default.
* Most of vendored BearSSL. It is some 80 thousand of the repository's 85
  thousand lines of implementation: ciphers, hashes, big integers, curves, their
  variants for each architecture, decoders and the tables its T0 compiler
  generates. This is arithmetic on fixed-size words that TLC cannot enumerate and
  that has no state between calls. What decides the behaviour of this program is
  modelled: the record layer, alerts and closing, the order of a handshake,
  the trust decision. CBC and CCM suites, renegotiation, session resumption and
  client certificates are left out; the wrapper uses none of the last three.
* `tlsv2_client_recv_json` of v3: this client has no connection to receive from (finding 2).
* Lines 675-863 of `tls_wrapper_v2.c`, a second copy of a client for BearSSL
  that redefines the functions above it; `tls_wrapper_v3_old.c`, superseded.
* More than one thread in the client library, which has no lock.
* Time: there are no timeouts in the code, and a peer that stays silent in the
  handshake keeps its entry for ever.
* `wss_server.f90`, `client.f90`, `router.f90`: they do not link (`ws_read_frame` is nowhere
  defined, the shim below returns -1 from every call), so no behaviour is theirs.
* `gfns_ws_open_url` connects to port 443 (or 80) only. The C client of `WssEcho` meets the echo
  server on its port 4433 through `gfns_tls_connect` and `gfns_ws_connect`, which
  do the same from there on.
* In `WssEcho`: empty texts (what `SSL_read` makes of a request for 0 bytes differs
  between versions), lengths of 2^32 and more (`websocket.f90:127` drops the upper
  bytes), SHA-1 and base64 of the key.
* `tlsv3_client_connect`, `_read` and `_write`, which `gfns_conn.c` calls for `wss:`, are not defined in
  the repository; `GfnsWs` takes them for a stream like the TCP case.
* FreeBASIC trampoline, tools, scripts, generated code (`pemdec.c`): no protocol state.

## The plan

Done: both JSON servers with their abstract specification, framing in both
directions, the client registry, the record layer below v3, the v3 client's
handshake, the WebSocket client and the echo server; proofs of every safety property
the passing runs check.

Left:

1. That the requests of `TlsV3Link` are an instance of an abstract stream of messages which
   `TlsV2Receive` implements too.
2. `TlsClientConns` with two threads, if the library gets a lock.
