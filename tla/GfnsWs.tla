------------------------------- MODULE GfnsWs -------------------------------
(***************************************************************************)
(* The WebSocket client: the objects of src/src/wrappers/c/gfns_ws.c over  *)
(* the connections of gfns_conn.c, and the map of handles gfns_ws.pbi      *)
(* keeps of them.  One program, one thread; every call blocks.             *)
(*                                                                         *)
(* A WebSocket, its connection object and its socket have one name, that   *)
(* of the attempt that made them.  The bytes a server sends are offsets    *)
(* 1, 2, ... of its stream; arrived says how many of them the kernel       *)
(* holds, and recv() returns at most those.                                *)
(***************************************************************************)
EXTENDS Integers, Sequences, FiniteSets

CONSTANTS Ws, NoWs,
          Talker,    \* bound: the WebSockets whose server sends frames and whose
                     \* stream may arrive in any pieces
          MaxFrames, \* bound: frames such a server sends
          Lens,      \* their payload lengths
          HttpLen,   \* bytes of the response to the handshake
          RespBuf,   \* buf[512] of ws_send_handshake
          ShortMax,  \* 125, the longest payload with no extended length
          MidMax,    \* 65535, the longest one with an extended length of 2 bytes
          KeyLen,    \* 4, bytes of a masking key
          BufSize,   \* 4096, the buffer of gf_ws_recv_text
          Explicit   \* handles the program names itself instead of #PB_Any

ASSUME GfnsConstants ==
    /\ NoWs \notin Ws /\ Talker \subseteq Ws /\ MaxFrames \in Nat
    /\ Lens \subseteq Nat /\ HttpLen \in Nat \ {0} /\ RespBuf \in Nat \ {0}
    /\ ShortMax \in Nat /\ MidMax \in Nat /\ KeyLen \in Nat \ {0} /\ BufSize \in Nat
    /\ Explicit \subseteq Nat \ {0} /\ IsFiniteSet(Explicit)

VARIABLES
    handles,  \* GF_WS(): handle -> WebSocket
    live,     \* WebSocket objects allocated and not freed
    used,     \* the attempts made
    held,     \* the program: WebSocket -> the handle gf_ws returned for it
    reused,   \* the program closed a handle that was not its newest, or named one
    phase,    \* the call that runs
    busy,     \* the WebSocket it works on
    rx,       \* the frame gfns_ws_recv is reading
    frames,   \* what the servers wrote behind the response
    arrived, pos, \* bytes arrived, bytes read
    ended,    \* servers that closed the connection
    recvd,    \* the payloads gfns_ws_recv returned while it was in step
    sync      \* "in" step with the frames; out of it because the response or a
              \* field was "cut", or a frame was too "long"; "none" before

registry == <<handles, live, used, held, reused>>
reader == <<phase, busy, rx>>
stream == <<frames, arrived, pos, ended, recvd, sync>>
vars == <<registry, reader, stream>>

NoFrame == [masked |-> FALSE, ext |-> 0, len |-> 0]
Handle == (1..Cardinality(Ws)) \cup Explicit

Start(w, m) == IF m = 1 THEN HttpLen ELSE frames[w][m - 1].end
Payload(w, m) == <<frames[w][m].end - frames[w][m].len, frames[w][m].end>>
Written(w) == Start(w, Len(frames[w]) + 1)

Init ==
    /\ handles = [h \in {} |-> NoWs] /\ live = {} /\ used = {}
    /\ held = [w \in {} |-> 0] /\ reused = FALSE
    /\ phase = "idle" /\ busy = NoWs /\ rx = NoFrame
    /\ frames = [w \in Ws |-> <<>>]
    /\ arrived = [w \in Ws |-> 0] /\ pos = [w \in Ws |-> 0]
    /\ ended = {} /\ recvd = [w \in Ws |-> <<>>] /\ sync = [w \in Ws |-> "none"]

-----------------------------------------------------------------------------
(* The servers and the network.  What they do shows only in the reads of a *)
(* call, so it happens while one works on the socket.                      *)

\* A frame, which servers do not mask.  (gf_ws_recv_text drops a frame that is no
\* text once gfns_ws_recv has read all of it.)
ExtBytes(len) == IF len <= ShortMax THEN 0 ELSE IF len <= MidMax THEN 2 ELSE 8

ServerSends(w) ==
    /\ w = busy /\ w \in Talker /\ Len(frames[w]) < MaxFrames /\ w \notin ended
    /\ \E len \in Lens :
        frames' = [frames EXCEPT ![w] = Append(@,
            [ext |-> ExtBytes(len), len |-> len, end |-> Written(w) + 2 + ExtBytes(len) + len])]
    /\ UNCHANGED <<registry, reader, arrived, pos, ended, recvd, sync>>

Arrives(w) ==
    /\ w = busy /\ arrived[w] < Written(w)
    /\ \E n \in (arrived[w] + 1)..Written(w) :
        /\ w \notin Talker => n = HttpLen
        /\ arrived' = [arrived EXCEPT ![w] = n]
    /\ UNCHANGED <<registry, reader, frames, pos, ended, recvd, sync>>

ServerEnds(w) ==
    /\ w = busy /\ w \notin ended
    /\ ended' = ended \cup {w}
    /\ UNCHANGED <<registry, reader, frames, arrived, pos, recvd, sync>>

\* gfns_conn_read(buf, n): waits for a byte, returns those that are there.
CanRead(w) == arrived[w] > pos[w]

Got(w, n) == IF arrived[w] - pos[w] < n THEN arrived[w] - pos[w] ELSE n
AtEnd(w) == w \in ended /\ arrived[w] = pos[w]

-----------------------------------------------------------------------------
(* Opening: gf_ws, gfns_ws_open_url, gfns_ws_connect, ws_send_handshake *)

\* The connection stands and the request is written.  (A url that is refused, a
\* connection that fails changes nothing here.)
Open(w) ==
    /\ phase = "idle" /\ w \notin used
    /\ used' = used \cup {w} /\ live' = live \cup {w}
    /\ phase' = "handshake" /\ busy' = w
    /\ UNCHANGED <<handles, held, reused, rx, stream>>

\* The request cannot be written or has no response: the object is freed, its
\* connection stays open and nobody has it any more.
HandshakeFails ==
    /\ phase = "handshake" /\ busy \in ended
    /\ live' = live \ {busy}
    /\ phase' = "idle" /\ busy' = NoWs
    /\ UNCHANGED <<handles, used, held, reused, rx, stream>>

\* Fault for the checks: the handle is the size of the map, but not zero.
NewHandleOld == IF Cardinality(DOMAIN handles) = 0 THEN 1 ELSE Cardinality(DOMAIN handles)

\* The handle for #PB_Any.
NewHandle == Cardinality(DOMAIN handles) + 1

\* One recv() of the response, which may get a part of it only, or more than it;
\* then the element of the map, which replaces one with the same handle.
HandshakeReads ==
    /\ phase = "handshake" /\ CanRead(busy)
    /\ pos' = [pos EXCEPT ![busy] = Got(busy, RespBuf)]
    /\ sync' = [sync EXCEPT ![busy] = IF Got(busy, RespBuf) = HttpLen THEN "in" ELSE "cut"]
    /\ \E h \in {NewHandle} \cup Explicit :
        /\ handles' = [k \in DOMAIN handles \cup {h} |-> IF k = h THEN busy ELSE handles[k]]
        /\ held' = [w \in DOMAIN held \cup {busy} |-> IF w = busy THEN h ELSE held[w]]
        /\ reused' = (reused \/ h # NewHandle)
    /\ phase' = "idle" /\ busy' = NoWs
    /\ UNCHANGED <<live, used, rx, frames, arrived, ended, recvd>>

-----------------------------------------------------------------------------
(* Calls with a handle *)

Finds(h) == h \in DOMAIN handles
Found(w) == IF Finds(held[w]) THEN handles[held[w]] ELSE NoWs

\* gf_ws_send_text changes none of this state: the results of its two writes are
\* not looked at.

\* gf_ws_recv_text for a handle it knows.
RecvText(w) ==
    /\ phase = "idle" /\ w \in DOMAIN held /\ Finds(held[w])
    /\ phase' = "header" /\ busy' = handles[held[w]] /\ rx' = NoFrame
    /\ UNCHANGED <<registry, stream>>

\* Fault for the checks: the element of the map stays.
CloseKeeps(w) ==
    /\ phase = "idle" /\ w \in DOMAIN held
    /\ live' = live \ {Found(w)}
    /\ reused' = (reused \/ \E v \in DOMAIN held : held[v] > held[w])
    /\ held' = [v \in DOMAIN held \ {w} |-> held[v]]
    /\ UNCHANGED <<handles, used, reader, stream>>

\* gf_ws_close: a close frame, gfns_ws_close and gfns_ws_free, and the element
\* is deleted; the connection is not closed.
Close(w) ==
    /\ phase = "idle" /\ w \in DOMAIN held
    /\ live' = live \ {Found(w)}
    /\ handles' = [h \in DOMAIN handles \ {held[w]} |-> handles[h]]
    /\ reused' = (reused \/ \E v \in DOMAIN held : held[v] > held[w])
    /\ held' = [v \in DOMAIN held \ {w} |-> held[v]]
    /\ UNCHANGED <<used, reader, stream>>

-----------------------------------------------------------------------------
(* gfns_ws_recv *)

Want == CASE phase = "header" -> 2 [] phase = "ext" -> rx.ext
          [] phase = "mask" -> KeyLen [] phase = "payload" -> rx.len

\* What the bytes behind pos mean to the reader: the fields of a frame if one
\* begins there, anything if not.
Headers ==
    LET F == {m \in DOMAIN frames[busy] : Start(busy, m) = pos[busy]}
    IN  IF F # {} THEN {[masked |-> FALSE,
                         ext |-> frames[busy][m].ext,
                         len |-> IF frames[busy][m].ext = 0 THEN frames[busy][m].len ELSE 0] : m \in F}
        ELSE [masked : BOOLEAN, ext : {0}, len : 0..ShortMax]
             \cup [masked : BOOLEAN, ext : {2, 8}, len : {0}]
Lengths ==
    LET F == {m \in DOMAIN frames[busy] : Start(busy, m) + 2 = pos[busy] /\ frames[busy][m].ext = rx.ext}
    IN  IF F # {} THEN {frames[busy][m].len : m \in F}
        ELSE IF rx.ext = 2 THEN {n \in Lens : n <= MidMax} ELSE Lens

Decoded == CASE phase = "header" -> Headers
             [] phase = "ext" -> {[rx EXCEPT !.len = n] : n \in Lengths}
             [] OTHER -> {rx}

FieldBehind(r) ==
    IF phase = "header" /\ r.ext > 0 THEN "ext"
    ELSE IF phase \in {"header", "ext"} /\ r.masked THEN "mask"
    ELSE IF phase = "payload" THEN "done"
    ELSE IF r.len > BufSize THEN "refused" ELSE "payload"

\* gfns_ws_recv returns -1 from the middle of a frame.
Fails(why) ==
    /\ sync' = [sync EXCEPT ![busy] = IF @ = "in" THEN why ELSE @]
    /\ phase' = "idle" /\ busy' = NoWs /\ rx' = NoFrame /\ UNCHANGED recvd

\* Fault for the checks: a short read passes for a whole field.
ReadsShort ==
    /\ phase \in {"header", "ext", "mask", "payload"}
    /\ CanRead(busy) \/ Want = 0
    /\ pos' = [pos EXCEPT ![busy] = @ + Got(busy, Want)]
    /\ \E r \in Decoded :
        IF FieldBehind(r) = "refused" THEN Fails("long")
        ELSE IF FieldBehind(r) = "done"
        THEN /\ recvd' = [recvd EXCEPT ![busy] =
                            IF sync[busy] = "in" THEN Append(@, <<pos[busy], pos'[busy]>>) ELSE @]
             /\ phase' = "idle" /\ busy' = NoWs /\ rx' = NoFrame /\ UNCHANGED sync
        ELSE phase' = FieldBehind(r) /\ rx' = r /\ UNCHANGED <<busy, recvd, sync>>
    /\ UNCHANGED <<registry, frames, arrived, ended>>

\* One gfns_conn_read; one that is short ends the call, and so does a length
\* above the buffer.
Reads ==
    /\ phase \in {"header", "ext", "mask", "payload"}
    /\ CanRead(busy) \/ Want = 0
    /\ pos' = [pos EXCEPT ![busy] = @ + Got(busy, Want)]
    /\ \E r \in Decoded :
        IF Got(busy, Want) < Want THEN Fails("cut")
        ELSE IF FieldBehind(r) = "refused" THEN Fails("long")
        ELSE IF FieldBehind(r) = "done"
        THEN /\ recvd' = [recvd EXCEPT ![busy] =
                            IF sync[busy] = "in" THEN Append(@, <<pos[busy], pos'[busy]>>) ELSE @]
             /\ phase' = "idle" /\ busy' = NoWs /\ rx' = NoFrame /\ UNCHANGED sync
        ELSE phase' = FieldBehind(r) /\ rx' = r /\ UNCHANGED <<busy, recvd, sync>>
    /\ UNCHANGED <<registry, frames, arrived, ended>>

ReadFails ==
    /\ phase \in {"header", "ext", "mask", "payload"} /\ Want > 0 /\ AtEnd(busy)
    /\ Fails("cut")
    /\ UNCHANGED <<registry, frames, arrived, pos, ended>>

-----------------------------------------------------------------------------
Next ==
    \/ \E w \in Ws : \/ ServerSends(w) \/ Arrives(w) \/ ServerEnds(w)
                     \/ Open(w) \/ RecvText(w) \/ Close(w)
    \/ HandshakeFails \/ HandshakeReads \/ Reads \/ ReadFails

Spec == Init /\ [][Next]_vars

-----------------------------------------------------------------------------
(* Properties *)

TypeOK ==
    /\ DOMAIN handles \subseteq Handle /\ \A h \in DOMAIN handles : handles[h] \in Ws
    /\ live \subseteq used /\ used \subseteq Ws
    /\ DOMAIN held \subseteq Ws /\ \A w \in DOMAIN held : held[w] \in Handle
    /\ phase \in {"idle", "handshake", "header", "ext", "mask", "payload"}
    /\ busy \in Ws \cup {NoWs} /\ (phase = "idle" <=> busy = NoWs)
    /\ \A w \in Ws : pos[w] <= arrived[w] /\ arrived[w] <= Written(w)

\* No handle leads to an object that was freed, and no two handles to the same
\* one, although a new handle may replace an old one in the map; the call that
\* runs works on a live object too.
HandlesAlive ==
    /\ \A h \in DOMAIN handles : handles[h] \in live
    /\ \A g, h \in DOMAIN handles : g # h => handles[g] # handles[h]
    /\ busy # NoWs => busy \in live

\* A handle is the size of the map plus one.  A program that leaves the choice
\* to gf_ws and closes its newest handle first keeps every handle it was given;
\* in any other order a new handle may replace one in use.
NewestFirstKeepsHandles ==
    ~reused => \A w \in DOMAIN held : Found(w) = w

\* A call that gives up leaves the rest of the frame, or of the response, to be
\* decoded as a header.  Until that happens for the first time the payloads
\* returned are those of the frames sent, in order and complete, and the stream
\* stands at the start of a frame between two calls.  It happens where the
\* response or a field did not arrive in one piece, or at a frame that really is
\* longer than the buffer, never at one that fits it.
InOrderWhileInStep ==
    \A w \in Ws :
        /\ Len(recvd[w]) <= Len(frames[w])
        /\ \A m \in DOMAIN recvd[w] : recvd[w][m] = Payload(w, m)
        /\ sync[w] = "in" /\ busy # w => pos[w] = Start(w, Len(recvd[w]) + 1)
        /\ sync[w] = "long" => /\ Len(recvd[w]) < Len(frames[w])
                               /\ frames[w][Len(recvd[w]) + 1].len > BufSize
=============================================================================
