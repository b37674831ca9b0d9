--------------------------- MODULE TlsClientConns ---------------------------
(***************************************************************************)
(* The blocking client's registry of connections in                        *)
(* src/src/wrappers/c/tls_wrapper_v3.c (tls_wrapper_v2.c has the same      *)
(* one): the caller holds a descriptor, every call looks the connection    *)
(* object up by it in g_client_conns[].  The library keeps no lock, so one *)
(* thread makes the calls.                                                 *)
(*                                                                         *)
(* A connection and the object tlsv2_client_connect allocates for it have  *)
(* the same name here.                                                     *)
(***************************************************************************)
EXTENDS Integers, FiniteSets

CONSTANTS MaxConns,  \* TLSV2_MAX_CLIENT_CONNS
          Fd, Conn, NoFd, NoConn

ASSUME ConnsConstants ==
    /\ MaxConns \in Nat \ {0}
    /\ NoFd \notin Fd /\ NoConn \notin Conn

VARIABLES
    conns,   \* g_client_conns[]
    osock,   \* the sock field of an object
    live,    \* objects allocated and not freed
    open,    \* kernel: the connection an open descriptor stands for
    tried,   \* connections that were attempted
    handle,  \* caller: the connection it holds a descriptor for
    call     \* the last send or receive: who was meant, who was found

vars == <<conns, osock, live, open, tried, handle, call>>

Slot == 0..(MaxConns - 1)
NoCall == [meant |-> NoConn, found |-> NoConn]

TypeOK ==
    /\ conns \in [Slot -> Conn \cup {NoConn}]
    /\ osock \in [Conn -> Fd \cup {NoFd}]
    /\ live \in SUBSET Conn
    /\ open \in [Fd -> Conn \cup {NoConn}]
    /\ tried \in SUBSET Conn
    /\ handle \in [Fd -> Conn \cup {NoConn}]
    /\ call \in [meant : Conn \cup {NoConn}, found : Conn \cup {NoConn}]

Init ==
    /\ conns = [i \in Slot |-> NoConn]
    /\ osock = [c \in Conn |-> NoFd]
    /\ live = {}
    /\ open = [f \in Fd |-> NoConn]
    /\ tried = {}
    /\ handle = [f \in Fd |-> NoConn]
    /\ call = NoCall

-----------------------------------------------------------------------------
(* The registry *)

\* The first entry that is NULL, if there is one.
FirstFree(i) == conns[i] = NoConn /\ \A j \in Slot : j < i => conns[j] # NoConn

\* The first entry whose object has the descriptor f, if there is one.
Matches(i, f) == conns[i] # NoConn /\ osock[conns[i]] = f
FirstMatch(i, f) == Matches(i, f) /\ \A j \in Slot : j < i => ~Matches(j, f)

\* tlsv2_register_client_conn: with no entry free it does nothing, and the
\* caller is not told.
Register(c) ==
    conns' = [i \in Slot |-> IF FirstFree(i) THEN c ELSE conns[i]]

\* tlsv2_lookup_client_conn, NoConn for NULL.
Lookup(f) ==
    IF \E i \in Slot : Matches(i, f)
    THEN conns[CHOOSE i \in Slot : FirstMatch(i, f)]
    ELSE NoConn

\* Fault for the checks: the object is freed and stays in the registry.
UnregisterForgotten(f) == UNCHANGED conns

\* tlsv2_unregister_client_conn.
Unregister(f) ==
    conns' = [i \in Slot |-> IF FirstMatch(i, f) THEN NoConn ELSE conns[i]]

-----------------------------------------------------------------------------
(* The calls *)

\* tlsv2_client_connect: the connection or its handshake fails, which leaves
\* neither object nor descriptor ...
ConnectFails(c) ==
    /\ c \notin tried
    /\ tried' = tried \cup {c}
    /\ UNCHANGED <<conns, osock, live, open, handle, call>>

\* ... or it is registered and its descriptor handed to the caller.
Connect(c, f) ==
    /\ c \notin tried /\ open[f] = NoConn
    /\ tried' = tried \cup {c}
    /\ osock' = [osock EXCEPT ![c] = f]
    /\ open' = [open EXCEPT ![f] = c]
    /\ live' = live \cup {c}
    /\ Register(c)
    /\ handle' = [handle EXCEPT ![f] = c]
    /\ UNCHANGED call

\* tlsv2_client_send_json, tlsv2_client_recv_json: -1 when nothing is found.
SendOrReceive(f) ==
    /\ call' = [meant |-> handle[f], found |-> Lookup(f)]
    /\ UNCHANGED <<conns, osock, live, open, tried, handle>>

\* tlsv2_client_close_fd: the descriptor is closed, the entry cleared and the
\* object freed.  Without an entry the call returns and nothing is closed.
CloseFd(f) ==
    /\ handle[f] # NoConn
    /\ handle' = [handle EXCEPT ![f] = NoConn]
    /\ IF Lookup(f) = NoConn
       THEN UNCHANGED <<conns, live, open>>
       ELSE /\ open' = [open EXCEPT ![osock[Lookup(f)]] = NoConn]
            /\ Unregister(f)
            /\ live' = live \ {Lookup(f)}
    /\ UNCHANGED <<osock, tried, call>>

Next ==
    \/ \E c \in Conn : ConnectFails(c) \/ \E f \in Fd : Connect(c, f)
    \/ \E f \in Fd : SendOrReceive(f) \/ CloseFd(f)

Spec == Init /\ [][Next]_vars

-----------------------------------------------------------------------------
(* Properties *)

\* Every entry is an allocated object whose descriptor is open and still is
\* that object's connection, and no connection has two entries.  So the loops
\* over g_client_conns[] never read freed memory, and a descriptor the kernel
\* hands out again is never found under an older connection.
EntriesAreLive ==
    /\ \A i \in Slot : conns[i] # NoConn =>
         conns[i] \in live /\ osock[conns[i]] \in Fd /\ open[osock[conns[i]]] = conns[i]
    /\ \A i, j \in Slot : conns[i] # NoConn /\ conns[i] = conns[j] => i = j

\* A send or receive never reaches another connection than the one the caller
\* got the descriptor for: it does what was meant, or it returns -1.
CallHitsOwnConnection == call.found \in {NoConn, call.meant}

-----------------------------------------------------------------------------
(* The inductive invariant behind EntriesAreLive and CallHitsOwnConnection *)

\* Allocated objects have their own open descriptor.
LiveIsOpen ==
    \A c \in live : c \in tried /\ osock[c] \in Fd /\ open[osock[c]] = c

\* The caller still holds the descriptor of every registered connection.
EntriesAreHeld ==
    \A i \in Slot : conns[i] # NoConn => handle[osock[conns[i]]] = conns[i]

IInv == /\ TypeOK /\ EntriesAreLive /\ LiveIsOpen /\ EntriesAreHeld
        /\ CallHitsOwnConnection
=============================================================================
