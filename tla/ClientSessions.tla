--------------------------- MODULE ClientSessions ---------------------------
(***************************************************************************)
(* What the server promises the application through its three callbacks    *)
(* (tlsv2_server_config_t in src/src/wrappers/c/tls_wrapper_v2.c): an id   *)
(* is announced, may then deliver messages, and is taken back.             *)
(* Between the two it stands for one connection, no connection has two     *)
(* ids, and no message comes under an id that is not announced.            *)
(***************************************************************************)
EXTENDS Integers

CONSTANTS Id, Conn, NoConn

VARIABLES session,   \* the connection announced under an id
          received   \* messages handed over, per connection

vars == <<session, received>>

Init ==
    /\ session = [f \in Id |-> NoConn]
    /\ received = [c \in Conn |-> 0]

\* on_client_connected(f)
Connected(f, c) ==
    /\ session[f] = NoConn
    /\ \A g \in Id : session[g] # c
    /\ session' = [session EXCEPT ![f] = c]
    /\ UNCHANGED received

\* on_json_received(f, ...)
Json(f) ==
    /\ session[f] # NoConn
    /\ received' = [received EXCEPT ![session[f]] = @ + 1]
    /\ UNCHANGED session

\* on_client_disconnected(f)
Disconnected(f) ==
    /\ session[f] # NoConn
    /\ session' = [session EXCEPT ![f] = NoConn]
    /\ UNCHANGED received

Next == \E f \in Id : \/ \E c \in Conn : Connected(f, c)
                      \/ Json(f)
                      \/ Disconnected(f)

Spec == Init /\ [][Next]_vars
=============================================================================
