---------------------------- MODULE TlsV3Connect ----------------------------
(***************************************************************************)
(* tlsv2_client_connect of src/src/wrappers/c/tls_wrapper_v3.c against an  *)
(* honest server: the TLS 1.2 handshake of BearSSL (ssl_hs_client.t0,      *)
(* ssl_hs_server.t0) with the certificate validator br_x509_minimal, run   *)
(* to its end by br_sslio_flush.                                           *)
(*                                                                         *)
(* A handshake is the sequence of messages an end writes and reads; the    *)
(* signatures are good, so what decides is names and trust.                *)
(***************************************************************************)
EXTENDS Integers, Sequences

CONSTANTS Anchors,  \* trust anchors: distinguished name, and whether a CA
          Chains,   \* certificate chains that servers have
          Host      \* the name the client asks for

VARIABLES
    chain,                \* of this server
    result,               \* what tlsv2_client_connect has returned
    sock, block,          \* its socket is open, its memory allocated
    registered,           \* the connection is in g_client_conns[]
    engine,               \* the client's engine: "off", "run", "failed"
    cstep, sstep,         \* how many messages each end is through
    toServer, toClient,   \* messages under way
    cert, xerr            \* the validator: certificates seen, err

callVars == <<chain, result, sock, block, registered>>
vars == <<callVars, engine, cstep, sstep, toServer, toClient, cert, xerr>>

Writes(m) == [dir |-> "write", msg |-> m]
Reads(m) == [dir |-> "read", msg |-> m]

\* do-handshake of the client, with no session to resume, an ECDHE suite and
\* no request for a client certificate.
ClientHandshake ==
    << Writes("ClientHello"), Reads("ServerHello"), Reads("Certificate"),
       Reads("ServerKeyExchange"), Reads("ServerHelloDone"),
       Writes("ClientKeyExchange"), Writes("ChangeCipherSpec"), Writes("Finished"),
       Reads("ChangeCipherSpec"), Reads("Finished") >>

\* do-handshake of the server.
ServerHandshake ==
    << Reads("ClientHello"), Writes("ServerHello"), Writes("Certificate"),
       Writes("ServerKeyExchange"), Writes("ServerHelloDone"),
       Reads("ClientKeyExchange"), Reads("ChangeCipherSpec"), Reads("Finished"),
       Writes("ChangeCipherSpec"), Writes("Finished") >>

Init ==
    /\ chain \in Chains
    /\ result = "none" /\ sock = FALSE /\ block = FALSE /\ registered = FALSE
    /\ engine = "off" /\ cstep = 0 /\ sstep = 0
    /\ toServer = <<>> /\ toClient = <<>>
    /\ cert = 0 /\ xerr = "none"

-----------------------------------------------------------------------------
(* The client *)

\* calloc() or connect() fails: -1, with nothing kept.
ConnectFails ==
    /\ result = "none" /\ engine = "off"
    /\ result' = "-1"
    /\ UNCHANGED <<chain, sock, block, registered, engine, cstep, sstep, toServer,
                   toClient, cert, xerr>>

\* The socket is connected, the engine reset and ready to run.
ConnectStarts ==
    /\ result = "none" /\ engine = "off"
    /\ sock' = TRUE /\ block' = TRUE /\ engine' = "run"
    /\ UNCHANGED <<chain, result, registered, cstep, sstep, toServer, toClient,
                   cert, xerr>>

ClientNext == ClientHandshake[cstep + 1]
ClientRuns == engine = "run" /\ cstep < Len(ClientHandshake)

\* run_until sends what there is before it reads.
ClientWrites ==
    /\ ClientRuns /\ ClientNext.dir = "write"
    /\ toServer' = Append(toServer, ClientNext.msg)
    /\ cstep' = cstep + 1
    /\ UNCHANGED <<callVars, engine, sstep, toClient, cert, xerr>>

ClientReads ==
    /\ ClientRuns /\ ClientNext.dir = "read" /\ ClientNext.msg # "Certificate"
    /\ toClient # <<>> /\ toClient' = Tail(toClient)
    /\ IF Head(toClient) = ClientNext.msg THEN cstep' = cstep + 1 /\ UNCHANGED engine
                                          ELSE engine' = "failed" /\ UNCHANGED cstep
    /\ UNCHANGED <<callVars, sstep, toServer, cert, xerr>>

\* check-direct-trust and check-trust-anchor-CA.
Trusted(k) ==
    \/ k = 1 /\ \E ta \in Anchors : ~ta.ca /\ ta.dn = chain[k].dn
    \/ \E ta \in Anchors : ta.ca /\ ta.dn = chain[k].issuer

\* decode-certificate, for the k-th one; `ok' is final, like an error.
Decoded(k) ==
    IF k = 1 /\ Host \notin chain[k].names THEN "bad_server_name"
    ELSE IF k > 1 /\ chain[k].dn # chain[k - 1].issuer THEN "dn_mismatch"
    ELSE IF k > 1 /\ ~chain[k].ca THEN "not_ca"
    ELSE IF Trusted(k) THEN "ok" ELSE "none"

ClientCertificate ==
    /\ ClientRuns /\ ClientNext.msg = "Certificate"
    /\ toClient # <<>> /\ Head(toClient) = "Certificate"
    /\ cert < Len(chain)
    /\ cert' = cert + 1
    /\ xerr' = IF xerr = "none" THEN Decoded(cert') ELSE xerr
    /\ UNCHANGED <<callVars, engine, cstep, sstep, toServer, toClient>>

\* xm_end_chain: no certificate was trusted, so the chain is not; then
\* read-Certificate-from-server fails the handshake.
ClientEndChain ==
    /\ ClientRuns /\ ClientNext.msg = "Certificate"
    /\ toClient # <<>> /\ Head(toClient) = "Certificate"
    /\ cert = Len(chain)
    /\ toClient' = Tail(toClient)
    /\ xerr' = IF xerr = "none" THEN "not_trusted" ELSE xerr
    /\ IF xerr' = "ok" THEN cstep' = cstep + 1 /\ UNCHANGED engine
                       ELSE engine' = "failed" /\ UNCHANGED cstep
    /\ UNCHANGED <<callVars, sstep, toServer, cert>>

\* br_sslio_flush returns: the descriptor, or -2 with everything released.
ConnectReturns ==
    /\ result = "none"
    /\ \/ /\ engine = "failed"
          /\ result' = "-2" /\ sock' = FALSE /\ block' = FALSE
          /\ UNCHANGED registered
       \/ /\ engine = "run" /\ cstep = Len(ClientHandshake)
          /\ result' = "fd" /\ registered' = TRUE
          /\ UNCHANGED <<sock, block>>
    /\ UNCHANGED <<chain, engine, cstep, sstep, toServer, toClient, cert, xerr>>

-----------------------------------------------------------------------------
(* The server *)

ServerNext == ServerHandshake[sstep + 1]

ServerSteps ==
    /\ sock /\ sstep < Len(ServerHandshake)
    /\ \/ /\ ServerNext.dir = "write"
          /\ toClient' = Append(toClient, ServerNext.msg)
          /\ UNCHANGED toServer
       \/ /\ ServerNext.dir = "read"
          /\ toServer # <<>> /\ Head(toServer) = ServerNext.msg
          /\ toServer' = Tail(toServer)
          /\ UNCHANGED toClient
    /\ sstep' = sstep + 1
    /\ UNCHANGED <<callVars, engine, cstep, cert, xerr>>

-----------------------------------------------------------------------------
Client == ClientWrites \/ ClientReads \/ ClientCertificate \/ ClientEndChain \/ ConnectReturns

Next == ConnectFails \/ ConnectStarts \/ Client \/ ServerSteps

\* Both programs run on, and the network delivers.
Spec == Init /\ [][Next]_vars /\ WF_vars(Client) /\ WF_vars(ServerSteps)

-----------------------------------------------------------------------------
(* Properties *)

\* A server that has accepted the connection and follows the protocol gets a
\* client: tlsv2_client_connect returns the descriptor.
ConnectSucceeds == engine = "run" ~> result = "fd"
=============================================================================
