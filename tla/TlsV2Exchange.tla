--------------------------- MODULE TlsV2Exchange ---------------------------
(***************************************************************************)
(* One client and the server, both directions together: the client sends   *)
(* requests and calls ReceiveJSON for the replies                          *)
(* (src/src/examples/purebasic/linux/tls_v2_jsontemplate_server-client),   *)
(* the server answers a request it knows from within on_json_received with *)
(* one tlsv2_send_json, whose return value it does not look at.            *)
(*                                                                         *)
(* The request direction is TlsV2Receive, Rep is the reply direction       *)
(* (TlsV2Reply); a client the server closes for its framing gets no more   *)
(* replies.                                                                *)
(***************************************************************************)
EXTENDS TlsV2Receive, FiniteSets

CONSTANTS ReplyLens, RecMax, MaxLen, Wrap, Texts,
          Windows, \* how many requests a client may send before it waits
          Known    \* lengths of the requests whose type and command are known

ASSUME ExchangeConstants ==
    /\ Windows \subseteq Nat \ {0} /\ Known \subseteq Lens
    /\ ReplyLens \subseteq Nat
    /\ RecMax \in Nat /\ RecMax >= Hdr
    /\ MaxLen \in Nat /\ MaxLen <= MaxJson + 1
    /\ Wrap \in Nat /\ 2 * (MaxJson + 1) < Wrap
    /\ Texts \subseteq 0..(Wrap - 1)

VARIABLES queued, outTotal, outBuf, outSent, back, lost, cphase, nlen, cbuf,
          got, ret,
          window,   \* requests this client sends before it waits for replies
          refused   \* replies tlsv2_send_json did not accept

Rep == INSTANCE TlsV2Reply WITH MaxReplies <- MaxCount

repVars == <<queued, outTotal, outBuf, outSent, back, lost, cphase, nlen, cbuf,
             got, ret>>
exchangeVars == <<vars, repVars, window, refused>>

ExchangeInit == Init /\ Rep!Init /\ window \in Windows /\ refused = 0

\* Fault for the checks: the client does not wait for a reply.
ClientSendsAhead ==
    /\ cphase = "app"
    /\ \E len \in Lens : SendHeader(len)
    /\ UNCHANGED <<repVars, window, refused>>

\* SendText, SendPing: the client is not waiting for a reply, and fewer than
\* window of its requests are unanswered.
ClientSends ==
    /\ cphase = "app" /\ Len(sent) - Len(got) < window
    /\ \E len \in Lens : SendHeader(len)
    /\ UNCHANGED <<repVars, window, refused>>

\* The rest of tlsv2_client_send_json.
ClientWrites ==
    /\ \E n \in 1..left : SendPayload(n)
    /\ UNCHANGED <<repVars, window, refused>>

\* ReceiveJSON, once the requests of the window are written.
ClientReceives ==
    /\ left = 0
    /\ \/ cphase # "app"
       \/ Len(sent) - Len(got) = window
       \/ Len(sent) = MaxCount /\ Len(got) < MaxCount
    /\ Rep!Recv
    /\ UNCHANGED <<vars, window, refused>>

\* tlsv2_json_try_receive, except for the delivery.
ServerReads ==
    /\ \/ Polled
       \/ \E n \in 1..Cap : ReadSome(n)
       \/ ReadWants \/ ParseNoHeader \/ ParseIncomplete
    /\ UNCHANGED <<repVars, window, refused>>

\* tlsv2_json_try_receive fails: tlsv2_client_close ends both directions.
ServerCloses ==
    /\ ReadFull \/ ParseRefuses \/ ParseNoMemory
    /\ Rep!Break
    /\ UNCHANGED <<window, refused>>

\* Fault for the checks: the application answers only every other request.
AnswersFirstOnly ==
    /\ ParseDelivers
    /\ \/ Len(delivered) = 0 /\ \E len \in ReplyLens : Rep!QueueSend(len)
       \/ Len(delivered) > 0 /\ UNCHANGED repVars
    /\ UNCHANGED <<window, refused>>

\* OnJSONReceived, the message of an unknown type or command: no reply.
ServerIgnores ==
    /\ ParseDelivers
    /\ sent[Len(delivered) + 1].len \notin Known
    /\ UNCHANGED <<repVars, window, refused>>

\* OnJSONReceived: one reply; it is dropped when the last one is still pending.
ServerAnswers ==
    /\ ParseDelivers
    /\ sent[Len(delivered) + 1].len \in Known
    /\ \E len \in ReplyLens :
        \/ /\ Rep!QueueSend(len)
           /\ UNCHANGED refused
        \/ /\ ~Rep!Accepts(len)
           /\ refused' = refused + 1
           /\ UNCHANGED repVars
    /\ UNCHANGED window

\* The loop calls tlsv2_json_flush only between two calls of
\* tlsv2_json_try_receive.
ServerFlushes ==
    /\ phase = "wait"
    /\ Rep!Flush
    /\ UNCHANGED <<vars, window, refused>>

ExchangeNext ==
    \/ ClientSends \/ ClientWrites \/ ClientReceives
    \/ ServerReads \/ ServerAnswers \/ ServerIgnores \/ ServerFlushes \/ ServerCloses

\* Both programs run on; select() serves reading and writing in every turn of
\* the server's loop.
ExchangeSpec ==
    /\ ExchangeInit /\ [][ExchangeNext]_exchangeVars
    /\ WF_exchangeVars(ClientSends) /\ WF_exchangeVars(ClientWrites)
    /\ WF_exchangeVars(ClientReceives)
    /\ WF_exchangeVars(ServerReads \/ ServerAnswers \/ ServerIgnores \/ ServerCloses)
    /\ WF_exchangeVars(ServerFlushes)

-----------------------------------------------------------------------------
(* Properties *)

\* A client that reads the reply before it sends the next request never meets
\* the single out buffer occupied, so that no reply is refused.  Its n-th reply
\* answers the n-th request the server knew: before it has got that one, the
\* server has been handed no known request behind it.
LockStep ==
    window = 1 =>
        /\ refused = 0
        /\ Len(queued) = Cardinality({m \in DOMAIN delivered : sent[m].len \in Known})
        /\ Len(queued) <= Len(got) + 1

\* The replies stay intact even when the client sends ahead and some of them are
\* refused: recv_json returns exactly the accepted ones, in their order.
RepliesIntact == Rep!RepliesIntact

\* A client in lock step that sends only requests the server knows is never
\* left waiting, unless malloc() failed and the server closed it.
EveryRequestAnswered ==
    \A m \in 1..MaxCount :
        (window = 1 /\ Len(sent) >= m /\ \A k \in 1..m : sent[k].len \in Known)
            ~> (Len(got) >= m \/ phase = "closed")
=============================================================================
