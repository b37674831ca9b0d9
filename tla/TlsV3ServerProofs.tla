-------------------------- MODULE TlsV3ServerProofs --------------------------
(***************************************************************************)
(* Proofs about TlsV3Server, for every number of clients, descriptors,     *)
(* connections and messages, every record size, and both forms of the      *)
(* loop: the sessions agree with the table and the kernel, no byte is lost *)
(* or counted twice, and the callbacks are those of ClientSessions.        *)
(***************************************************************************)
EXTENDS TlsV3Server, TLAPS

(* The inductive invariant *)

TypeTable ==
    /\ sock \in [Fd -> Conn \cup {NoConn}]
    /\ session \in [Fd -> Conn \cup {NoConn}]
    /\ fd \in [Slot -> Fd \cup {NoFd}]
    /\ state \in [Slot -> {"UNUSED", "HANDSHAKE", "OPEN"}]

ActiveHasFd == \A i \in Slot : Active(i) => fd[i] \in Fd

\* A handler works on an entry in use, and the table is empty before the run.
LoopPosition ==
    /\ pc \in PCs /\ cur \in 0..MaxClients
    /\ pc \in {"recv", "send", "open", "plain", "write", "last"} =>
           cur < MaxClients /\ Active(cur)
    /\ pc = "stopped" => \A i \in Slot : ~Active(i)

TypeBytes ==
    /\ arrived \in [Conn -> Nat] /\ accepted \in [Conn -> Nat]
    /\ out \in [Slot -> Nat] /\ rec \in [Slot -> Nat]
    /\ held \in [Slot -> 0..(Frag - 1)]

\* A connection that has not been accepted yet has no descriptor and no bytes.
FreshConns ==
    /\ link \in [Conn -> {"new", "hello", "flight", "ready"}]
    /\ backlog \subseteq Conn
    /\ \A c \in backlog : link[c] # "new"
    /\ \A c \in Conn : c \in backlog \/ link[c] = "new" =>
           arrived[c] = 0 /\ accepted[c] = 0 /\ \A f \in Fd : sock[f] # c

\* A connection has one descriptor.
OneFd == \A f, g \in Fd : sock[f] = sock[g] /\ sock[f] # NoConn => f = g

IInv ==
    /\ TypeTable /\ ActiveHasFd /\ SessionsMatchTable
    /\ LoopPosition /\ TypeBytes /\ FreshConns /\ OneFd
    /\ BytesAccounted

-----------------------------------------------------------------------------
(* What a step does to the client table, the descriptors and the sessions *)

TableInv == TypeTable /\ ActiveHasFd /\ SessionsMatchTable /\ OneFd

tabVars == <<sock, session, fd, state>>
byteVars == <<arrived, accepted, out, held, rec>>

Opens(i) == /\ state[i] = "HANDSHAKE"
            /\ state' = [state EXCEPT ![i] = "OPEN"]
            /\ UNCHANGED <<sock, session, fd, byteVars, link, backlog>>

Allocs(i, f, c) == /\ sock[f] = NoConn
                   /\ FirstUnused(i)
                   /\ ClientAlloc(i, f)
                   /\ sock' = [sock EXCEPT ![f] = c]
                   /\ session' = [session EXCEPT ![f] = c]
                   /\ backlog' = backlog \ {c}
                   /\ UNCHANGED <<arrived, accepted, link>>

Closes(i) == /\ Active(i)
             /\ ClientClose(i)
             /\ UNCHANGED <<byteVars, link, backlog>>

Clears == /\ \A i \in Slot : ~Active(i)
          /\ StartServer

\* Closing a client keeps sessions, table and kernel in agreement.
LEMMA CloseKeepsTable ==
  ASSUME NEW i \in Slot, TableInv, Closes(i)
  PROVE  /\ TableInv'
         /\ \A j \in Slot : Active(j)' => Active(j) /\ j # i /\ ConnOf(j)' = ConnOf(j)
         /\ \A f \in Fd : sock'[f] \in {sock[f], NoConn}
<1> USE ServerConstants DEF TableInv, ActiveHasFd, Active, Closes
<1>1. fd[i] \in Fd
  OBVIOUS
<1>2. TypeTable'
  BY DEF TypeTable, ClientClose
<1>3. \A j \in Slot : Active(j)' <=> (Active(j) /\ j # i)
  BY DEF TypeTable, ClientClose
<1>4. \A j \in Slot : j # i => fd'[j] = fd[j]
  BY DEF TypeTable, ClientClose
<1>5. ActiveHasFd'
  BY <1>3, <1>4
<1>6. SessionsMatchTable'
  <2>1. session' = sock'
    BY DEF SessionsMatchTable, ClientClose
  <2>2. \A j, k \in Slot : Active(j)' /\ Active(k)' /\ fd'[j] = fd'[k] => j = k
    BY <1>3, <1>4 DEF SessionsMatchTable
  <2>3. ASSUME NEW f \in Fd
        PROVE  sock'[f] # NoConn <=> \E j \in Slot : Active(j)' /\ fd'[j] = f
    <3>1. CASE f = fd[i]
      BY <1>1, <1>3, <1>4, <3>1 DEF SessionsMatchTable, ClientClose, TypeTable
    <3>2. CASE f # fd[i]
      BY <1>1, <1>3, <1>4, <3>2 DEF SessionsMatchTable, ClientClose, TypeTable
    <3> QED BY <3>1, <3>2
  <2> QED BY <2>1, <2>2, <2>3 DEF SessionsMatchTable
<1>7. \A f \in Fd : sock'[f] \in {sock[f], NoConn} /\ (f # fd[i] => sock'[f] = sock[f])
  BY <1>1 DEF TypeTable, ClientClose
<1>8. OneFd'
  BY <1>7 DEF OneFd
<1>9. \A j \in Slot : Active(j)' => Active(j) /\ j # i /\ ConnOf(j)' = ConnOf(j)
  BY <1>3, <1>4, <1>7 DEF SessionsMatchTable, ConnOf
<1> QED BY <1>2, <1>5, <1>6, <1>7, <1>8, <1>9

\* So does giving a fresh descriptor the first free entry.
LEMMA AllocKeepsTable ==
  ASSUME NEW i \in Slot, NEW f \in Fd, NEW c \in Conn, TableInv, Allocs(i, f, c),
         \A g \in Fd : sock[g] # c
  PROVE  /\ TableInv'
         /\ \A j \in Slot : Active(j)' /\ j # i => Active(j) /\ ConnOf(j)' = ConnOf(j)
         /\ ConnOf(i)' = c
<1> USE ServerConstants DEF TableInv, ActiveHasFd, Active, Allocs, ClientAlloc, FirstUnused
<1>1. TypeTable'
  BY DEF TypeTable
<1>2. \A j \in Slot : Active(j)' <=> (Active(j) \/ j = i)
  BY DEF TypeTable
<1>3. fd'[i] = f /\ \A j \in Slot : j # i => fd'[j] = fd[j]
  BY DEF TypeTable
<1>4. ~Active(i) /\ \A j \in Slot : Active(j) => fd[j] # f
  BY DEF SessionsMatchTable
<1>5. ActiveHasFd'
  BY <1>2, <1>3
<1>6. sock'[f] = c /\ \A g \in Fd : g # f => sock'[g] = sock[g]
  BY DEF TypeTable
<1>7. SessionsMatchTable'
  <2>1. session' = sock'
    BY DEF SessionsMatchTable
  <2>2. \A j, k \in Slot : Active(j)' /\ Active(k)' /\ fd'[j] = fd'[k] => j = k
    BY <1>2, <1>3, <1>4 DEF SessionsMatchTable
  <2>3. ASSUME NEW g \in Fd
        PROVE  sock'[g] # NoConn <=> \E j \in Slot : Active(j)' /\ fd'[j] = g
    <3>1. CASE f = g
      BY <1>2, <1>3, <1>6, <3>1
    <3>2. CASE f # g
      BY <1>2, <1>3, <1>4, <1>6, <3>2 DEF SessionsMatchTable
    <3> QED BY <3>1, <3>2
  <2> QED BY <2>1, <2>2, <2>3 DEF SessionsMatchTable
<1>8. OneFd'
  BY <1>6 DEF OneFd
<1>9. \A j \in Slot : Active(j)' /\ j # i => Active(j) /\ ConnOf(j)' = ConnOf(j)
  BY <1>2, <1>3, <1>4, <1>6 DEF ConnOf
<1>10. ConnOf(i)' = c
  BY <1>3, <1>6 DEF ConnOf
<1> QED BY <1>1, <1>5, <1>7, <1>8, <1>9, <1>10

\* Every step leaves the table alone, or closes one client, or allocates one,
\* or completes one handshake, or clears a table without clients.
LEMMA TableSteps ==
  ASSUME IInv, [Next]_vars
  PROVE  \/ UNCHANGED tabVars
         \/ Clears
         \/ \E i \in Slot : Closes(i)
         \/ \E i \in Slot, f \in Fd, c \in backlog : Allocs(i, f, c)
         \/ \E i \in Slot : Opens(i)
<1> USE DEF tabVars, netVars, tableVars, bufVars, appVars, byteVars
<1>a. cur < MaxClients => cur \in Slot
  BY ServerConstants DEF IInv, LoopPosition, Slot
<1>b. pc \in {"recv", "send", "open", "plain", "write", "last"} => cur \in Slot /\ Active(cur)
  BY <1>a DEF IInv, LoopPosition
<1>c. Handling => cur \in Slot /\ Active(cur)
  BY <1>a, <1>b DEF Handling
<1>1. CASE UNCHANGED vars
  BY <1>1 DEF vars
<1>2. CASE StartServer
  BY <1>2 DEF StartServer, Clears, IInv, LoopPosition
<1>3. CASE PollReturns \/ PollFails \/ AcceptDrops \/ AcceptEnds \/ ScanSkips \/ ScanEnds
  BY <1>3 DEF PollReturns, PollFails, AcceptDrops, AcceptEnds, ScanSkips, ScanEnds
<1>4. CASE AcceptClient
  BY <1>4 DEF AcceptClient, Allocs
<1>5. CASE RecvNothing \/ RecvHandshake \/ RecvRecord \/ RecvCloses
  BY <1>5 DEF RecvNothing, RecvHandshake, RecvRecord, RecvCloses
<1>6. CASE RecvFails
  BY <1>6, <1>c DEF RecvFails, KeepsClient, Closes
<1>7. CASE SendNothing \/ SendRecord \/ SendNotify
  BY <1>7 DEF SendNothing, SendRecord, SendNotify
<1>8. CASE SendFails \/ ReadPlainFails
  BY <1>8, <1>b DEF SendFails, ReadPlainFails, Closes
<1>9. CASE CheckState
  <2>1. cur \in Slot /\ Active(cur)
    BY <1>9, <1>b DEF CheckState
  <2>2. UNCHANGED <<byteVars, link, backlog>>
    BY <1>9 DEF CheckState
  <2> QED BY <1>9, <2>1, <2>2 DEF CheckState, KeepsClient, Closes, Opens
<1>10. CASE ReadPlain \/ WritePlain \/ WriteNothing \/ CallbackReturns
  BY <1>10 DEF ReadPlain, WritePlain, WriteNothing, CallbackReturns
<1>11. CASE \E id \in Fd, len \in SendLens : SendJson(id, len)
  BY <1>11 DEF SendJson
<1>12. CASE \E c \in Conn : \/ PeerConnects(c) \/ PeerFinishes(c) \/ PeerSends(c)
                            \/ PeerDrains(c)
                            \/ \E how \in PeerEnds : PeerBreaks(c, how)
  BY <1>12 DEF PeerConnects, PeerFinishes, PeerSends, PeerDrains, PeerBreaks
<1> QED
  BY <1>1, <1>2, <1>3, <1>4, <1>5, <1>6, <1>7, <1>8, <1>9, <1>10, <1>11,
     <1>12 DEF Next, ServerStep

\* A step keeps the client table, the kernel's descriptors and the sessions
\* consistent.
LEMMA TableStep == IInv /\ [Next]_vars => TableInv'
<1> SUFFICES ASSUME IInv, [Next]_vars PROVE TableInv'
  OBVIOUS
<1>0. TableInv
  BY DEF IInv, TableInv
<1>1. CASE UNCHANGED tabVars
  BY <1>0, <1>1 DEF tabVars, TableInv, TypeTable, ActiveHasFd, Active, SessionsMatchTable, OneFd
<1>2. CASE Clears
  BY <1>0, <1>2 DEF Clears, StartServer, appVars, TableInv, TypeTable, ActiveHasFd, Active,
                    SessionsMatchTable, OneFd
<1>3. CASE \E i \in Slot : Closes(i)
  BY <1>0, <1>3, CloseKeepsTable
<1>4. CASE \E i \in Slot, f \in Fd, c \in backlog : Allocs(i, f, c)
  BY <1>0, <1>4, AllocKeepsTable DEF IInv, FreshConns
<1>5. CASE \E i \in Slot : Opens(i)
  <2>1. PICK i \in Slot : Opens(i)
    BY <1>5
  <2>2. \A j \in Slot : Active(j)' <=> Active(j)
    BY <1>0, <2>1 DEF Opens, Active, TableInv, TypeTable
  <2> QED
    BY <1>0, <2>1, <2>2 DEF Opens, TableInv, TypeTable, ActiveHasFd, SessionsMatchTable, OneFd
<1> QED
  BY <1>1, <1>2, <1>3, <1>4, <1>5, TableSteps

-----------------------------------------------------------------------------
(* The position of the loop *)

\* Only a step that ends the handling of a client takes its entry from it.
LEMMA LoopStep == IInv /\ [Next]_vars => LoopPosition'
<1> SUFFICES ASSUME IInv, [Next]_vars PROVE LoopPosition'
  OBVIOUS
<1>0. LoopPosition /\ TypeTable
  BY DEF IInv
<1> USE ServerConstants DEF PCs
<1>a. cur < MaxClients => cur \in Slot
  BY <1>0 DEF LoopPosition, Slot
<1>b. pc \in {"recv", "send", "open", "plain", "write", "last"} =>
        cur < MaxClients /\ Active(cur)
  BY <1>0 DEF LoopPosition
<1>c. Handling => cur < MaxClients /\ Active(cur) /\ pc \in {"recv", "scan"}
  BY <1>b DEF Handling
<1>next. ASSUME NextSlot, cur < MaxClients PROVE LoopPosition'
  BY <1>0, <1>next DEF NextSlot, LoopPosition
<1>goto. ASSUME NEW p \in PCs \ {"stopped"}, Goto(p), cur < MaxClients, state'[cur] # "UNUSED"
         PROVE  LoopPosition'
  BY <1>0, <1>goto DEF Goto, LoopPosition, Active
<1>same. ASSUME pc' = pc, cur' = cur, \A i \in Slot : Active(i)' <=> Active(i)
         PROVE  LoopPosition'
  BY <1>0, <1>a, <1>same DEF LoopPosition
<1>1. CASE UNCHANGED vars
  BY <1>1, <1>same DEF vars, loopVars, tableVars, Active
<1>2. CASE StartServer
  BY <1>0, <1>2 DEF StartServer, LoopPosition
<1>3. CASE PollReturns \/ AcceptEnds \/ ScanEnds
  <2>1. pc' \in {"accept", "scan", "poll"} /\ cur' \in {0, cur}
    BY <1>3 DEF PollReturns, AcceptEnds, ScanEnds
  <2> QED BY <1>0, <2>1 DEF LoopPosition
<1>4. CASE PollFails \/ AcceptDrops \/ SendRecord \/ CallbackReturns
  BY <1>4, <1>same DEF PollFails, AcceptDrops, SendRecord, CallbackReturns, loopVars, tableVars,
     Active
<1>5. CASE AcceptClient
  BY <1>0, <1>5 DEF AcceptClient, loopVars, LoopPosition
<1>6. CASE ScanSkips
  <2>1. pc' = "scan" /\ cur' = cur + 1 /\ cur < MaxClients
    BY <1>6 DEF ScanSkips, NextSlot
  <2> QED BY <1>0, <2>1 DEF LoopPosition
<1>7. CASE RecvNothing \/ RecvHandshake \/ RecvRecord \/ RecvCloses
  <2>1. Handling /\ UNCHANGED state
    BY <1>7 DEF RecvNothing, RecvHandshake, RecvRecord, RecvCloses, tableVars
  <2>2. \E p \in {"recv", "send", "open"} : Goto(p)
    BY <1>7 DEF RecvNothing, RecvHandshake, RecvRecord, RecvCloses, AfterRecv
  <2> QED BY <2>1, <2>2, <1>c, <1>goto DEF Active
<1>8. CASE RecvFails
  <2>1. Handling /\ (NextSlot \/ (AfterRecv /\ UNCHANGED state))
    BY <1>8 DEF RecvFails, KeepsClient
  <2> QED BY <2>1, <1>c, <1>next, <1>goto DEF Active, AfterRecv
<1>9. CASE SendNothing \/ SendNotify
  <2>1. pc \in {"send", "last"} /\ AfterSend /\ UNCHANGED state
    BY <1>9 DEF SendNothing, SendNotify, tableVars
  <2> QED BY <2>1, <1>b, <1>next, <1>goto DEF Active, AfterSend
<1>10. CASE SendFails \/ ReadPlainFails
  BY <1>10, <1>b, <1>next DEF SendFails, ReadPlainFails
<1>11. CASE CheckState
  <2>1. pc = "open" /\ cur \in Slot
    BY <1>11, <1>a, <1>b DEF CheckState
  <2>2. NextSlot \/ (state'[cur] # "UNUSED" /\ \E p \in {"plain", "write", "last"} : Goto(p))
    BY <1>0, <1>11, <2>1 DEF CheckState, KeepsClient, ToPlain, Active, TypeTable
  <2> QED BY <2>1, <2>2, <1>b, <1>next, <1>goto
<1>12. CASE ReadPlain
  BY <1>12, <1>b, <1>goto DEF ReadPlain, Active
<1>13. CASE WritePlain \/ WriteNothing
  <2>1. pc = "write" /\ (NextSlot \/ Goto("last")) /\ UNCHANGED state
    BY <1>13 DEF WritePlain, WriteNothing, ToLast, tableVars
  <2> QED BY <2>1, <1>b, <1>next, <1>goto DEF Active
<1>14. CASE \E id \in Fd, len \in SendLens : SendJson(id, len)
  BY <1>14, <1>same DEF SendJson, loopVars, Active
<1>15. CASE \E c \in Conn : \/ PeerConnects(c) \/ PeerFinishes(c) \/ PeerSends(c)
                            \/ PeerDrains(c)
                            \/ \E how \in PeerEnds : PeerBreaks(c, how)
  BY <1>15, <1>same DEF PeerConnects, PeerFinishes, PeerSends, PeerDrains, PeerBreaks,
     loopVars, tableVars, Active
<1> QED
  BY <1>1, <1>2, <1>3, <1>4, <1>5, <1>6, <1>7, <1>8, <1>9, <1>10, <1>11,
     <1>12, <1>13, <1>14, <1>15 DEF Next, ServerStep

-----------------------------------------------------------------------------
(* The bytes of the application's messages *)

\* What the steps that move bytes do to them.
Sends(i) == /\ arrived' = [arrived EXCEPT ![ConnOf(i)] = @ + rec[i]]
            /\ rec' = [rec EXCEPT ![i] = 0]
            /\ UNCHANGED <<accepted, out, held>>

Seals(i) == /\ rec' = [rec EXCEPT ![i] = @ + held[i]]
            /\ held' = [held EXCEPT ![i] = 0]
            /\ UNCHANGED <<arrived, accepted, out>>

Fills(i) == LET space == Frag - held[i]
                n == IF out[i] > space THEN space ELSE out[i]
            IN  /\ rec[i] = 0
                /\ out' = [out EXCEPT ![i] = @ - n]
                /\ IF n = space
                   THEN rec' = [rec EXCEPT ![i] = Frag] /\ held' = [held EXCEPT ![i] = 0]
                   ELSE held' = [held EXCEPT ![i] = @ + n] /\ UNCHANGED rec
                /\ UNCHANGED <<arrived, accepted>>

Queues(i, len) == /\ out[i] = 0
                  /\ out' = [out EXCEPT ![i] = Hdr + len]
                  /\ accepted' = [accepted EXCEPT ![ConnOf(i)] = @ + Hdr + len]
                  /\ UNCHANGED <<arrived, held, rec>>

Moves(i) == Sends(i) \/ Seals(i) \/ Fills(i) \/ \E len \in SendLens : Queues(i, len)

\* A step moves no bytes, or those of one client, or it changes the table.
LEMMA ByteSteps ==
  ASSUME IInv, [Next]_vars
  PROVE  \/ UNCHANGED <<tabVars, byteVars>>
         \/ \E i \in Slot : Active(i) /\ Moves(i) /\ UNCHANGED tabVars
         \/ Clears
         \/ \E i \in Slot : Closes(i)
         \/ \E i \in Slot, f \in Fd, c \in backlog : Allocs(i, f, c)
         \/ \E i \in Slot : Opens(i)
<1> USE DEF tabVars, netVars, tableVars, bufVars, appVars, byteVars
<1>a. cur < MaxClients => cur \in Slot
  BY ServerConstants DEF IInv, LoopPosition, Slot
<1>b. pc \in {"recv", "send", "open", "plain", "write", "last"} => cur \in Slot /\ Active(cur)
  BY <1>a DEF IInv, LoopPosition
<1>c. Handling => cur \in Slot /\ Active(cur)
  BY <1>a, <1>b DEF Handling
<1>1. CASE UNCHANGED vars
  BY <1>1 DEF vars
<1>2. CASE PollReturns \/ PollFails \/ AcceptDrops \/ AcceptEnds \/ ScanSkips \/ ScanEnds
           \/ RecvNothing \/ RecvHandshake \/ RecvRecord \/ SendNothing \/ SendNotify
           \/ ReadPlain \/ WriteNothing \/ CallbackReturns
  BY <1>2 DEF PollReturns, PollFails, AcceptDrops, AcceptEnds, ScanSkips, ScanEnds,
     RecvNothing, RecvHandshake, RecvRecord, SendNothing, SendNotify, ReadPlain,
     WriteNothing, CallbackReturns
<1>3. CASE StartServer \/ AcceptClient \/ SendFails \/ ReadPlainFails
  BY <1>3, <1>b DEF StartServer, Clears, IInv, LoopPosition, AcceptClient, Allocs,
     SendFails, ReadPlainFails, Closes
<1>4. CASE CheckState
  <2>1. cur \in Slot /\ Active(cur)
    BY <1>4, <1>b DEF CheckState
  <2>2. UNCHANGED <<byteVars, link, backlog>>
    BY <1>4 DEF CheckState
  <2> QED BY <1>4, <2>1, <2>2 DEF CheckState, KeepsClient, Closes, Opens
<1>5. CASE RecvCloses
  <2>1. cur \in Slot /\ Active(cur) /\ UNCHANGED tabVars
    BY <1>5, <1>c DEF RecvCloses
  <2>2. UNCHANGED byteVars \/ Seals(cur)
    BY <1>5 DEF RecvCloses, Seals
  <2> QED BY <2>1, <2>2 DEF Moves
<1>6. CASE RecvFails
  BY <1>6, <1>c DEF RecvFails, KeepsClient, Closes
<1>7. CASE SendRecord
  <2>1. cur \in Slot /\ Active(cur) /\ UNCHANGED tabVars
    BY <1>7, <1>b DEF SendRecord
  <2>2. Sends(cur)
    BY <1>7 DEF SendRecord, Sends
  <2> QED BY <2>1, <2>2 DEF Moves
<1>8. CASE WritePlain
  <2>1. cur \in Slot /\ Active(cur) /\ UNCHANGED tabVars
    BY <1>8, <1>b DEF WritePlain
  <2>2. Fills(cur)
    BY <1>8 DEF WritePlain, Fills
  <2> QED BY <2>1, <2>2 DEF Moves
<1>9. CASE \E id \in Fd, len \in SendLens : SendJson(id, len)
  BY <1>9 DEF SendJson, Moves, Queues
<1>10. CASE \E c \in Conn : \/ PeerConnects(c) \/ PeerFinishes(c) \/ PeerSends(c)
                            \/ PeerDrains(c)
                            \/ \E how \in PeerEnds : PeerBreaks(c, how)
  BY <1>10 DEF PeerConnects, PeerFinishes, PeerSends, PeerDrains, PeerBreaks
<1> QED
  BY <1>1, <1>2, <1>3, <1>4, <1>5, <1>6, <1>7, <1>8, <1>9, <1>10 DEF Next, ServerStep

BytesInv == TypeBytes /\ BytesAccounted

\* Moving the bytes of one client leaves their number the same and the other
\* clients' bytes alone, because no other entry has its connection.
LEMMA MovesKeepBytes ==
  ASSUME NEW i \in Slot, TableInv, BytesInv, Active(i), Moves(i), UNCHANGED tabVars
  PROVE  BytesInv'
<1> USE ServerConstants DEF TableInv, BytesInv
<1>1. \A j \in Slot : (Active(j)' <=> Active(j)) /\ ConnOf(j)' = ConnOf(j)
  BY DEF tabVars, Active, ConnOf
<1>2. \A j \in Slot : Active(j) => ConnOf(j) \in Conn
  BY DEF ActiveHasFd, SessionsMatchTable, ConnOf, TypeTable
<1>3. \A j \in Slot : Active(j) /\ j # i => ConnOf(j) # ConnOf(i)
  BY <1>2 DEF ActiveHasFd, SessionsMatchTable, ConnOf, OneFd, TypeTable
<1>4. accepted[ConnOf(i)] = arrived[ConnOf(i)] + rec[i] + held[i] + out[i]
  BY DEF BytesAccounted
<1>5. ASSUME TypeBytes',
             accepted'[ConnOf(i)] = arrived'[ConnOf(i)] + rec'[i] + held'[i] + out'[i],
             \A c \in Conn : c # ConnOf(i) => accepted'[c] = accepted[c] /\ arrived'[c] = arrived[c],
             \A j \in Slot : j # i => rec'[j] = rec[j] /\ held'[j] = held[j] /\ out'[j] = out[j]
      PROVE  BytesInv'
  <2> SUFFICES ASSUME NEW j \in Slot, Active(j)
               PROVE  accepted'[ConnOf(j)] = arrived'[ConnOf(j)] + rec'[j] + held'[j] + out'[j]
    BY <1>1, <1>5 DEF BytesAccounted
  <2>1. CASE j = i
    BY <2>1, <1>5
  <2>2. CASE j # i
    <3>1. accepted[ConnOf(j)] = arrived[ConnOf(j)] + rec[j] + held[j] + out[j]
      BY DEF BytesAccounted
    <3>2. ConnOf(j) \in Conn /\ ConnOf(j) # ConnOf(i)
      BY <2>2, <1>2, <1>3
    <3> QED BY <1>5, <2>2, <3>1, <3>2
  <2> QED BY <2>1, <2>2
<1>6. ConnOf(i) \in Conn
  BY <1>2
<1>t. /\ arrived[ConnOf(i)] \in Nat /\ accepted[ConnOf(i)] \in Nat
      /\ out[i] \in Nat /\ rec[i] \in Nat /\ held[i] \in Nat /\ held[i] < Frag
  BY <1>6 DEF TypeBytes
<1>7. CASE Sends(i)
  BY <1>4, <1>5, <1>6, <1>t, <1>7 DEF Sends, TypeBytes
<1>8. CASE Seals(i)
  BY <1>4, <1>5, <1>6, <1>t, <1>8 DEF Seals, TypeBytes
<1>9. CASE Fills(i)
  <2> DEFINE space == Frag - held[i]
             n == IF out[i] > space THEN space ELSE out[i]
  <2>1. n \in Nat /\ space \in Nat /\ n <= out[i] /\ n <= space
    BY <1>t
  <2>2. /\ rec[i] = 0 /\ out' = [out EXCEPT ![i] = @ - n] /\ UNCHANGED <<arrived, accepted>>
        /\ \/ n = space /\ rec' = [rec EXCEPT ![i] = Frag] /\ held' = [held EXCEPT ![i] = 0]
           \/ n # space /\ held' = [held EXCEPT ![i] = @ + n] /\ UNCHANGED rec
    BY <1>9 DEF Fills
  <2>3. TypeBytes'
    BY <1>t, <2>1, <2>2 DEF TypeBytes
  <2>4. accepted'[ConnOf(i)] = arrived'[ConnOf(i)] + rec'[i] + held'[i] + out'[i]
    BY <1>4, <1>t, <2>1, <2>2 DEF TypeBytes
  <2>5. \A j \in Slot : j # i => rec'[j] = rec[j] /\ held'[j] = held[j] /\ out'[j] = out[j]
    BY <2>2 DEF TypeBytes
  <2> QED BY <1>5, <2>2, <2>3, <2>4, <2>5
<1>10. CASE \E len \in SendLens : Queues(i, len)
  <2>1. PICK len \in SendLens : Queues(i, len)
    BY <1>10
  <2>2. len \in Nat
    OBVIOUS
  <2> QED BY <1>4, <1>5, <1>6, <1>t, <2>1, <2>2 DEF Queues, TypeBytes
<1> QED BY <1>7, <1>8, <1>9, <1>10 DEF Moves

\* A step keeps the account of every client in the table.
LEMMA BytesStep == IInv /\ [Next]_vars => BytesInv'
<1> SUFFICES ASSUME IInv, [Next]_vars PROVE BytesInv'
  OBVIOUS
<1>0. TableInv /\ BytesInv
  BY DEF IInv, TableInv, BytesInv
<1> USE ServerConstants
<1>1. CASE UNCHANGED <<tabVars, byteVars>>
  BY <1>0, <1>1 DEF tabVars, byteVars, BytesInv, TypeBytes, BytesAccounted, Active, ConnOf
<1>2. CASE \E i \in Slot : Active(i) /\ Moves(i) /\ UNCHANGED tabVars
  BY <1>0, <1>2, MovesKeepBytes
<1>3. CASE Clears
  BY <1>0, <1>3 DEF Clears, StartServer, netVars, appVars, BytesInv, TypeBytes, BytesAccounted,
     Active
<1>4. CASE \E i \in Slot : Closes(i)
  <2>1. PICK i \in Slot : Closes(i)
    BY <1>4
  <2>2. UNCHANGED byteVars
    BY <2>1 DEF Closes
  <2> QED
    BY <1>0, <2>1, <2>2, CloseKeepsTable DEF byteVars, BytesInv, TypeBytes, BytesAccounted
<1>5. CASE \E i \in Slot, f \in Fd, c \in backlog : Allocs(i, f, c)
  <2>1. PICK i \in Slot, f \in Fd, c \in backlog : Allocs(i, f, c)
    BY <1>5
  <2>2. c \in Conn /\ arrived[c] = 0 /\ accepted[c] = 0 /\ \A g \in Fd : sock[g] # c
    BY DEF IInv, FreshConns
  <2>3. /\ out' = [out EXCEPT ![i] = 0] /\ held' = [held EXCEPT ![i] = 0]
        /\ rec' = [rec EXCEPT ![i] = 0] /\ UNCHANGED <<arrived, accepted>>
    BY <2>1 DEF Allocs, ClientAlloc
  <2>4. TypeBytes'
    BY <1>0, <2>3 DEF BytesInv, TypeBytes
  <2>5. /\ \A j \in Slot : Active(j)' /\ j # i => Active(j) /\ ConnOf(j)' = ConnOf(j)
        /\ ConnOf(i)' = c
    BY <1>0, <2>1, <2>2, AllocKeepsTable
  <2>6. \A j \in Slot : j # i => out'[j] = out[j] /\ held'[j] = held[j] /\ rec'[j] = rec[j]
    BY <1>0, <2>3 DEF BytesInv, TypeBytes
  <2>7. out'[i] = 0 /\ held'[i] = 0 /\ rec'[i] = 0
    BY <1>0, <2>3 DEF BytesInv, TypeBytes
  <2>8. ASSUME NEW j \in Slot, Active(j)'
        PROVE  accepted'[ConnOf(j)'] = arrived'[ConnOf(j)'] + rec'[j] + held'[j] + out'[j]
    <3>1. CASE j = i
      BY <2>2, <2>3, <2>5, <2>7, <3>1
    <3>2. CASE j # i
      BY <1>0, <2>3, <2>5, <2>6, <2>8, <3>2 DEF BytesInv, BytesAccounted
    <3> QED BY <3>1, <3>2
  <2> QED BY <2>4, <2>8 DEF BytesInv, BytesAccounted
<1>6. CASE \E i \in Slot : Opens(i)
  <2>1. PICK i \in Slot : Opens(i)
    BY <1>6
  <2>2. \A j \in Slot : (Active(j)' <=> Active(j)) /\ ConnOf(j)' = ConnOf(j)
    BY <1>0, <2>1 DEF Opens, Active, ConnOf, TableInv, TypeTable
  <2> QED BY <1>0, <2>1, <2>2 DEF Opens, byteVars, BytesInv, TypeBytes, BytesAccounted
<1> QED BY <1>1, <1>2, <1>3, <1>4, <1>5, <1>6, ByteSteps

-----------------------------------------------------------------------------
(* The connections that are not accepted yet *)

\* A connection leaves "new" and the listen queue before a descriptor stands for
\* it, and bytes are counted for accepted connections only.
LEMMA FreshStep == IInv /\ [Next]_vars => FreshConns'
<1> SUFFICES ASSUME IInv, [Next]_vars PROVE FreshConns'
  OBVIOUS
<1>0. TableInv /\ BytesInv /\ FreshConns
  BY DEF IInv, TableInv, BytesInv
<1> USE ServerConstants
<1>a. \A i \in Slot : Active(i) => ConnOf(i) \in Conn /\ fd[i] \in Fd
  BY <1>0 DEF TableInv, ActiveHasFd, SessionsMatchTable, ConnOf, TypeTable
<1>b. \A i \in Slot : Active(i) => ConnOf(i) \notin backlog /\ link[ConnOf(i)] # "new"
  BY <1>0, <1>a DEF FreshConns, ConnOf
<1>queue. ASSUME UNCHANGED <<tabVars, byteVars>>,
                 link' \in [Conn -> {"new", "hello", "flight", "ready"}],
                 \A c \in Conn : link'[c] = "new" => link[c] = "new",
                 \A c \in backlog' : c \in Conn /\ link'[c] # "new",
                 \A c \in backlog' : c \in backlog \/ link[c] = "new"
          PROVE  FreshConns'
  BY <1>0, <1>queue DEF FreshConns, tabVars, byteVars
<1>1. CASE UNCHANGED <<tabVars, byteVars>>
  <2>1. CASE UNCHANGED <<link, backlog>>
    BY <1>0, <1>1, <2>1 DEF FreshConns, tabVars, byteVars
  <2>2. CASE AcceptDrops
    BY <1>0, <1>1, <1>queue, <2>2 DEF AcceptDrops, FreshConns
  <2>3. CASE \E c \in Conn : PeerConnects(c) \/ PeerFinishes(c)
    BY <1>0, <1>1, <1>queue, <2>3 DEF PeerConnects, PeerFinishes, FreshConns
  <2>4. CASE RecvHandshake
    <3>1. UNCHANGED backlog
      BY <2>4 DEF RecvHandshake
    <3>2. UNCHANGED link \/ link' = [link EXCEPT ![ConnOf(cur)] = "flight"]
      BY <2>4 DEF RecvHandshake
    <3> QED BY <1>0, <1>1, <1>queue, <3>1, <3>2 DEF FreshConns
  <2>5. \/ UNCHANGED <<link, backlog>> \/ AcceptDrops \/ RecvHandshake
        \/ (\E c \in Conn : PeerConnects(c) \/ PeerFinishes(c))
        \/ AcceptClient
    BY DEF Next, ServerStep, vars, netVars, StartServer, PollFails, PollReturns, AcceptEnds,
       ScanSkips, ScanEnds, RecvNothing, RecvRecord, RecvCloses, RecvFails, SendNothing,
       SendRecord, SendNotify, SendFails, CheckState, ReadPlain, ReadPlainFails, WritePlain,
       WriteNothing, CallbackReturns, SendJson, PeerSends, PeerDrains, PeerBreaks
  <2>6. ASSUME AcceptClient PROVE FALSE
    BY <1>0, <1>1, <2>6 DEF AcceptClient, TableInv, TypeTable, tabVars, FreshConns
  <2> QED BY <2>1, <2>2, <2>3, <2>4, <2>5, <2>6
<1>2. CASE \E i \in Slot : Active(i) /\ Moves(i) /\ UNCHANGED tabVars
  <2>1. PICK i \in Slot : Active(i) /\ Moves(i) /\ UNCHANGED tabVars
    BY <1>2
  <2>2. \A c \in Conn : c # ConnOf(i) => arrived'[c] = arrived[c] /\ accepted'[c] = accepted[c]
    BY <1>0, <2>1 DEF Moves, Sends, Seals, Fills, Queues, BytesInv, TypeBytes
  <2>3. CASE UNCHANGED <<link, backlog>>
    BY <1>0, <1>b, <2>1, <2>2, <2>3 DEF FreshConns, tabVars
  <2>4. ASSUME ~UNCHANGED <<link, backlog>> PROVE UNCHANGED <<tabVars, byteVars>> \/ AcceptClient
    BY <2>4 DEF Next, ServerStep, vars, netVars, tableVars, bufVars, appVars, tabVars, byteVars,
       StartServer, PollFails, PollReturns, AcceptDrops, AcceptEnds,
       ScanSkips, ScanEnds, RecvNothing, RecvHandshake, RecvRecord, RecvCloses, RecvFails,
       SendNothing, SendRecord, SendNotify, SendFails, CheckState, ReadPlain,
       ReadPlainFails, WritePlain, WriteNothing, CallbackReturns, SendJson, PeerConnects,
       PeerFinishes, PeerSends, PeerDrains, PeerBreaks
  <2>5. ASSUME AcceptClient PROVE FALSE
    BY <1>0, <2>1, <2>5 DEF AcceptClient, TableInv, TypeTable, tabVars, FreshConns
  <2> QED BY <1>1, <2>3, <2>4, <2>5
<1>3. CASE Clears
  BY <1>0, <1>3 DEF Clears, StartServer, netVars, appVars, FreshConns
<1>4. CASE \E i \in Slot : Closes(i)
  <2>1. PICK i \in Slot : Closes(i)
    BY <1>4
  <2>2. \A f \in Fd : sock'[f] \in {sock[f], NoConn}
    BY <1>0, <2>1, CloseKeepsTable
  <2>3. UNCHANGED <<link, backlog, arrived, accepted>>
    BY <2>1 DEF Closes, byteVars
  <2> QED BY <1>0, <2>2, <2>3 DEF FreshConns
<1>5. CASE \E i \in Slot, f \in Fd, c \in backlog : Allocs(i, f, c)
  BY <1>0, <1>5 DEF Allocs, FreshConns, TableInv, TypeTable
<1>6. CASE \E i \in Slot : Opens(i)
  BY <1>0, <1>6 DEF Opens, byteVars, FreshConns
<1> QED BY <1>1, <1>2, <1>3, <1>4, <1>5, <1>6, ByteSteps

-----------------------------------------------------------------------------
(* The theorems *)

\* The static initial values of g_clients[] satisfy the inductive invariant.
LEMMA InitInv == Init => IInv
<1> SUFFICES ASSUME Init PROVE IInv
  OBVIOUS
<1> USE ServerConstants
<1>1. TypeTable /\ ActiveHasFd /\ SessionsMatchTable /\ OneFd
  BY DEF Init, TypeTable, ActiveHasFd, SessionsMatchTable, OneFd, Active
<1>2. LoopPosition /\ FreshConns
  BY DEF Init, LoopPosition, FreshConns, PCs, Active
<1>3. TypeBytes /\ BytesAccounted
  BY DEF Init, TypeBytes, BytesAccounted, Active
<1> QED BY <1>1, <1>2, <1>3 DEF IInv

\* Every step of the server, the application and the peers keeps it.
LEMMA StepInv == IInv /\ [Next]_vars => IInv'
BY TableStep, LoopStep, BytesStep, FreshStep DEF IInv, TableInv, BytesInv

\* The inductive invariant of the server loop holds throughout every run.
THEOREM Inductive == Spec => []IInv
BY InitInv, StepInv, PTL DEF Spec

\* In the BearSSL server, too, the application's ids, g_clients[] and the
\* kernel's descriptors agree in every state, with select() and with WSAPoll().
THEOREM SessionsAgree == Spec => []SessionsMatchTable
BY Inductive, PTL DEF IInv

\* Every byte tlsv2_send_json accepted is in out_buf, in a record of the
\* client's engine or with the peer, and in one of them only, whatever the record
\* size, the sends and the reuse of entries and descriptors.
THEOREM NoByteLost == Spec => []BytesAccounted
BY Inductive, PTL DEF IInv

\* Only tlsv2_engine_read_plain changes what the application has received.
LEMMA ReceivedSteps ==
  ASSUME [Next]_vars
  PROVE  UNCHANGED received \/ ReadPlain
BY DEF Next, ServerStep, vars, appVars, StartServer, PollFails, PollReturns, AcceptClient,
   AcceptDrops, AcceptEnds, ScanSkips, ScanEnds, RecvNothing, RecvHandshake, RecvRecord,
   RecvCloses, RecvFails, SendNothing, SendRecord, SendNotify, SendFails, CheckState,
   ReadPlainFails, WritePlain, WriteNothing, CallbackReturns, SendJson, PeerConnects,
   PeerFinishes, PeerSends, PeerDrains, PeerBreaks

\* The BearSSL server implements ClientSessions as well: it keeps the contract
\* of the callbacks that an application written for the OpenSSL server relies on.
THEOREM ServerImplementsSessions == Spec => ImplementsSessions
<1>1. Init => Sessions!Init
  BY DEF Init, Sessions!Init
<1>2. IInv /\ [Next]_vars => [Sessions!Next]_(Sessions!vars)
  <2> SUFFICES ASSUME IInv, [Next]_vars PROVE [Sessions!Next]_(Sessions!vars)
    OBVIOUS
  <2>0. TypeTable /\ SessionsMatchTable /\ ActiveHasFd /\ FreshConns /\ LoopPosition
    BY DEF IInv
  <2>1. CASE ReadPlain
    <3>1. cur \in Slot /\ Active(cur)
      BY <2>0, <2>1, ServerConstants DEF ReadPlain, LoopPosition, Slot
    <3>2. fd[cur] \in Fd /\ session[fd[cur]] # NoConn /\ session[fd[cur]] = ConnOf(cur)
      BY <2>0, <3>1 DEF ActiveHasFd, SessionsMatchTable, ConnOf
    <3>3. received' = [received EXCEPT ![ConnOf(cur)] = @ + 1] /\ UNCHANGED session
      BY <2>1 DEF ReadPlain
    <3>4. Sessions!Json(fd[cur])
      BY <3>2, <3>3 DEF Sessions!Json
    <3> QED BY <3>2, <3>4 DEF Sessions!Next
  <2>2. CASE UNCHANGED received
    <3>1. CASE UNCHANGED tabVars \/ Clears \/ \E i \in Slot : Opens(i)
      BY <2>2, <3>1 DEF tabVars, Clears, StartServer, appVars, Opens, Sessions!vars
    <3>2. CASE \E i \in Slot : Closes(i)
      <4>1. PICK i \in Slot : Active(i) /\ ClientClose(i)
        BY <3>2 DEF Closes
      <4>2. fd[i] \in Fd /\ session[fd[i]] # NoConn
        BY <2>0, <4>1 DEF ActiveHasFd, SessionsMatchTable
      <4>3. Sessions!Disconnected(fd[i])
        BY <2>2, <4>1, <4>2 DEF ClientClose, Sessions!Disconnected
      <4> QED BY <4>2, <4>3 DEF Sessions!Next
    <3>3. CASE \E i \in Slot, f \in Fd, c \in backlog : Allocs(i, f, c)
      <4>1. PICK i \in Slot, f \in Fd, c \in backlog : Allocs(i, f, c)
        BY <3>3
      <4>2. c \in Conn /\ session[f] = NoConn /\ \A g \in Fd : session[g] # c
        BY <2>0, <4>1 DEF Allocs, SessionsMatchTable, FreshConns
      <4>3. Sessions!Connected(f, c)
        BY <2>2, <4>1, <4>2 DEF Allocs, Sessions!Connected
      <4> QED BY <4>2, <4>3 DEF Sessions!Next
    <3> QED BY <3>1, <3>2, <3>3, TableSteps
  <2> QED BY <2>1, <2>2, ReceivedSteps
<1> QED
  BY <1>1, <1>2, Inductive, PTL DEF Spec, ImplementsSessions, Sessions!Spec
=============================================================================
