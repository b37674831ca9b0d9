-------------------------- MODULE TlsV2ServerProofs --------------------------
(***************************************************************************)
(* Proofs about TlsV2Server, for every number of clients, descriptors,     *)
(* connections and messages.                                               *)
(***************************************************************************)
EXTENDS TlsV2Server, TLAPS

(* What a step does to the client table, the descriptors and the sessions *)

tableVars == <<sock, session, fd, state>>

TableInv == TypeTable /\ ActiveHasFd /\ SessionsMatchTable

Opens(i) == /\ state[i] = "HANDSHAKE"
            /\ state' = [state EXCEPT ![i] = "OPEN"]
            /\ UNCHANGED <<sock, session, fd>>

Allocs(i, f, c) == /\ sock[f] = NoConn
                   /\ FirstUnused(i)
                   /\ ClientAlloc(i, f)
                   /\ sock' = [sock EXCEPT ![f] = c]
                   /\ session' = [session EXCEPT ![f] = c]

Clears == /\ \A i \in Slot : ~Active(i)
          /\ ClientsInit
          /\ UNCHANGED <<sock, session>>

\* Closing a client keeps sessions, table and kernel in agreement.
LEMMA CloseKeepsTable ==
  ASSUME NEW i \in Slot, TableInv, Active(i), ClientClose(i)
  PROVE  TableInv'
<1> USE ServerConstants DEF TableInv, ActiveHasFd, Active
<1>1. fd[i] \in Fd
  OBVIOUS
<1>2. TypeTable'
  BY DEF TypeTable, ClientClose
<1>3. \A j \in Slot : Active(j)' <=> (Active(j) /\ j # i)
  BY DEF TypeTable, ClientClose
<1>4. \A j \in Slot : j # i => fd'[j] = fd[j]
  BY DEF TypeTable, ClientClose
<1>5. ActiveHasFd'
  BY <1>3, <1>4
<1>6. SessionsMatchTable'
  <2>1. session' = sock'
    BY DEF SessionsMatchTable, ClientClose
  <2>2. \A j, k \in Slot : Active(j)' /\ Active(k)' /\ fd'[j] = fd'[k] => j = k
    BY <1>3, <1>4 DEF SessionsMatchTable
  <2>3. ASSUME NEW f \in Fd
        PROVE  sock'[f] # NoConn <=> \E j \in Slot : Active(j)' /\ fd'[j] = f
    <3>1. CASE f = fd[i]
      BY <1>1, <1>3, <1>4, <3>1 DEF SessionsMatchTable, ClientClose, TypeTable
    <3>2. CASE f # fd[i]
      BY <1>1, <1>3, <1>4, <3>2 DEF SessionsMatchTable, ClientClose, TypeTable
    <3> QED BY <3>1, <3>2
  <2> QED BY <2>1, <2>2, <2>3 DEF SessionsMatchTable
<1> QED BY <1>2, <1>5, <1>6

\* So does giving a fresh descriptor the first free entry.
LEMMA AllocKeepsTable ==
  ASSUME NEW i \in Slot, NEW f \in Fd, NEW c \in Conn, TableInv, Allocs(i, f, c)
  PROVE  TableInv'
<1> USE ServerConstants DEF TableInv, ActiveHasFd, Active, Allocs, ClientAlloc, FirstUnused
<1>1. TypeTable'
  BY DEF TypeTable
<1>2. \A j \in Slot : Active(j)' <=> (Active(j) \/ j = i)
  BY DEF TypeTable
<1>3. fd'[i] = f /\ \A j \in Slot : j # i => fd'[j] = fd[j]
  BY DEF TypeTable
<1>4. ~Active(i) /\ \A j \in Slot : Active(j) => fd[j] # f
  BY DEF SessionsMatchTable
<1>5. ActiveHasFd'
  BY <1>2, <1>3
<1>6. SessionsMatchTable'
  <2>1. session' = sock'
    BY DEF SessionsMatchTable
  <2>2. \A j, k \in Slot : Active(j)' /\ Active(k)' /\ fd'[j] = fd'[k] => j = k
    BY <1>2, <1>3, <1>4 DEF SessionsMatchTable
  <2>3. ASSUME NEW g \in Fd
        PROVE  sock'[g] # NoConn <=> \E j \in Slot : Active(j)' /\ fd'[j] = g
    <3>1. CASE f = g
      BY <1>2, <1>3, <3>1 DEF TypeTable
    <3>2. CASE f # g
      BY <1>2, <1>3, <1>4, <3>2 DEF SessionsMatchTable, TypeTable
    <3> QED BY <3>1, <3>2
  <2> QED BY <2>1, <2>2, <2>3 DEF SessionsMatchTable
<1> QED BY <1>1, <1>5, <1>6

\* Every step leaves the table alone, or closes one client, or allocates one,
\* or completes one handshake, or clears a table without clients.
LEMMA TableSteps ==
  ASSUME IInv, [Next]_vars
  PROVE  \/ UNCHANGED tableVars
         \/ Clears
         \/ \E i \in Slot : Active(i) /\ ClientClose(i)
         \/ \E i \in Slot, f \in Fd, c \in backlog : Allocs(i, f, c)
         \/ \E i \in Slot : Opens(i)
<1> USE DEF tableVars
<1>a. cur < MaxClients => cur \in Slot
  BY ServerConstants DEF IInv, TypeOK, TypeLoop, Slot
<1>b. pc = "receive" => cur \in Slot /\ Active(cur)
  BY <1>a DEF IInv, LoopPosition, Active
<1>c. pc = "write" => cur \in Slot
  BY <1>a DEF IInv, LoopPosition
<1>1. CASE UNCHANGED vars
  BY <1>1 DEF vars
<1>2. CASE StartServer
  BY <1>2 DEF StartServer, Clears, IInv, LoopPosition
<1>3. CASE SelectFails \/ ServerReturns \/ SelectReturns \/ AcceptDrops \/ AcceptEnds
  BY <1>3 DEF SelectFails, ServerReturns, SelectReturns, AcceptDrops, AcceptEnds
<1>4. CASE ShutdownClient
  BY <1>4, <1>a DEF ShutdownClient
<1>5. CASE AcceptClient
  BY <1>5 DEF AcceptClient, Allocs
<1>6. CASE ReadSkips \/ ReadOpen \/ ReceiveDelivers \/ WriteSkips \/ LoopAgain
  BY <1>6 DEF ReadSkips, ReadOpen, ReceiveDelivers, WriteSkips, LoopAgain
<1>7. CASE ReadHandshake
  BY <1>7, <1>a DEF ReadHandshake, SslAccept, Opens, Active
<1>8. CASE WriteHandshake
  BY <1>8, <1>c DEF WriteHandshake, SslAccept, Opens, Active
<1>9. CASE ReceiveEnds
  BY <1>9, <1>b DEF ReceiveEnds
<1>10. CASE FlushWrites \/ FlushWants
  BY <1>10 DEF FlushWrites, FlushWants
<1>11. CASE FlushFails
  BY <1>11, <1>c DEF FlushFails, Active
<1>12. CASE CallbackReturns \/ \E id \in Fd, len \in 0..MaxJson : SendJson(id, len)
  BY <1>12 DEF CallbackReturns, SendJson
<1>13. CASE \E c \in Conn : \/ PeerConnects(c) \/ PeerFinishes(c) \/ PeerSends(c)
                            \/ PeerDrains(c) \/ PeerBreaks(c)
  BY <1>13 DEF PeerConnects, PeerFinishes, PeerSends, PeerDrains, PeerBreaks
<1> QED
  BY <1>1, <1>2, <1>3, <1>4, <1>5, <1>6, <1>7, <1>8, <1>9, <1>10, <1>11,
     <1>12, <1>13 DEF Next, ServerStep

\* A step keeps the client table, the kernel's descriptors and the sessions
\* consistent: it either leaves all three alone, or allocates or closes one entry.
LEMMA TableStep == IInv /\ [Next]_vars => TableInv'
<1> SUFFICES ASSUME IInv, [Next]_vars PROVE TableInv'
  OBVIOUS
<1>0. TableInv
  BY DEF IInv, TypeOK, TableInv
<1>1. CASE UNCHANGED tableVars
  BY <1>0, <1>1 DEF tableVars, TableInv, TypeTable, ActiveHasFd, Active, SessionsMatchTable
<1>2. CASE Clears
  BY <1>0, <1>2 DEF Clears, ClientsInit, TableInv, TypeTable, ActiveHasFd, Active,
                    SessionsMatchTable
<1>3. CASE \E i \in Slot : Active(i) /\ ClientClose(i)
  BY <1>0, <1>3, CloseKeepsTable
<1>4. CASE \E i \in Slot, f \in Fd, c \in backlog : Allocs(i, f, c)
  <2>1. backlog \subseteq Conn
    BY DEF IInv, TypeOK, TypeNet
  <2> QED BY <1>0, <1>4, <2>1, AllocKeepsTable
<1>5. CASE \E i \in Slot : Opens(i)
  <2>1. PICK i \in Slot : Opens(i)
    BY <1>5
  <2>2. \A j \in Slot : Active(j)' <=> Active(j)
    BY <1>0, <2>1 DEF Opens, Active, TableInv, TypeTable
  <2> QED
    BY <1>0, <2>1, <2>2 DEF Opens, TableInv, TypeTable, ActiveHasFd, SessionsMatchTable
<1> QED
  BY <1>1, <1>2, <1>3, <1>4, <1>5, TableSteps

-----------------------------------------------------------------------------
(* The out buffers *)

OutInv == TypeOut /\ RetryUnchanged /\ RetryIsPending

\* Filling an out buffer is only possible when no write is to be retried.
LEMMA QueueKeepsOut ==
  ASSUME NEW i \in Slot, NEW len \in 0..MaxJson, OutInv, sends \in Nat,
         QueueSend(i, len), UNCHANGED retry
  PROVE  OutInv'
<1> USE ServerConstants DEF OutInv, TypeOut, QueueSend
<1>1. TypeOut'
  OBVIOUS
<1>2. retry[i] = NoRetry
  BY DEF RetryIsPending
<1>3. \A j \in Slot : j # i => outUsed'[j] = outUsed[j] /\ outSent'[j] = outSent[j]
                              /\ outMsg'[j] = outMsg[j]
  OBVIOUS
<1> QED
  BY <1>1, <1>2, <1>3 DEF RetryUnchanged, RetryIsPending, WriteArgs, NoRetry

\* Resetting an entry, in any of the ways the code does it.
LEMMA ResetKeepsOut ==
  ASSUME NEW i \in Slot, OutInv,
         outUsed' = [outUsed EXCEPT ![i] = 0],
         outSent' = [outSent EXCEPT ![i] = 0],
         outMsg' = [outMsg EXCEPT ![i] = 0] \/ UNCHANGED outMsg,
         retry' = [retry EXCEPT ![i] = NoRetry]
  PROVE  OutInv'
<1> USE DEF OutInv, TypeOut
<1>1. TypeOut'
  BY DEF NoRetry
<1>2. retry'[i] = NoRetry
  OBVIOUS
<1>3. \A j \in Slot : j # i => /\ outUsed'[j] = outUsed[j] /\ outSent'[j] = outSent[j]
                              /\ outMsg'[j] = outMsg[j] /\ retry'[j] = retry[j]
  OBVIOUS
<1> QED
  BY <1>1, <1>2, <1>3 DEF RetryUnchanged, RetryIsPending, WriteArgs, NoRetry

\* A step keeps the out_buf counters of every entry and the arguments of an
\* interrupted SSL_write consistent.
LEMMA OutStep == IInv /\ [Next]_vars => OutInv'
<1> SUFFICES ASSUME IInv, [Next]_vars PROVE OutInv'
  OBVIOUS
<1>0. OutInv /\ sends \in Nat
  BY DEF IInv, TypeOK, TypeApp, OutInv
<1>a. cur < MaxClients => cur \in Slot
  BY ServerConstants DEF IInv, TypeOK, TypeLoop, Slot
<1>b. pc \in {"receive", "write"} => cur \in Slot
  BY <1>a DEF IInv, LoopPosition
<1>same. ASSUME UNCHANGED outVars PROVE OutInv'
  BY <1>0, <1>same DEF outVars, OutInv, TypeOut, RetryUnchanged, RetryIsPending, WriteArgs
<1>close. ASSUME NEW i \in Slot, ClientClose(i) PROVE OutInv'
  BY <1>0, <1>close, ResetKeepsOut DEF ClientClose
<1>1. CASE UNCHANGED vars
  BY <1>1, <1>same DEF vars
<1>2. CASE StartServer
  BY <1>2, <1>0 DEF StartServer, ClientsInit, OutInv, TypeOut, RetryUnchanged,
                    RetryIsPending, NoRetry
<1>3. CASE SelectFails \/ ServerReturns \/ SelectReturns \/ AcceptDrops \/ AcceptEnds
  BY <1>3, <1>same DEF SelectFails, ServerReturns, SelectReturns, AcceptDrops, AcceptEnds
<1>4. CASE ShutdownClient
  BY <1>4, <1>a, <1>same, <1>close DEF ShutdownClient
<1>5. CASE AcceptClient
  BY <1>5, <1>0, ResetKeepsOut DEF AcceptClient, ClientAlloc
<1>6. CASE ReadSkips \/ ReadOpen \/ ReceiveDelivers \/ WriteSkips \/ LoopAgain
  BY <1>6, <1>same DEF ReadSkips, ReadOpen, ReceiveDelivers, WriteSkips, LoopAgain
<1>7. CASE ReadHandshake
  BY <1>7, <1>a, <1>same, <1>close DEF ReadHandshake, SslAccept
<1>8. CASE WriteHandshake
  BY <1>8, <1>b, <1>same, <1>close DEF WriteHandshake, SslAccept
<1>9. CASE ReceiveEnds
  BY <1>9, <1>b, <1>same, <1>close DEF ReceiveEnds
<1>10. CASE FlushWrites
  <2>1. cur \in Slot
    BY <1>10, <1>b DEF FlushWrites
  <2>2. PICK n \in 1..(outUsed[cur] - outSent[cur]) :
          IF outSent[cur] + n >= outUsed[cur]
          THEN /\ outUsed' = [outUsed EXCEPT ![cur] = 0]
               /\ outSent' = [outSent EXCEPT ![cur] = 0]
          ELSE /\ outSent' = [outSent EXCEPT ![cur] = @ + n]
               /\ UNCHANGED outUsed
    BY <1>10 DEF FlushWrites
  <2>3. retry' = [retry EXCEPT ![cur] = NoRetry] /\ UNCHANGED outMsg
    BY <1>10 DEF FlushWrites
  <2>4. CASE outSent[cur] + n >= outUsed[cur]
    BY <1>0, <2>1, <2>2, <2>3, <2>4, ResetKeepsOut
  <2>5. CASE ~(outSent[cur] + n >= outUsed[cur])
    <3>1. outSent' = [outSent EXCEPT ![cur] = @ + n] /\ UNCHANGED outUsed
      BY <2>2, <2>5
    <3>2. TypeOut'
      BY <1>0, <2>1, <2>3, <3>1 DEF OutInv, TypeOut, NoRetry
    <3>3. retry'[cur] = NoRetry
      BY <1>0, <2>1, <2>3 DEF OutInv, TypeOut
    <3>4. \A j \in Slot : j # cur => outSent'[j] = outSent[j] /\ retry'[j] = retry[j]
      BY <1>0, <2>3, <3>1 DEF OutInv, TypeOut
    <3> QED
      BY <1>0, <2>3, <3>1, <3>2, <3>3, <3>4
         DEF OutInv, RetryUnchanged, RetryIsPending, WriteArgs, NoRetry
  <2> QED BY <2>4, <2>5
<1>11. CASE FlushWants
  <2>1. cur \in Slot
    BY <1>11, <1>b DEF FlushWants
  <2>2. /\ retry' = [retry EXCEPT ![cur] = WriteArgs(cur)]
        /\ outSent[cur] < outUsed[cur]
        /\ UNCHANGED <<outUsed, outSent, outMsg>>
    BY <1>11 DEF FlushWants
  <2> QED
    BY <1>0, <2>1, <2>2 DEF OutInv, TypeOut, RetryUnchanged, RetryIsPending, WriteArgs
<1>12. CASE FlushFails
  BY <1>12, <1>b, <1>close DEF FlushFails
<1>13. CASE CallbackReturns
  BY <1>13, <1>same DEF CallbackReturns
<1>14. CASE \E id \in Fd, len \in 0..MaxJson : SendJson(id, len)
  BY <1>14, <1>0, QueueKeepsOut DEF SendJson
<1>15. CASE \E c \in Conn : \/ PeerConnects(c) \/ PeerFinishes(c) \/ PeerSends(c)
                            \/ PeerDrains(c) \/ PeerBreaks(c)
  BY <1>15, <1>same DEF PeerConnects, PeerFinishes, PeerSends, PeerDrains, PeerBreaks
<1> QED
  BY <1>1, <1>2, <1>3, <1>4, <1>5, <1>6, <1>7, <1>8, <1>9, <1>10, <1>11,
     <1>12, <1>13, <1>14, <1>15 DEF Next, ServerStep

-----------------------------------------------------------------------------
(* The network, the application and the loop *)

\* What closing a client, or SSL_accept, does to the network.
LEMMA CloseKeepsNet ==
  ASSUME NEW i \in Slot, TypeNet, ClientClose(i), UNCHANGED <<pending, room, backlog>>
  PROVE  TypeNet' /\ cb' \in Callbacks
BY DEF TypeNet, Links, ClientClose, Callbacks

\* A step keeps the types of the network's and the application's variables.
LEMMA NetStep == IInv /\ [Next]_vars => TypeNet' /\ TypeApp'
<1> SUFFICES ASSUME IInv, [Next]_vars PROVE TypeNet' /\ TypeApp'
  OBVIOUS
<1>0. TypeNet /\ TypeApp
  BY DEF IInv, TypeOK
<1>a. cur < MaxClients => cur \in Slot
  BY ServerConstants DEF IInv, TypeOK, TypeLoop, Slot
<1>b. pc \in {"receive", "write"} => cur \in Slot
  BY <1>a DEF IInv, LoopPosition
<1>same. ASSUME UNCHANGED netVars PROVE TypeNet'
  BY <1>0, <1>same DEF netVars, TypeNet
<1>app. ASSUME UNCHANGED <<cb, received, sends>> PROVE TypeApp'
  BY <1>0, <1>app DEF TypeApp
<1>called. ASSUME cb' \in Callbacks, UNCHANGED <<received, sends>> PROVE TypeApp'
  BY <1>0, <1>called DEF TypeApp
<1>1. CASE UNCHANGED vars
  BY <1>1, <1>same, <1>app DEF vars
<1>2. CASE StartServer \/ ServerReturns \/ SelectReturns \/ AcceptEnds \/ ReadSkips
           \/ ReadOpen \/ WriteSkips \/ LoopAgain
  BY <1>2, <1>same, <1>app DEF StartServer, ServerReturns, SelectReturns, AcceptEnds,
     ReadSkips, ReadOpen, WriteSkips, LoopAgain
<1>3. CASE SelectFails \/ AcceptDrops
  BY <1>0, <1>3, <1>app DEF SelectFails, AcceptDrops, TypeNet, Links
<1>4. CASE ShutdownClient
  <2>1. CASE Active(cur)
    BY <1>0, <1>4, <2>1, <1>a, <1>called, CloseKeepsNet DEF ShutdownClient
  <2>2. CASE ~Active(cur)
    BY <1>4, <2>2, <1>same, <1>app DEF ShutdownClient, netVars
  <2> QED BY <2>1, <2>2
<1>5. CASE AcceptClient
  BY <1>0, <1>5, <1>called DEF AcceptClient, TypeNet, Callbacks
<1>6. ASSUME NEW i \in Slot, SslAccept(i), UNCHANGED <<pending, room, backlog, received, sends>>
      PROVE  TypeNet' /\ TypeApp'
  <2>1. CASE ClientClose(i)
    BY <1>0, <1>6, <2>1, <1>called, CloseKeepsNet
  <2>2. CASE ~ClientClose(i)
    BY <1>0, <1>6, <2>2, <1>app DEF SslAccept, TypeNet, Links
  <2> QED BY <2>1, <2>2
<1>7. CASE ReadHandshake
  BY <1>6, <1>7, <1>a DEF ReadHandshake
<1>8. CASE WriteHandshake
  BY <1>6, <1>8, <1>b DEF WriteHandshake
<1>9. CASE ReceiveDelivers
  <2>1. cur \in Slot /\ sock[fd[cur]] \in Conn
    BY <1>9, <1>b DEF ReceiveDelivers, IInv, TypeOK, TypeTable, ActiveHasFd, Active,
                      LoopPosition, SessionsMatchTable
  <2>2. /\ pending[sock[fd[cur]]] > 0
        /\ pending' = [pending EXCEPT ![sock[fd[cur]]] = @ - 1]
        /\ received' = [received EXCEPT ![sock[fd[cur]]] = @ + 1]
        /\ cb' = "json" /\ UNCHANGED <<link, room, backlog, sends>>
    BY <1>9 DEF ReceiveDelivers
  <2>3. pending' \in [Conn -> Nat] /\ received' \in [Conn -> Nat]
    BY <1>0, <2>1, <2>2 DEF TypeNet, TypeApp
  <2> QED
    BY <1>0, <2>2, <2>3 DEF TypeNet, TypeApp, Callbacks
<1>10. CASE ReceiveEnds
  <2>1. CASE Lost(sock[fd[cur]])
    BY <1>0, <1>10, <2>1, <1>b, <1>called, CloseKeepsNet DEF ReceiveEnds
  <2>2. CASE ~Lost(sock[fd[cur]])
    BY <1>10, <2>2, <1>same, <1>app DEF ReceiveEnds, netVars
  <2> QED BY <2>1, <2>2
<1>11. CASE FlushWrites \/ FlushWants
  BY <1>0, <1>11, <1>app DEF FlushWrites, FlushWants, TypeNet
<1>12. CASE FlushFails
  BY <1>0, <1>12, <1>b, <1>called, CloseKeepsNet DEF FlushFails
<1>13. CASE CallbackReturns
  BY <1>13, <1>same, <1>called DEF CallbackReturns, Callbacks
<1>14. CASE \E id \in Fd, len \in 0..MaxJson : SendJson(id, len)
  BY <1>0, <1>14, <1>same DEF SendJson, TypeApp
<1>15. CASE \E c \in Conn : \/ PeerConnects(c) \/ PeerFinishes(c) \/ PeerSends(c)
                            \/ PeerDrains(c) \/ PeerBreaks(c)
  <2> PICK c \in Conn : \/ PeerConnects(c) \/ PeerFinishes(c) \/ PeerSends(c)
                        \/ PeerDrains(c) \/ PeerBreaks(c)
    BY <1>15
  <2>1. CASE PeerConnects(c) \/ PeerFinishes(c)
    BY <1>0, <2>1, <1>app DEF PeerConnects, PeerFinishes, TypeNet, Links
  <2>2. CASE PeerSends(c)
    BY <1>0, <2>2, <1>app DEF PeerSends, TypeNet
  <2>3. CASE PeerDrains(c)
    BY <1>0, <2>3, <1>app DEF PeerDrains, TypeNet
  <2>4. CASE PeerBreaks(c)
    <3>1. link' \in [Conn -> Links] /\ pending' \in [Conn -> Nat]
      BY <1>0, <2>4 DEF PeerBreaks, TypeNet, Links
    <3> QED
      BY <1>0, <2>4, <3>1, <1>app DEF PeerBreaks, TypeNet
  <2> QED BY <2>1, <2>2, <2>3, <2>4
<1> QED
  BY <1>1, <1>2, <1>3, <1>4, <1>5, <1>7, <1>8, <1>9, <1>10, <1>11, <1>12,
     <1>13, <1>14, <1>15 DEF Next, ServerStep

\* Where the loop can be after a step.
LEMMA LoopStep == IInv /\ [Next]_vars => TypeLoop' /\ LoopPosition'
<1> SUFFICES ASSUME IInv, [Next]_vars PROVE TypeLoop' /\ LoopPosition'
  OBVIOUS
<1>0. TypeLoop /\ LoopPosition /\ TypeTable /\ ActiveHasFd
  BY DEF IInv, TypeOK
<1> USE ServerConstants
<1>a. cur < MaxClients => cur \in Slot
  BY <1>0 DEF TypeLoop, Slot
<1>same. ASSUME UNCHANGED loopVars, UNCHANGED state PROVE TypeLoop' /\ LoopPosition'
  BY <1>0, <1>same DEF loopVars, TypeLoop, LoopPosition, Active
<1>1. CASE UNCHANGED vars
  BY <1>1, <1>same DEF vars
<1>2. CASE StartServer
  BY <1>0, <1>2 DEF StartServer, TypeLoop, LoopPosition, PCs
<1>3. CASE SelectFails
  BY <1>0, <1>3 DEF SelectFails, TypeLoop, LoopPosition, PCs, Slot
<1>4. CASE ShutdownClient
  <2>1. TypeLoop'
    BY <1>0, <1>4 DEF ShutdownClient, TypeLoop
  <2>2. \A i \in Slot : i < cur' => ~Active(i)'
    <3> SUFFICES ASSUME NEW i \in Slot, i < cur + 1 PROVE ~Active(i)'
      BY <1>4 DEF ShutdownClient
    <3>1. CASE i = cur
      BY <1>0, <1>4, <1>a, <3>1 DEF ShutdownClient, ClientClose, Active, TypeTable, outVars
    <3>2. CASE i # cur
      <4>1. i < cur
        BY <1>0, <3>2 DEF TypeLoop, Slot
      <4>2. ~Active(i)
        BY <1>0, <1>4, <4>1 DEF ShutdownClient, LoopPosition
      <4> QED
        BY <1>0, <1>4, <3>2, <4>2 DEF ShutdownClient, ClientClose, Active, TypeTable
    <3> QED BY <3>1, <3>2
  <2> QED
    BY <1>4, <2>1, <2>2 DEF ShutdownClient, LoopPosition
<1>5. CASE ServerReturns
  BY <1>0, <1>5 DEF ServerReturns, TypeLoop, LoopPosition, PCs, Slot, Active
<1>6. CASE SelectReturns
  <2>1. readfds' \subseteq Fd /\ writefds' \subseteq Fd
    BY <1>0, <1>6 DEF SelectReturns, PollRead, PollWrite, ActiveHasFd, Active
  <2>2. pc' \in {"accept", "read"} /\ cur' = 0 /\ polled' = sock
    BY <1>6 DEF SelectReturns
  <2> QED
    BY <1>0, <2>1, <2>2 DEF TypeLoop, TypeTable, LoopPosition, PCs
<1>7. CASE AcceptClient
  BY <1>0, <1>7 DEF AcceptClient, loopVars, TypeLoop, LoopPosition
<1>8. CASE AcceptDrops \/ ReceiveDelivers \/ CallbackReturns
  BY <1>8, <1>same DEF AcceptDrops, ReceiveDelivers, CallbackReturns
<1>9. CASE AcceptEnds
  BY <1>0, <1>9 DEF AcceptEnds, TypeLoop, LoopPosition, PCs
<1>10. CASE ReadSkips \/ ReadOpen
  BY <1>0, <1>10 DEF ReadSkips, ReadOpen, TypeLoop, LoopPosition, PCs
<1>11. CASE ReadHandshake
  BY <1>0, <1>11 DEF ReadHandshake, TypeLoop, LoopPosition, PCs
<1>12. CASE ReceiveEnds
  BY <1>0, <1>12 DEF ReceiveEnds, TypeLoop, LoopPosition, PCs
<1>13. CASE WriteSkips \/ WriteHandshake \/ FlushWrites \/ FlushWants \/ FlushFails
  <2>1. pc = "write" /\ NextSlot /\ UNCHANGED <<readfds, writefds, polled>>
    BY <1>13 DEF WriteSkips, WriteHandshake, FlushWrites, FlushWants, FlushFails
  <2> QED
    BY <1>0, <2>1 DEF NextSlot, TypeLoop, LoopPosition, PCs
<1>14. CASE LoopAgain
  BY <1>0, <1>14 DEF LoopAgain, TypeLoop, LoopPosition, PCs
<1>15. CASE \E id \in Fd, len \in 0..MaxJson : SendJson(id, len)
  BY <1>15, <1>same DEF SendJson
<1>16. CASE \E c \in Conn : \/ PeerConnects(c) \/ PeerFinishes(c) \/ PeerSends(c)
                            \/ PeerDrains(c) \/ PeerBreaks(c)
  BY <1>16, <1>same DEF PeerConnects, PeerFinishes, PeerSends, PeerDrains, PeerBreaks
<1> QED
  BY <1>1, <1>2, <1>3, <1>4, <1>5, <1>6, <1>7, <1>8, <1>9, <1>10, <1>11,
     <1>12, <1>13, <1>14, <1>15, <1>16 DEF Next, ServerStep

\* A connection is in the listen queue or under a descriptor, never both.
LEMMA QueueStep == IInv /\ [Next]_vars => QueuedHasNoFd'
<1> SUFFICES ASSUME IInv, [Next]_vars PROVE QueuedHasNoFd'
  OBVIOUS
<1>0. QueuedHasNoFd /\ TypeNet /\ TypeTable
  BY DEF IInv, TypeOK
<1> USE ServerConstants
<1>a. cur < MaxClients => cur \in Slot
  BY DEF IInv, TypeOK, TypeLoop, Slot
<1>b. pc \in {"receive", "write"} => cur \in Slot
  BY <1>a DEF IInv, LoopPosition
<1>same. ASSUME UNCHANGED <<link, backlog, sock>> PROVE QueuedHasNoFd'
  BY <1>0, <1>same DEF QueuedHasNoFd
<1>close. ASSUME NEW i \in Slot, ClientClose(i), UNCHANGED backlog PROVE QueuedHasNoFd'
  <2>1. \A f \in Fd : sock'[f] \in {sock[f], NoConn}
    BY <1>0, <1>close DEF ClientClose, TypeTable
  <2>2. \A c \in Conn : link'[c] \in {link[c], "broken"}
    BY <1>0, <1>close DEF ClientClose, TypeNet
  <2> QED
    BY <1>0, <1>close, <2>1, <2>2 DEF QueuedHasNoFd, TypeNet
<1>1. CASE UNCHANGED vars
  BY <1>1, <1>same DEF vars, netVars
<1>2. CASE StartServer \/ ServerReturns \/ SelectReturns \/ AcceptEnds \/ ReadSkips
           \/ ReadOpen \/ ReceiveDelivers \/ WriteSkips \/ FlushWrites \/ FlushWants
           \/ LoopAgain \/ CallbackReturns
  BY <1>2, <1>same DEF StartServer, ServerReturns, SelectReturns, AcceptEnds, ReadSkips,
     ReadOpen, ReceiveDelivers, WriteSkips, FlushWrites, FlushWants, LoopAgain,
     CallbackReturns, netVars
<1>3. CASE SelectFails \/ AcceptDrops
  BY <1>0, <1>3 DEF SelectFails, AcceptDrops, QueuedHasNoFd, TypeNet
<1>4. CASE ShutdownClient
  BY <1>4, <1>a, <1>same, <1>close DEF ShutdownClient
<1>5. CASE AcceptClient
  BY <1>0, <1>5 DEF AcceptClient, QueuedHasNoFd, TypeNet, TypeTable
<1>6. ASSUME NEW i \in Slot, SslAccept(i), UNCHANGED backlog PROVE QueuedHasNoFd'
  <2>1. CASE ClientClose(i)
    BY <1>6, <2>1, <1>close
  <2>2. CASE ~ClientClose(i)
    <3>1. \A c \in Conn : link'[c] = link[c]
                          \/ (link[c] \in {"hello", "flight"} /\ link'[c] = "flight")
      BY <1>0, <1>6, <2>2 DEF SslAccept, TypeNet
    <3>2. UNCHANGED <<backlog, sock>>
      BY <1>6, <2>2 DEF SslAccept
    <3> QED BY <1>0, <3>1, <3>2 DEF QueuedHasNoFd, TypeNet
  <2> QED BY <2>1, <2>2
<1>7. CASE ReadHandshake
  BY <1>6, <1>7, <1>a DEF ReadHandshake
<1>8. CASE WriteHandshake
  BY <1>6, <1>8, <1>b DEF WriteHandshake
<1>9. CASE ReceiveEnds
  BY <1>9, <1>b, <1>same, <1>close DEF ReceiveEnds
<1>10. CASE FlushFails
  BY <1>10, <1>b, <1>close DEF FlushFails
<1>11. CASE \E id \in Fd, len \in 0..MaxJson : SendJson(id, len)
  BY <1>11, <1>same DEF SendJson, netVars
<1>12. CASE \E c \in Conn : \/ PeerConnects(c) \/ PeerFinishes(c) \/ PeerSends(c)
                            \/ PeerDrains(c) \/ PeerBreaks(c)
  <2> PICK c \in Conn : \/ PeerConnects(c) \/ PeerFinishes(c) \/ PeerSends(c)
                        \/ PeerDrains(c) \/ PeerBreaks(c)
    BY <1>12
  <2>1. CASE PeerSends(c) \/ PeerDrains(c)
    BY <2>1, <1>same DEF PeerSends, PeerDrains
  <2>2. CASE PeerConnects(c)
    BY <1>0, <2>2 DEF PeerConnects, QueuedHasNoFd, TypeNet
  <2>3. CASE PeerFinishes(c) \/ PeerBreaks(c)
    <3>1. /\ link[c] # "new" /\ UNCHANGED <<backlog, sock>>
          /\ \E l \in {"ready", "gone", "broken"} : link' = [link EXCEPT ![c] = l]
      BY <2>3 DEF PeerFinishes, PeerBreaks
    <3> QED BY <1>0, <3>1 DEF QueuedHasNoFd, TypeNet
  <2> QED BY <2>1, <2>2, <2>3
<1> QED
  BY <1>1, <1>2, <1>3, <1>4, <1>5, <1>7, <1>8, <1>9, <1>10, <1>11, <1>12
     DEF Next, ServerStep

\* A descriptor is handed out again only after select() was asked anew.
LEMMA ReportedStep == IInv /\ [Next]_vars => ReportedIsOld'
<1> SUFFICES ASSUME IInv, [Next]_vars PROVE ReportedIsOld'
  OBVIOUS
<1>0. ReportedIsOld /\ TypeLoop /\ TableInv
  BY DEF IInv, TypeOK, TableInv
<1>a. cur < MaxClients => cur \in Slot
  BY ServerConstants DEF IInv, TypeOK, TypeLoop, Slot
<1>b. pc \in {"receive", "write"} => cur \in Slot
  BY <1>a DEF IInv, LoopPosition
<1>scan. ASSUME pc \in {"accept", "read", "receive", "write"},
                pc' \in {"read", "receive", "write", "select"},
                \A f \in Fd : sock'[f] = sock[f] \/ sock'[f] = NoConn,
                UNCHANGED <<readfds, writefds, polled>>
         PROVE  ReportedIsOld'
  BY <1>0, <1>scan DEF ReportedIsOld, TypeLoop
<1>close. ASSUME NEW i \in Slot, ClientClose(i)
          PROVE  \A f \in Fd : sock'[f] = sock[f] \/ sock'[f] = NoConn
  BY <1>0, <1>close DEF ClientClose, TableInv, TypeTable
<1>same. ASSUME UNCHANGED loopVars, UNCHANGED sock PROVE ReportedIsOld'
  BY <1>0, <1>same DEF loopVars, ReportedIsOld
<1>1. CASE UNCHANGED vars
  BY <1>1, <1>same DEF vars
<1>2. CASE StartServer \/ SelectFails \/ ShutdownClient \/ ServerReturns \/ LoopAgain
  <2>1. pc' \in {"select", "shutdown", "stopped"}
    BY <1>2 DEF StartServer, SelectFails, ShutdownClient, ServerReturns, LoopAgain
  <2> QED BY <2>1 DEF ReportedIsOld
<1>3. CASE SelectReturns
  <2>1. /\ readfds' \subseteq PollRead /\ writefds' \subseteq PollWrite
        /\ polled' = sock /\ UNCHANGED sock
    BY <1>3 DEF SelectReturns
  <2>2. \A f \in PollRead \cup PollWrite : f \in Fd /\ sock[f] # NoConn
    BY <1>0 DEF PollRead, PollWrite, TableInv, ActiveHasFd, Active, SessionsMatchTable
  <2> QED BY <2>1, <2>2 DEF ReportedIsOld
<1>4. CASE AcceptClient
  <2>1. PICK f \in Fd, c \in backlog : sock[f] = NoConn /\ sock' = [sock EXCEPT ![f] = c]
    BY <1>4 DEF AcceptClient
  <2>2. pc = "accept" /\ UNCHANGED loopVars
    BY <1>4 DEF AcceptClient
  <2>3. f \notin readfds \cup writefds
    BY <1>0, <2>1, <2>2 DEF ReportedIsOld
  <2> QED
    BY <1>0, <2>1, <2>2, <2>3 DEF loopVars, ReportedIsOld, TypeLoop, TableInv, TypeTable
<1>5. CASE AcceptDrops \/ ReceiveDelivers \/ CallbackReturns
  BY <1>5, <1>same DEF AcceptDrops, ReceiveDelivers, CallbackReturns
<1>6. CASE AcceptEnds \/ ReadSkips \/ ReadOpen \/ WriteSkips \/ FlushWrites \/ FlushWants
  BY <1>6, <1>scan DEF AcceptEnds, ReadSkips, ReadOpen, WriteSkips, FlushWrites,
     FlushWants, NextSlot
<1>7. CASE ReadHandshake
  <2>1. \A f \in Fd : sock'[f] = sock[f] \/ sock'[f] = NoConn
    BY <1>7, <1>a, <1>close DEF ReadHandshake, SslAccept
  <2> QED BY <1>7, <1>scan, <2>1 DEF ReadHandshake
<1>8. CASE WriteHandshake
  <2>1. \A f \in Fd : sock'[f] = sock[f] \/ sock'[f] = NoConn
    BY <1>8, <1>b, <1>close DEF WriteHandshake, SslAccept
  <2> QED BY <1>8, <1>scan, <2>1 DEF WriteHandshake, NextSlot
<1>9. CASE ReceiveEnds
  <2>1. \A f \in Fd : sock'[f] = sock[f] \/ sock'[f] = NoConn
    BY <1>9, <1>b, <1>close DEF ReceiveEnds
  <2> QED BY <1>9, <1>scan, <2>1 DEF ReceiveEnds
<1>10. CASE FlushFails
  BY <1>10, <1>b, <1>close, <1>scan DEF FlushFails, NextSlot
<1>11. CASE \E id \in Fd, len \in 0..MaxJson : SendJson(id, len)
  BY <1>11, <1>same DEF SendJson
<1>12. CASE \E c \in Conn : \/ PeerConnects(c) \/ PeerFinishes(c) \/ PeerSends(c)
                            \/ PeerDrains(c) \/ PeerBreaks(c)
  BY <1>12, <1>same DEF PeerConnects, PeerFinishes, PeerSends, PeerDrains, PeerBreaks
<1> QED
  BY <1>1, <1>2, <1>3, <1>4, <1>5, <1>6, <1>7, <1>8, <1>9, <1>10, <1>11,
     <1>12 DEF Next, ServerStep

-----------------------------------------------------------------------------
(* The theorems *)

\* The static initial values of g_clients[] satisfy the inductive invariant.
LEMMA InitInv == Init => IInv
<1> SUFFICES ASSUME Init PROVE IInv
  OBVIOUS
<1> USE ServerConstants
<1>1. TypeOK
  BY DEF Init, TypeOK, TypeNet, TypeTable, TypeOut, TypeLoop, TypeApp, Links, PCs,
         Callbacks, NoRetry
<1>2. LoopPosition /\ ActiveHasFd /\ SessionsMatchTable
  BY DEF Init, LoopPosition, ActiveHasFd, SessionsMatchTable, Active
<1>3. QueuedHasNoFd /\ ReportedIsOld /\ RetryUnchanged /\ RetryIsPending
  BY DEF Init, QueuedHasNoFd, ReportedIsOld, RetryUnchanged, RetryIsPending
<1> QED BY <1>1, <1>2, <1>3 DEF IInv

\* Every step of the server, the application and the peers keeps it.
LEMMA StepInv == IInv /\ [Next]_vars => IInv'
BY TableStep, OutStep, NetStep, LoopStep, QueueStep, ReportedStep
   DEF IInv, TypeOK, TableInv, OutInv

\* The inductive invariant of the server loop holds throughout every run.
THEOREM Inductive == Spec => []IInv
BY InitInv, StepInv, PTL DEF Spec

\* Every variable of the loop, the table and the kernel keeps its type, in
\* particular no frame is handed over that is not there.
THEOREM TypeCorrect == Spec => []TypeOK
BY Inductive, PTL DEF IInv

\* The application's ids, g_clients[] and the kernel's descriptors agree in
\* every state, callbacks, failed handshakes and shutdown included.
THEOREM SessionsAgree == Spec => []SessionsMatchTable
BY Inductive, PTL DEF IInv

\* No handler runs on a descriptor that select() reported for another
\* connection.
THEOREM DispatchSafe == Spec => []DispatchedWasPolled
<1>1. IInv => DispatchedWasPolled
  <2> SUFFICES ASSUME IInv, pc \in {"read", "receive", "write"}, cur < MaxClients,
                      Active(cur), fd[cur] \in readfds \cup writefds
               PROVE  polled[fd[cur]] = sock[fd[cur]]
    BY DEF DispatchedWasPolled
  <2>1. cur \in Slot
    BY ServerConstants DEF IInv, TypeOK, TypeLoop, Slot
  <2>2. fd[cur] \in Fd /\ sock[fd[cur]] # NoConn
    BY <2>1 DEF IInv, ActiveHasFd, SessionsMatchTable
  <2> QED BY <2>2 DEF IInv, ReportedIsOld
<1> QED BY <1>1, Inductive, PTL

\* A write that OpenSSL asked to repeat is repeated with the same message,
\* offset and length, whatever is sent in between.
THEOREM RetrySafe == Spec => []RetryUnchanged
BY Inductive, PTL DEF IInv

\* tlsv2_server_run leaves no descriptor and no session behind.
THEOREM StopsClean == Spec => []StoppedIsClean
<1>1. IInv => StoppedIsClean
  BY DEF IInv, LoopPosition, SessionsMatchTable, StoppedIsClean
<1> QED BY <1>1, Inductive, PTL

\* Only a delivery changes what the application has received, and it changes
\* nothing else the application sees.
LEMMA ReceivedSteps ==
  ASSUME [Next]_vars
  PROVE  UNCHANGED received \/ ReceiveDelivers
BY DEF Next, ServerStep, vars, StartServer, SelectFails, ShutdownClient, ServerReturns,
   SelectReturns, AcceptClient, AcceptDrops, AcceptEnds, ReadSkips, ReadHandshake,
   ReadOpen, ReceiveEnds, WriteSkips, WriteHandshake, FlushWrites, FlushWants,
   FlushFails, LoopAgain, CallbackReturns, SendJson, PeerConnects, PeerFinishes,
   PeerSends, PeerDrains, PeerBreaks

\* The server implements ClientSessions: its callbacks announce only ids that
\* are free, for connections that have no other id, deliver messages only
\* under announced ids and take back only those.
THEOREM ServerImplementsSessions == Spec => ImplementsSessions
<1>1. Init => Sessions!Init
  BY DEF Init, Sessions!Init
<1>2. IInv /\ [Next]_vars => [Sessions!Next]_(Sessions!vars)
  <2> SUFFICES ASSUME IInv, [Next]_vars PROVE [Sessions!Next]_(Sessions!vars)
    OBVIOUS
  <2>0. TypeTable /\ SessionsMatchTable /\ ActiveHasFd /\ QueuedHasNoFd /\ LoopPosition
        /\ backlog \subseteq Conn
    BY DEF IInv, TypeOK, TypeNet
  <2>1. CASE ReceiveDelivers
    <3>1. cur \in Slot /\ Active(cur)
      BY <2>0, <2>1, ServerConstants
         DEF ReceiveDelivers, LoopPosition, Active, IInv, TypeOK, TypeLoop, Slot
    <3>2. fd[cur] \in Fd /\ session[fd[cur]] # NoConn /\ session[fd[cur]] = sock[fd[cur]]
      BY <2>0, <3>1 DEF ActiveHasFd, SessionsMatchTable
    <3>3. received' = [received EXCEPT ![sock[fd[cur]]] = @ + 1] /\ UNCHANGED session
      BY <2>1 DEF ReceiveDelivers
    <3>4. Sessions!Json(fd[cur])
      BY <3>2, <3>3 DEF Sessions!Json
    <3> QED BY <3>2, <3>4 DEF Sessions!Next
  <2>2. CASE UNCHANGED received
    <3>1. CASE UNCHANGED tableVars \/ Clears \/ \E i \in Slot : Opens(i)
      BY <2>2, <3>1 DEF tableVars, Clears, Opens, Sessions!vars
    <3>2. CASE \E i \in Slot : Active(i) /\ ClientClose(i)
      <4>1. PICK i \in Slot : Active(i) /\ ClientClose(i)
        BY <3>2
      <4>2. fd[i] \in Fd /\ session[fd[i]] # NoConn
        BY <2>0, <4>1 DEF ActiveHasFd, SessionsMatchTable
      <4>3. Sessions!Disconnected(fd[i])
        BY <2>2, <4>1, <4>2 DEF ClientClose, Sessions!Disconnected
      <4> QED BY <4>2, <4>3 DEF Sessions!Next
    <3>3. CASE \E i \in Slot, f \in Fd, c \in backlog : Allocs(i, f, c)
      <4>1. PICK i \in Slot, f \in Fd, c \in backlog : Allocs(i, f, c)
        BY <3>3
      <4>2. session[f] = NoConn /\ \A g \in Fd : session[g] # c
        BY <2>0, <4>1 DEF Allocs, SessionsMatchTable, QueuedHasNoFd
      <4>3. Sessions!Connected(f, c)
        BY <2>2, <4>1, <4>2 DEF Allocs, Sessions!Connected
      <4> QED BY <2>0, <4>3 DEF Sessions!Next
    <3> QED BY <3>1, <3>2, <3>3, TableSteps
  <2> QED BY <2>1, <2>2, ReceivedSteps
<1> QED
  BY <1>1, <1>2, Inductive, PTL DEF Spec, ImplementsSessions, Sessions!Spec
=============================================================================
