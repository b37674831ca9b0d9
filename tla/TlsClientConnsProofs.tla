------------------------ MODULE TlsClientConnsProofs ------------------------
(***************************************************************************)
(* Proofs about TlsClientConns, for a registry of any size and any number  *)
(* of descriptors and connections.                                         *)
(***************************************************************************)
EXTENDS TlsClientConns, TLAPS

\* At most one entry has a given descriptor, so that the first match of the
\* loops in tlsv2_lookup_client_conn and tlsv2_unregister_client_conn is the
\* only one.
LEMMA OneMatch ==
  ASSUME IInv, NEW f \in Fd, NEW i \in Slot, NEW j \in Slot,
         Matches(i, f), Matches(j, f)
  PROVE  i = j
BY DEF IInv, EntriesAreLive, Matches

\* What a lookup returns: the object of the one entry with the descriptor, or
\* nothing if there is no such entry.
LEMMA LookupFinds ==
  ASSUME IInv, NEW f \in Fd
  PROVE  /\ \A i \in Slot : Matches(i, f) <=> FirstMatch(i, f)
         /\ \A i \in Slot : Matches(i, f) => Lookup(f) = conns[i]
         /\ (\A i \in Slot : ~Matches(i, f)) => Lookup(f) = NoConn
<1>1. \A i \in Slot : Matches(i, f) <=> FirstMatch(i, f)
  <2> SUFFICES ASSUME NEW i \in Slot, Matches(i, f),
                      NEW j \in Slot, j < i, Matches(j, f)
               PROVE  FALSE
    BY DEF FirstMatch
  <2>1. i = j BY OneMatch
  <2> QED BY <2>1 DEF Slot
<1>2. ASSUME NEW i \in Slot, Matches(i, f)
      PROVE  Lookup(f) = conns[i]
  <2>1. \E k \in Slot : FirstMatch(k, f)
    BY <1>1, <1>2
  <2>2. (CHOOSE k \in Slot : FirstMatch(k, f)) = i
    BY <1>1, <1>2, <2>1, OneMatch
  <2> QED BY <1>2, <2>2 DEF Lookup
<1> QED BY <1>1, <1>2 DEF Lookup

\* A new connection is put in at most one entry, which was free.
LEMMA RegisterFillsOne ==
  ASSUME TypeOK, NEW c \in Conn, Register(c)
  PROVE  /\ conns' \in [Slot -> Conn \cup {NoConn}]
         /\ \A i \in Slot : conns'[i] = conns[i] \/ (conns'[i] = c /\ FirstFree(i))
         /\ \A i, j \in Slot : FirstFree(i) /\ FirstFree(j) => i = j
<1>1. \A i, j \in Slot : FirstFree(i) /\ FirstFree(j) => i = j
  BY ConnsConstants DEF FirstFree, Slot
<1> QED BY <1>1 DEF Register, TypeOK

\* tlsv2_client_connect keeps the invariant.
LEMMA ConnectStep ==
  ASSUME IInv, NEW c \in Conn, NEW f \in Fd, Connect(c, f)
  PROVE  IInv'
<1> USE ConnsConstants DEF IInv
<1>1. /\ conns' \in [Slot -> Conn \cup {NoConn}]
      /\ \A i \in Slot : conns'[i] = conns[i] \/ (conns'[i] = c /\ FirstFree(i))
      /\ \A i, j \in Slot : FirstFree(i) /\ FirstFree(j) => i = j
  BY RegisterFillsOne DEF Connect
<1>2. TypeOK'
  BY <1>1 DEF TypeOK, Connect
<1>3. c \notin live /\ \A i \in Slot : conns[i] # c
  BY DEF Connect, LiveIsOpen, EntriesAreLive
<1>4. \A d \in live : osock[d] # f
  BY DEF Connect, LiveIsOpen, TypeOK
<1>5. /\ osock'[c] = f /\ open'[f] = c /\ handle'[f] = c
      /\ \A d \in live : osock'[d] = osock[d] /\ osock[d] \in Fd
                         /\ open'[osock[d]] = open[osock[d]]
                         /\ handle'[osock[d]] = handle[osock[d]]
  BY <1>3, <1>4 DEF Connect, TypeOK, LiveIsOpen
<1>6. LiveIsOpen'
  BY <1>5 DEF LiveIsOpen, Connect
<1>7. EntriesAreLive'
  <2>1. \A i \in Slot : conns'[i] # NoConn =>
          conns'[i] \in live' /\ osock'[conns'[i]] \in Fd
          /\ open'[osock'[conns'[i]]] = conns'[i]
    BY <1>1, <1>5 DEF EntriesAreLive, Connect
  <2>2. \A i, j \in Slot : conns'[i] # NoConn /\ conns'[i] = conns'[j] => i = j
    BY <1>1, <1>3 DEF EntriesAreLive, FirstFree
  <2> QED BY <2>1, <2>2 DEF EntriesAreLive
<1>8. EntriesAreHeld'
  BY <1>1, <1>5 DEF EntriesAreHeld, EntriesAreLive
<1>9. CallHitsOwnConnection'
  BY DEF CallHitsOwnConnection, Connect
<1> QED BY <1>2, <1>6, <1>7, <1>8, <1>9

\* A send or receive leaves the registry alone and finds the connection that
\* was meant.
LEMMA CallStep ==
  ASSUME IInv, NEW f \in Fd, SendOrReceive(f)
  PROVE  IInv'
<1> USE DEF IInv
<1>1. Lookup(f) \in {NoConn, handle[f]} /\ Lookup(f) \in Conn \cup {NoConn}
  <2>1. CASE \E i \in Slot : Matches(i, f)
    <3>1. PICK i \in Slot : Matches(i, f) BY <2>1
    <3>2. Lookup(f) = conns[i] BY <3>1, LookupFinds
    <3> QED BY <3>1, <3>2 DEF Matches, EntriesAreHeld, TypeOK
  <2>2. CASE \A i \in Slot : ~Matches(i, f)
    BY <2>2, LookupFinds
  <2> QED BY <2>1, <2>2
<1>2. TypeOK'
  BY <1>1 DEF TypeOK, SendOrReceive
<1>3. CallHitsOwnConnection'
  BY <1>1 DEF CallHitsOwnConnection, SendOrReceive
<1>4. EntriesAreLive' /\ LiveIsOpen' /\ EntriesAreHeld'
  BY DEF SendOrReceive, EntriesAreLive, LiveIsOpen, EntriesAreHeld
<1> QED BY <1>2, <1>3, <1>4

\* tlsv2_client_close_fd keeps the invariant, whether it finds an entry or not.
LEMMA CloseStep ==
  ASSUME IInv, NEW f \in Fd, CloseFd(f)
  PROVE  IInv'
<1> USE ConnsConstants DEF IInv
<1>0. handle' = [handle EXCEPT ![f] = NoConn] /\ UNCHANGED <<osock, tried, call>>
  BY DEF CloseFd
<1>1. CASE \A i \in Slot : ~Matches(i, f)
  <2>1. UNCHANGED <<conns, live, open>>
    BY <1>1, LookupFinds DEF CloseFd
  <2>2. \A i \in Slot : conns[i] # NoConn => osock[conns[i]] # f
    BY <1>1 DEF Matches
  <2>3. TypeOK' /\ EntriesAreLive' /\ LiveIsOpen' /\ CallHitsOwnConnection'
    BY <1>0, <2>1 DEF TypeOK, EntriesAreLive, LiveIsOpen, CallHitsOwnConnection
  <2>4. EntriesAreHeld'
    BY <1>0, <2>1, <2>2 DEF EntriesAreHeld, EntriesAreLive, TypeOK
  <2> QED BY <2>3, <2>4
<1>2. CASE \E i \in Slot : Matches(i, f)
  <2>1. PICK i \in Slot : Matches(i, f) BY <1>2
  <2> DEFINE c == conns[i]
  <2>2. Lookup(f) = c /\ c # NoConn /\ osock[c] = f /\ c \in live
    BY <2>1, LookupFinds DEF Matches, EntriesAreLive
  <2>3. /\ open' = [open EXCEPT ![f] = NoConn]
        /\ live' = live \ {c}
        /\ conns' = [k \in Slot |-> IF FirstMatch(k, f) THEN NoConn ELSE conns[k]]
    BY <2>2 DEF CloseFd, Unregister
  <2>4. \A k \in Slot : conns'[k] = IF k = i THEN NoConn ELSE conns[k]
    BY <2>1, <2>3, LookupFinds, OneMatch
  <2>5. \A d \in live : d # c => osock[d] # f
    BY <2>2 DEF LiveIsOpen
  <2>6. TypeOK'
    BY <1>0, <2>3 DEF TypeOK
  <2>7. LiveIsOpen'
    BY <1>0, <2>3, <2>5 DEF LiveIsOpen, TypeOK
  <2>8. \A k \in Slot : conns'[k] # NoConn =>
          /\ conns'[k] = conns[k] /\ conns[k] \in live /\ conns[k] # c
          /\ osock[conns[k]] # f
    BY <2>1, <2>2, <2>4, <2>5 DEF EntriesAreLive
  <2>9. EntriesAreLive'
    BY <1>0, <2>3, <2>8 DEF EntriesAreLive, TypeOK
  <2>10. EntriesAreHeld'
    BY <1>0, <2>8 DEF EntriesAreHeld, EntriesAreLive, TypeOK
  <2>11. CallHitsOwnConnection'
    BY <1>0 DEF CallHitsOwnConnection
  <2> QED BY <2>6, <2>7, <2>9, <2>10, <2>11
<1> QED BY <1>1, <1>2

\* The registry's invariant holds after every sequence of client calls.
THEOREM RegistryInductive == Spec => []IInv
<1>1. Init => IInv
  BY ConnsConstants DEF Init, IInv, TypeOK, EntriesAreLive, LiveIsOpen,
     EntriesAreHeld, CallHitsOwnConnection, NoCall
<1>2. IInv /\ [Next]_vars => IInv'
  <2> SUFFICES ASSUME IInv, [Next]_vars PROVE IInv'
    OBVIOUS
  <2>1. ASSUME NEW c \in Conn, ConnectFails(c) PROVE IInv'
    BY <2>1 DEF ConnectFails, IInv, TypeOK, EntriesAreLive, LiveIsOpen,
       EntriesAreHeld, CallHitsOwnConnection
  <2>2. CASE UNCHANGED vars
    BY <2>2 DEF vars, IInv, TypeOK, EntriesAreLive, LiveIsOpen,
       EntriesAreHeld, CallHitsOwnConnection
  <2> QED BY <2>1, <2>2, ConnectStep, CallStep, CloseStep DEF Next
<1> QED BY <1>1, <1>2, PTL DEF Spec

\* The loops over g_client_conns[] only ever meet allocated objects with an
\* open descriptor of their own, however descriptors are closed and reused.
THEOREM RegistryLive == Spec => []EntriesAreLive
BY RegistryInductive, PTL DEF IInv

\* No call reaches a connection other than the one its descriptor was returned
\* for, even after the registry has overflowed.
THEOREM CallsHitOwn == Spec => []CallHitsOwnConnection
BY RegistryInductive, PTL DEF IInv
=============================================================================
