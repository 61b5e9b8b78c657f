-------------------------- MODULE TcpServerProofs --------------------------
(***************************************************************************)
(* For every number of client processes, hosts and services: one client is *)
(* served at a time, it is the one being read, and no handler of a         *)
(* destroyed Service is left in a connection.                              *)
(***************************************************************************)
EXTENDS TcpServer, FiniteSetTheorems, TLAPS

-----------------------------------------------------------------------------
(* Connections and entries *)

\* A connection belongs to a client, is of one of two kinds and comes from the
\* address of its client (socket().remote_endpoint()).
LEMMA ConnFacts ==
    ASSUME NEW conn \in Conns
    PROVE  conn # NoConn /\ AddrOf(conn) \in Addrs /\ conn[2] \in {"msg", "data"}
           /\ conn \in Clients \X {conn[2]}
BY DEF Conns, NoConn, AddrOf, Addrs

\* An empty entry is an entry, of connections of any address.
LEMMA NoConnsFacts == NoConns \in Entries /\ \A a : FromThere(NoConns, a)
BY DEF NoConns, Entries, FromThere

LEMMA ServerInit == Init => ServerInv
<1> SUFFICES ASSUME Init PROVE ServerInv
  OBVIOUS
<1>1. Served = {}
  BY DEF Init, Served
<1>2. TypeOK
  <2>1. \A k \in {"msg", "data"} : backlog[k] \in Seq(Clients \X {k})
    BY DEF Init
  <2>2. made \in 0 .. MaxServices
    BY MaxServicesAssumption DEF Init
  <2> QED
    BY <2>1, <2>2, NoConnsFacts DEF Init, TypeOK, NoServices
<1>3. Tracked
  BY NoConnsFacts DEF Init, Tracked
<1>4. HandlersAlive
  BY DEF Init, HandlersAlive
<1> QED
  BY <1>1, <1>2, <1>3, <1>4 DEF ServerInv, OneServed, PairsComplete, ServedIsRead

-----------------------------------------------------------------------------
(* What a step leaves alone *)

\* The invariant says nothing of the network but the types of alive, dialled,
\* backlog and writing.
LEMMA NetworkStep ==
    ASSUME ServerInv,
           UNCHANGED <<notReadyClients, connectedClients, svcVars, reading>>,
           alive' \in [Clients -> BOOLEAN], dialled' \subseteq Conns, writing' \subseteq Conns,
           \A k \in {"msg", "data"} : backlog'[k] \in Seq(Clients \X {k})
    PROVE  ServerInv'
<1>1. TypeOK'
  BY DEF ServerInv, TypeOK, svcVars
<1>2. OneServed' /\ PairsComplete' /\ Tracked' /\ ServedIsRead' /\ HandlersAlive'
  BY DEF ServerInv, OneServed, PairsComplete, Tracked, ServedIsRead, HandlersAlive, Served, svcVars
<1> QED
  BY <1>1, <1>2 DEF ServerInv

LEMMA NetworkActions ==
    ASSUME ServerInv,
           \/ \E conn \in Conns : Connect(conn)
           \/ \E c \in Clients : Exit(c)
           \/ \E kind \in {"msg", "data"} : Refuse(kind)
           \/ \E a \in Addrs : SendData(a)
           \/ \E conn \in Conns : WriteDone(conn)
    PROVE  ServerInv'
<1>1. TypeOK /\ PairsComplete
  BY DEF ServerInv
<1>2. ASSUME NEW conn \in Conns, Connect(conn) PROVE ServerInv'
  <2>1. conn[2] \in {"msg", "data"} /\ conn \in Clients \X {conn[2]}
    BY ConnFacts
  <2>2. backlog' = [backlog EXCEPT ![conn[2]] = Append(backlog[conn[2]], conn)]
    BY <1>2 DEF Connect
  <2>3. \A k \in {"msg", "data"} : backlog'[k] \in Seq(Clients \X {k})
    BY <1>1, <2>1, <2>2 DEF TypeOK
  <2> QED
    BY <1>1, <1>2, <2>3, NetworkStep DEF Connect, TypeOK
<1>3. ASSUME NEW c \in Clients, Exit(c) PROVE ServerInv'
  BY <1>1, <1>3, NetworkStep DEF Exit, TypeOK
<1>4. ASSUME NEW kind \in {"msg", "data"}, Refuse(kind) PROVE ServerInv'
  <2>1. \A k \in {"msg", "data"} : backlog'[k] \in Seq(Clients \X {k})
    BY <1>1, <1>4 DEF Refuse, TypeOK
  <2> QED
    BY <1>1, <1>4, <2>1, NetworkStep DEF Refuse, TypeOK, netVars
<1>5. ASSUME NEW a \in Addrs, SendData(a) PROVE ServerInv'
  <2>1. connectedClients[a].data \in Conns
    BY <1>1, <1>5 DEF SendData, TypeOK, PairsComplete, Entries, Conns
  <2> QED
    BY <1>1, <1>5, <2>1, NetworkStep DEF SendData, TypeOK, netVars
<1>6. ASSUME NEW conn \in Conns, WriteDone(conn) PROVE ServerInv'
  BY <1>1, <1>6, NetworkStep DEF WriteDone, TypeOK, netVars
<1> QED
  BY <1>2, <1>3, <1>4, <1>5, <1>6

-----------------------------------------------------------------------------
(* Accepting *)

\* A connection is accepted while nobody is served; the pair it may complete is
\* then the only one, and servClient() reads from it.
LEMMA AcceptStep == ASSUME ServerInv, NEW kind \in {"msg", "data"}, Accept(kind) PROVE ServerInv'
<1> DEFINE conn  == Head(backlog[kind])
           a     == AddrOf(conn)
           entry == [notReadyClients[a] EXCEPT ![kind] = conn]
           ready == entry.msg # NoConn /\ entry.data # NoConn
<1>1. /\ conn \in Clients \X {kind} /\ conn \in Conns /\ a \in Addrs /\ conn[2] = kind
      /\ Served = {}
      /\ \A k \in {"msg", "data"} : backlog'[k] \in Seq(Clients \X {k})
  <2>1. conn \in Clients \X {kind} /\ Served = {}
    BY DEF Accept, Busy, ServerInv, TypeOK
  <2>2. \A k \in {"msg", "data"} : backlog'[k] \in Seq(Clients \X {k})
    BY DEF Accept, ServerInv, TypeOK
  <2> QED
    BY <2>1, <2>2 DEF Conns, AddrOf, Addrs
<1>2. /\ notReadyClients' = [notReadyClients EXCEPT ![a] = IF ready THEN NoConns ELSE entry]
      /\ connectedClients' = IF ready THEN [connectedClients EXCEPT ![a] = entry]
                             ELSE connectedClients
      /\ reading' = IF ready THEN reading \cup {entry.msg} ELSE reading
      /\ UNCHANGED <<netVars, svcVars, writing>>
  BY <1>1 DEF Accept, Pair, FieldOf, servClient
<1>3. entry \in Entries /\ FromThere(entry, a)
  BY <1>1 DEF ServerInv, TypeOK, Tracked, FromThere, Entries
<1> HIDE DEF entry, conn, a
<1>4. ready => entry # NoConns /\ entry.msg \in Conns
  BY <1>3 DEF NoConns, Entries, Conns
<1>5. \A b \in Addrs : connectedClients[b] = NoConns
  BY <1>1 DEF Served
<1>6. \A b \in Addrs : connectedClients'[b] = IF ready /\ b = a THEN entry ELSE NoConns
  BY <1>1, <1>2, <1>5 DEF ServerInv, TypeOK
<1>7. TypeOK'
  BY <1>1, <1>2, <1>3, <1>4, NoConnsFacts DEF ServerInv, TypeOK, netVars, svcVars
<1>8. OneServed' /\ PairsComplete'
  BY <1>6 DEF OneServed, PairsComplete, Served
<1>9. Tracked'
  <2>1. \A b \in Addrs : FromThere(connectedClients'[b], b)
    BY <1>3, <1>6, NoConnsFacts
  <2>2. \A b \in Addrs : FromThere(notReadyClients'[b], b)
    BY <1>1, <1>2, <1>3, NoConnsFacts DEF ServerInv, TypeOK, Tracked
  <2> QED
    BY <2>1, <2>2 DEF Tracked
<1>10. ServedIsRead'
  BY <1>2, <1>3, <1>6 DEF ServedIsRead, Served, FromThere
<1>11. HandlersAlive'
  BY <1>1, <1>2 DEF ServerInv, HandlersAlive, svcVars
<1> QED
  BY <1>7, <1>8, <1>9, <1>10, <1>11 DEF ServerInv

-----------------------------------------------------------------------------
(* Services and errors *)

\* A Service is made for the one client served; the slot of its two connections
\* names that Service or nobody, and no other connection has one.
LEMMA RequestStep ==
    ASSUME ServerInv, NEW conn \in Conns, NEW n \in Names, RequestService(conn, n)
    PROVE  ServerInv'
<1> DEFINE a == AddrOf(conn)
<1>1. UNCHANGED <<netVars, backlog, notReadyClients, connectedClients, reading, writing>>
      /\ a \in Addrs /\ made < MaxServices
  BY ConnFacts DEF RequestService
<1>2. CASE a \notin Served
  BY <1>1, <1>2, NetworkStep DEF RequestService, ServerInv, TypeOK, netVars
<1>3. CASE a \in Served
  <2> DEFINE s == IF services[a][n] = NoService THEN made' ELSE NoService
             pair == connectedClients[a]
  <2>1. made' = made + 1 /\ handler' = SetSlot(pair, s)
        /\ services' = [services EXCEPT ![a][n] = made']
    BY <1>3 DEF RequestService
  <2>2. made' \in 0 .. MaxServices /\ made' \in Services
    BY <1>1, <2>1, MaxServicesAssumption DEF ServerInv, TypeOK, Services
  <2>3. handler' \in [Conns -> Services \cup {NoService}]
    BY <2>1, <2>2 DEF SetSlot, ServerInv, TypeOK
  <2>4. services' \in [Addrs -> [Names -> Services \cup {NoService}]]
    BY <1>1, <2>1, <2>2 DEF ServerInv, TypeOK
  <2>5. TypeOK'
    BY <1>1, <2>2, <2>3, <2>4 DEF ServerInv, TypeOK, netVars
  <2>6. OneServed' /\ PairsComplete' /\ Tracked' /\ ServedIsRead'
    BY <1>1 DEF ServerInv, OneServed, PairsComplete, Tracked, ServedIsRead, Served
  <2>7. HandlersAlive'
    <3> SUFFICES ASSUME NEW c \in Conns, handler'[c] # NoService
                 PROVE  /\ a \in Served' /\ n \in Names
                        /\ services'[a][n] = handler'[c]
                        /\ c \in {connectedClients'[a].msg, connectedClients'[a].data}
      BY <1>1 DEF HandlersAlive
    <3>1. c \in {pair.msg, pair.data}
      <4>1. CASE handler[c] # NoService
        BY <1>3, <4>1 DEF ServerInv, HandlersAlive, OneServed
      <4>2. CASE handler[c] = NoService
        BY <2>1, <4>2 DEF SetSlot
      <4> QED
        BY <4>1, <4>2
    <3>2. handler'[c] = made'
      BY <2>1, <3>1 DEF SetSlot
    <3>3. services'[a][n] = made'
      BY <1>1, <2>1 DEF ServerInv, TypeOK
    <3> QED
      BY <1>1, <1>3, <3>1, <3>2, <3>3 DEF Served
  <2> QED
    BY <2>5, <2>6, <2>7 DEF ServerInv
<1> QED
  BY <1>2, <1>3

\* removeClient() of any address keeps the invariant, even if one connection is
\* not read any more, provided it comes from that address.
LEMMA RemoveStep ==
    ASSUME ServerInv, NEW conn \in Conns, handle_error(conn),
           reading' \in {reading, reading \ {conn}},
           writing' \subseteq Conns,
           UNCHANGED <<netVars, backlog, notReadyClients>>
    PROVE  ServerInv'
<1> DEFINE a == AddrOf(conn)
<1>1. /\ a \in Addrs
      /\ connectedClients' = [connectedClients EXCEPT ![a] = NoConns]
      /\ services' = [services EXCEPT ![a] = NoServices]
      /\ handler' = RemoveHandlers(a)
      /\ made' = made
  BY ConnFacts DEF handle_error, removeClient
<1>2. Served' = Served \ {a}
      /\ \A b \in Addrs \ {a} : connectedClients'[b] = connectedClients[b] /\ services'[b] = services[b]
  BY <1>1 DEF Served, ServerInv, TypeOK
<1>3. handler' \in [Conns -> Services \cup {NoService}]
  BY <1>1 DEF RemoveHandlers, SetSlot, ServerInv, TypeOK
<1>4. TypeOK'
  <2>1. NoServices \in [Names -> Services \cup {NoService}]
    BY DEF NoServices
  <2> QED
    BY <1>1, <1>3, <2>1, NoConnsFacts DEF ServerInv, TypeOK, netVars
<1>5. OneServed' /\ PairsComplete'
  BY <1>2 DEF ServerInv, OneServed, PairsComplete, Served
<1>6. Tracked'
  BY <1>1, <1>2, NoConnsFacts DEF ServerInv, Tracked, TypeOK
<1>7. ServedIsRead'
  <2> SUFFICES ASSUME NEW b \in Served \ {a}
               PROVE  /\ connectedClients[b].msg \in reading'
                      /\ AddrOf(connectedClients[b].msg) = b
                      /\ AddrOf(connectedClients[b].data) = b
    BY <1>2 DEF ServedIsRead, Served
  <2>1. connectedClients[b].msg # conn
    BY DEF ServerInv, ServedIsRead
  <2> QED
    BY <2>1 DEF ServerInv, ServedIsRead
<1>8. HandlersAlive'
  <2> SUFFICES ASSUME NEW c \in Conns, handler'[c] # NoService
               PROVE  \E b \in Served \ {a}, n \in Names :
                         /\ services[b][n] = handler'[c]
                         /\ c \in {connectedClients[b].msg, connectedClients[b].data}
    BY <1>2 DEF HandlersAlive, Served
  <2>1. handler'[c] = handler[c]
    BY <1>1 DEF RemoveHandlers, SetSlot
  <2>2. PICK b \in Served, n \in Names :
           services[b][n] = handler[c] /\ c \in {connectedClients[b].msg, connectedClients[b].data}
    BY <2>1 DEF ServerInv, HandlersAlive
  <2>3. b # a
    BY <1>1, <2>1, <2>2 DEF RemoveHandlers, SetSlot, NoServices
  <2> QED
    BY <2>1, <2>2, <2>3
<1> QED
  BY <1>4, <1>5, <1>6, <1>7, <1>8 DEF ServerInv

-----------------------------------------------------------------------------
(* Theorems *)

LEMMA ServerStep == ServerInv /\ [Next]_vars => ServerInv'
<1> SUFFICES ASSUME ServerInv, [Next]_vars PROVE ServerInv'
  OBVIOUS
<1>1. ASSUME NEW kind \in {"msg", "data"}, Accept(kind) PROVE ServerInv'
  BY <1>1, AcceptStep
<1>2. ASSUME NEW conn \in Conns, NEW n \in Names, RequestService(conn, n) PROVE ServerInv'
  BY <1>2, RequestStep
<1>3. ASSUME NEW conn \in Conns, ReadError(conn) PROVE ServerInv'
  BY <1>3, RemoveStep DEF ReadError, ServerInv, TypeOK
<1>4. ASSUME NEW conn \in Conns, WriteError(conn) PROVE ServerInv'
  BY <1>4, RemoveStep DEF WriteError, ServerInv, TypeOK
<1>5. CASE UNCHANGED vars
  BY <1>5, NetworkStep DEF vars, ServerInv, TypeOK, svcVars
<1> QED
  BY <1>1, <1>2, <1>3, <1>4, <1>5, NetworkActions DEF Next

LEMMA ServerCorrect == Spec => []ServerInv
BY ServerInit, ServerStep, PTL DEF Spec

\* Every variable has its type: both maps hold a message connection and a data
\* connection in the fields of these names (ClientInfo, service.hpp lines 9-37).
THEOREM TypeCorrect == Spec => []TypeOK
<1>1. ServerInv => TypeOK
  BY DEF ServerInv
<1> QED
  BY <1>1, ServerCorrect, PTL

\* "Serve one client at one time" (server.cpp lines 184 and 224): the two
\* acceptors never complete two pairs, whatever connects, leaves and fails.
THEOREM OneClientAtATime == Spec => []ServesOne
<1>1. ServerInv => ServesOne
  <2> SUFFICES ASSUME ServerInv PROVE ServesOne
    OBVIOUS
  <2>1. CASE Served = {}
    BY <2>1, FS_EmptySet DEF ServesOne
  <2>2. ASSUME NEW a \in Served PROVE ServesOne
    <3>1. Served = {a}
      BY <2>2 DEF ServerInv, OneServed
    <3> QED
      BY <3>1, FS_Singleton DEF ServesOne
  <2> QED
    BY <2>1, <2>2
<1> QED
  BY <1>1, ServerCorrect, PTL

\* The message connection of the client served is being read, so that its end
\* will be noticed (servClient, handle_recvMsg), and the pair comes from the
\* address it is stored under.
THEOREM ServedClientIsRead == Spec => []ServedIsRead
<1>1. ServerInv => ServedIsRead
  BY DEF ServerInv
<1> QED
  BY <1>1, ServerCorrect, PTL

\* No handler outlives its Service (the constructor and destructor of Service,
\* service.hpp lines 58-87), although connections outlive their ClientInfo.
THEOREM NoStaleHandler == Spec => []HandlersAlive
<1>1. ServerInv => HandlersAlive
  BY DEF ServerInv
<1> QED
  BY <1>1, ServerCorrect, PTL
=============================================================================
