------------------------------ MODULE TcpServer ------------------------------
(***************************************************************************)
(* The server's clients: TcpServer (server.cpp), ClientInfo and the        *)
(* registration of Services (service.hpp), and the handler maps of a       *)
(* TcpConnection (connection.hpp).  Everything here runs on the one thread *)
(* that called io_service::run(), so a handler is one action; what is      *)
(* concurrent is the network and the client processes.                     *)
(*                                                                         *)
(* A client process opens a message and a data connection to two ports.    *)
(* The server pairs them by IP address and listens to the message          *)
(* connection of one client at a time.  A connection object lives as long  *)
(* as a ClientInfo or a pending read or write refers to it.                *)
(***************************************************************************)
EXTENDS Integers, Sequences, FiniteSets

CONSTANTS Clients,      \* client processes
          Addr,         \* Addr[c]: the IP address of the host c runs on
          Names,        \* service names the factory knows
          MaxServices   \* bound: Service objects created

ASSUME MaxServicesAssumption == MaxServices \in Nat

Conns  == Clients \X {"msg", "data"}
Addrs  == {Addr[c] : c \in Clients}
AddrOf(conn) == Addr[conn[1]]
NoConn == <<>>
NoService == 0
Services == 1 .. MaxServices

VARIABLES
    alive,              \* alive[c]: the process runs
    dialled,            \* the connections the clients opened
    backlog,            \* backlog[k]: connections the k-acceptor has to accept
    notReadyClients,    \* by address: the connections accepted, not yet a pair
    connectedClients,   \* by address: the pair of the client served, or NoConns
    services,           \* services[n]: the Service named n of the client served
    made,               \* Service objects created so far
    handler,            \* handler[conn]: the Service under HANDLER_NO in its maps
    reading,            \* message connections with an async_read_until pending
    writing             \* data connections with an async_write pending

vars == <<alive, dialled, backlog, notReadyClients, connectedClients, services, made,
          handler, reading, writing>>
netVars == <<alive, dialled>>
svcVars == <<services, made, handler>>

NoConns == [msg |-> NoConn, data |-> NoConn]
NoServices == [n \in Names |-> NoService]

Init == /\ alive = [c \in Clients |-> TRUE]
        /\ dialled = {}
        /\ backlog = [k \in {"msg", "data"} |-> << >>]
        /\ notReadyClients = [a \in Addrs |-> NoConns]
        /\ connectedClients = [a \in Addrs |-> NoConns]
        /\ services = [a \in Addrs |-> NoServices]
        /\ made = 0
        /\ handler = [conn \in Conns |-> NoService]
        /\ reading = {}
        /\ writing = {}

Served == {a \in Addrs : connectedClients[a] # NoConns}

-----------------------------------------------------------------------------
(* The clients *)

\* async_connect; the kernel queues the connection for the acceptor
Connect(conn) ==
    /\ conn \notin dialled /\ alive[conn[1]]
    /\ dialled' = dialled \cup {conn}
    /\ backlog' = [backlog EXCEPT ![conn[2]] = Append(@, conn)]
    /\ UNCHANGED <<alive, notReadyClients, connectedClients, svcVars, reading, writing>>

\* the process ends; its connections break, which the server notices only by
\* a pending read or write
Exit(c) ==
    /\ alive[c]
    /\ alive' = [alive EXCEPT ![c] = FALSE]
    /\ UNCHANGED <<dialled, backlog, notReadyClients, connectedClients, svcVars, reading, writing>>

-----------------------------------------------------------------------------
(* The acceptors *)

\* connectedClients is not empty; mutant: a served client does not matter
NeverBusy == FALSE
Busy      == Served # {}

Refuse(kind) ==
    /\ backlog[kind] # << >>
    /\ Busy
    /\ backlog' = [backlog EXCEPT ![kind] = Tail(@)]
    /\ UNCHANGED <<netVars, notReadyClients, connectedClients, svcVars, reading, writing>>

\* servClient(): recvMsg() from the message connection; mutant: forgotten
NotServed(conn)  == UNCHANGED reading
servClient(conn) == reading' = reading \cup {conn}

\* where a connection goes in its ClientInfo; mutant: the other field
FieldSwapped(kind) == IF kind = "msg" THEN "data" ELSE "msg"
FieldOf(kind)      == kind

\* insert finds or makes the entry of the address and the connection goes into
\* it; a complete pair moves to connectedClients and servClient() reads from it
Pair(conn) ==
    LET a == AddrOf(conn)
        entry == [notReadyClients[a] EXCEPT ![FieldOf(conn[2])] = conn]
        ready == entry.msg # NoConn /\ entry.data # NoConn
    IN  /\ notReadyClients' = [notReadyClients EXCEPT ![a] = IF ready THEN NoConns ELSE entry]
        /\ connectedClients' = IF ready THEN [connectedClients EXCEPT ![a] = entry]
                               ELSE connectedClients
        /\ IF ready THEN servClient(entry.msg) ELSE UNCHANGED reading

\* handle_MsgAccept and handle_DataAccept
Accept(kind) ==
    /\ backlog[kind] # << >>
    /\ ~Busy                            \* serve one client at one time
    /\ backlog' = [backlog EXCEPT ![kind] = Tail(@)]
    /\ Pair(Head(backlog[kind]))
    /\ UNCHANGED <<netVars, svcVars, writing>>

-----------------------------------------------------------------------------
(* Messages *)

\* The handler maps of a client's two connections with slot HANDLER_NO set to s
SetSlot(pair, s) == [conn \in Conns |->
                        IF conn \in {pair.msg, pair.data} THEN s ELSE handler[conn]]

\* "service <name>": no Service handles it, TcpServer::handle_msg does.  The
\* constructor of the new Service takes the slot; addService() then destroys a
\* Service of the same name, whose destructor frees the slot.
RequestService(conn, n) ==
    /\ conn \in reading /\ alive[conn[1]]
    /\ made < MaxServices
    /\ LET a == AddrOf(conn) IN
       IF a \in Served
       THEN /\ made' = made + 1
            /\ handler' = SetSlot(connectedClients[a],
                             IF services[a][n] = NoService THEN made' ELSE NoService)
            /\ services' = [services EXCEPT ![a][n] = made']
       ELSE UNCHANGED svcVars           \* "Your info is not tracked on the server."
    /\ UNCHANGED <<netVars, backlog, notReadyClients, connectedClients, reading, writing>>

\* a Service of the client sends a frame or a piece of a file
SendData(a) ==
    /\ a \in Served /\ services[a] # NoServices
    /\ writing' = writing \cup {connectedClients[a].data}
    /\ UNCHANGED <<netVars, backlog, notReadyClients, connectedClients, svcVars, reading>>

WriteDone(conn) ==
    /\ conn \in writing /\ alive[conn[1]]
    /\ writing' = writing \ {conn}
    /\ UNCHANGED <<netVars, backlog, notReadyClients, connectedClients, svcVars, reading>>

-----------------------------------------------------------------------------
(* Errors *)

\* ~Service() removes its handlers; mutant: it leaves them
KeepHandlers(a)   == handler
RemoveHandlers(a) == IF services[a] = NoServices THEN handler
                     ELSE SetSlot(connectedClients[a], NoService)

\* removeClient(): ~ClientInfo() terminates and destroys the Services, whose
\* destructors free their slots
removeClient(a) ==
    /\ connectedClients' = [connectedClients EXCEPT ![a] = NoConns]
    /\ services' = [services EXCEPT ![a] = NoServices]
    /\ handler' = RemoveHandlers(a)
    /\ UNCHANGED made

\* handle_error(): mutant: only logged
handle_errorLogged(conn) == UNCHANGED <<connectedClients, svcVars>>
handle_error(conn)       == removeClient(AddrOf(conn))

\* OnError() of the message connection: the Services pass it on, the server
\* removes the client of that address
ReadError(conn) ==
    /\ conn \in reading /\ ~alive[conn[1]]
    /\ reading' = reading \ {conn}
    /\ handle_error(conn)
    /\ UNCHANGED <<netVars, backlog, notReadyClients, writing>>

WriteError(conn) ==
    /\ conn \in writing /\ ~alive[conn[1]]
    /\ writing' = writing \ {conn}
    /\ handle_error(conn)
    /\ UNCHANGED <<netVars, backlog, notReadyClients, reading>>

-----------------------------------------------------------------------------
Next == \/ \E conn \in Conns : Connect(conn)
        \/ \E c \in Clients : Exit(c)
        \/ \E kind \in {"msg", "data"} : Refuse(kind) \/ Accept(kind)
        \/ \E conn \in Conns, n \in Names : RequestService(conn, n)
        \/ \E a \in Addrs : SendData(a)
        \/ \E conn \in Conns : WriteDone(conn) \/ ReadError(conn) \/ WriteError(conn)

Spec == Init /\ [][Next]_vars

\* io_service::run() dispatches completions; a broken connection completes its
\* pending read or write with an error.
FairSpec == /\ Spec
            /\ \A kind \in {"msg", "data"} : WF_vars(Accept(kind) \/ Refuse(kind))
            /\ \A conn \in Conns : WF_vars(ReadError(conn)) /\ WF_vars(WriteError(conn))

-----------------------------------------------------------------------------
(* Properties *)

\* Every variable has its type.
Entries == [msg : Clients \X {"msg"} \cup {NoConn}, data : Clients \X {"data"} \cup {NoConn}]
TypeOK == /\ alive \in [Clients -> BOOLEAN]
          /\ dialled \subseteq Conns
          /\ \A k \in {"msg", "data"} : backlog[k] \in Seq(Clients \X {k})
          /\ notReadyClients \in [Addrs -> Entries]
          /\ connectedClients \in [Addrs -> Entries]
          /\ services \in [Addrs -> [Names -> Services \cup {NoService}]]
          /\ made \in 0 .. MaxServices
          /\ handler \in [Conns -> Services \cup {NoService}]
          /\ reading \subseteq Conns
          /\ writing \subseteq Conns

\* "Serve one client at one time" (server.cpp lines 184 and 224): although the
\* two acceptors complete pairs independently, one pair at most is connected.
ServesOne == Cardinality(Served) <= 1

\* A client that is served is listened to: the read that notices its end, and
\* without which nobody else would ever be served, is pending.
ServedIsRead ==
    \A a \in Served : /\ connectedClients[a].msg \in reading
                      /\ AddrOf(connectedClients[a].msg) = a
                      /\ AddrOf(connectedClients[a].data) = a

\* A handler in the maps of a connection belongs to a Service that exists, even
\* when the connection outlives its ClientInfo because of a pending read.
HandlersAlive ==
    \A conn \in Conns : handler[conn] # NoService =>
        \E a \in Served, n \in Names :
            services[a][n] = handler[conn] /\ conn \in {connectedClients[a].msg, connectedClients[a].data}

\* Why these hold: no two addresses are served, the pair served is complete, and
\* what is stored under an address comes from there.
OneServed == \A a, b \in Served : a = b
PairsComplete == \A a \in Served : connectedClients[a].msg # NoConn /\ connectedClients[a].data # NoConn
FromThere(entry, a) == \A conn \in {entry.msg, entry.data} \ {NoConn} : AddrOf(conn) = a
Tracked == \A a \in Addrs : FromThere(notReadyClients[a], a) /\ FromThere(connectedClients[a], a)
ServerInv == TypeOK /\ OneServed /\ PairsComplete /\ Tracked /\ ServedIsRead /\ HandlersAlive

\* The end of a served client is noticed and makes room for the next one.
DeadClientLeaves ==
    \A a \in Addrs, c \in Clients :
        connectedClients[a].msg = <<c, "msg">> /\ ~alive[c]
            ~> connectedClients[a].msg # <<c, "msg">>
=============================================================================
