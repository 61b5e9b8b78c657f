------------------------------ MODULE SendQueue ------------------------------
(***************************************************************************)
(* How encoded frames leave the server: the buffer pool gServerBufMgr      *)
(* (BufferMgr, common_utils.hpp) and the outgoing queue of a               *)
(* ServerDataConnection (connection.hpp, server.cpp).                      *)
(*                                                                         *)
(* A sender (the encoder thread, or the worker of a FileTransferService)   *)
(* gets a buffer from the pool, fills it and posts sendDataImpl to the     *)
(* connection's strand.  The strand runs sendDataImpl and handle_sendData  *)
(* one at a time; one async_write is started by whoever finds the queue    *)
(* idle, and its completion starts the next.  The buffer goes back to the  *)
(* pool, cleared, when its write has completed.                            *)
(*                                                                         *)
(* MsgConnection has the same queue (sendMsgImpl, DoSendMsg,               *)
(* handle_sendMsg) without the pool.                                       *)
(***************************************************************************)
EXTENDS Integers, Sequences, FiniteSets, Functions

CONSTANTS Senders,      \* threads that call sendData()
          Bufs,         \* bound: BytesArray objects alive at one time
          LIST_SIZE,    \* buffers the pool keeps
          MaxFrames,    \* bound: frames a sender sends
          None          \* no buffer

ASSUME ListSizeAssumption == LIST_SIZE \in Nat
ASSUME MaxFramesAssumption == MaxFrames \in Nat
ASSUME NoneAssumption == None \notin Bufs

\* The contents of a buffer: the k-th frame of a sender, or nothing.
Cleared == <<>>
Frames  == Senders \X (1 .. MaxFrames)

VARIABLES
    bufList,            \* the pool, oldest first
    content,            \* content[b]: what buffer b holds
    mine,               \* mine[s]: the buffer sender s is filling, or None
    count,              \* count[s]: frames s has posted
    posted,             \* sendDataImpl handlers posted to the strand, in order
    outgoingQueue,      \* the connection's queue
    writing,            \* the buffers given to an async_write in progress
    completed,          \* completions waiting for the strand: [buf, error]
    wire,               \* what the peer has received
    broken              \* the socket failed; every later write fails too

vars == <<bufList, content, mine, count, posted, outgoingQueue, writing, completed,
          wire, broken>>
connVars == <<outgoingQueue, writing, completed, wire, broken>>
sideVars == <<bufList, content, mine, count>>

Alive == Range(bufList) \cup Range(posted) \cup Range(outgoingQueue)
            \cup {mine[s] : s \in Senders}
            \cup Range(writing) \cup {c.buf : c \in Range(completed)}

Init == /\ bufList = << >>
        /\ content = [b \in Bufs |-> Cleared]
        /\ mine = [s \in Senders |-> None]
        /\ count = [s \in Senders |-> 0]
        /\ posted = << >>
        /\ outgoingQueue = << >>
        /\ writing = << >>
        /\ completed = << >>
        /\ wire = << >>
        /\ broken = FALSE

-----------------------------------------------------------------------------
(* Senders *)

\* gServerBufMgr.get(): the oldest buffer of the pool, or a new one
Get(s) ==
    /\ mine[s] = None /\ count[s] < MaxFrames
    /\ \/ /\ bufList # << >>
          /\ mine' = [mine EXCEPT ![s] = Head(bufList)]
          /\ bufList' = Tail(bufList)
       \/ /\ bufList = << >>
          /\ \E b \in Bufs \ Alive : mine' = [mine EXCEPT ![s] = b]
          /\ UNCHANGED bufList
    /\ UNCHANGED <<content, count, posted, connVars>>

\* writeFrame() fills the buffer; sendData() posts sendDataImpl
Post(s) ==
    /\ mine[s] # None
    /\ content' = [content EXCEPT ![mine[s]] = <<s, count[s] + 1>>]
    /\ count' = [count EXCEPT ![s] = @ + 1]
    /\ posted' = Append(posted, mine[s])
    /\ mine' = [mine EXCEPT ![s] = None]
    /\ UNCHANGED <<bufList, connVars>>

-----------------------------------------------------------------------------
(* The connection *)

\* async_write of the front of the queue
DoSendData(q) == writing' = Append(writing, Head(q))

\* "leave the job to handle_sendData" when the queue already held a buffer;
\* mutants: never; unless it held exactly one
LeaveNever    == FALSE
LeaveUnlessOne == Len(outgoingQueue') # 2
LeaveTheJob   == Len(outgoingQueue') > 1

\* the strand runs sendDataImpl
sendDataImpl ==
    /\ posted # << >>
    /\ posted' = Tail(posted)
    /\ outgoingQueue' = Append(outgoingQueue, Head(posted))
    /\ IF LeaveTheJob
       THEN UNCHANGED writing
       ELSE DoSendData(outgoingQueue')
    /\ UNCHANGED <<sideVars, completed, wire, broken>>

\* a write ends and its completion is queued; once the socket has failed no
\* write succeeds
Complete(error) ==
    /\ writing # << >>
    /\ writing' = Tail(writing)
    /\ completed' = Append(completed, [buf |-> Head(writing), error |-> error])
    /\ UNCHANGED <<sideVars, posted, outgoingQueue>>

WriteOk == /\ Complete(FALSE)
           /\ ~broken
           /\ wire' = Append(wire, content[Head(writing)])
           /\ UNCHANGED broken

WriteError == /\ Complete(TRUE)
              /\ broken' = TRUE
              /\ UNCHANGED wire

\* mutant: the pool has no limit
PutAlways(b) == /\ content' = [content EXCEPT ![b] = Cleared]
                /\ bufList' = Append(bufList, b)

\* gServerBufMgr.put(b): cleared, kept if there is room
Put(b) == /\ content' = [content EXCEPT ![b] = Cleared]
          /\ bufList' = IF Len(bufList) < LIST_SIZE THEN Append(bufList, b) ELSE bufList

\* after a success, the next write, if any; mutant: no next write
WriteNoNext == FALSE
WriteNext   == ~Head(completed).error /\ outgoingQueue' # << >>

\* the buffer given back; mutant: the one that is now at the front
ReleasedNext == IF outgoingQueue' # << >> THEN Head(outgoingQueue') ELSE Head(completed).buf
Released     == Head(completed).buf

\* ServerDataConnection::handle_sendData: DataConnection::handle_sendData pops
\* the front and, after a success, writes the next; then the buffer is put back
handle_sendData ==
    /\ completed # << >>
    /\ completed' = Tail(completed)
    /\ outgoingQueue' = Tail(outgoingQueue)
    /\ IF WriteNext
       THEN DoSendData(outgoingQueue')
       ELSE UNCHANGED writing
    /\ Put(Released)
    /\ UNCHANGED <<mine, count, posted, wire, broken>>

-----------------------------------------------------------------------------
Next == \/ \E s \in Senders : Get(s) \/ Post(s)
        \/ sendDataImpl
        \/ handle_sendData
        \/ WriteOk
        \/ WriteError

Spec == Init /\ [][Next]_vars

\* io_service::run() executes what the strand holds, and a write completes or
\* fails; nobody obliges a sender to send.
FairSpec == /\ Spec
            /\ WF_vars(sendDataImpl)
            /\ WF_vars(handle_sendData)
            /\ WF_vars(WriteOk \/ WriteError)

-----------------------------------------------------------------------------
(* Properties *)

\* Every variable has its type, and the pool its limit.
TypeOK == /\ bufList \in Seq(Bufs) /\ Len(bufList) <= LIST_SIZE
          /\ content \in [Bufs -> Frames \cup {Cleared}]
          /\ mine \in [Senders -> Bufs \cup {None}]
          /\ count \in [Senders -> 0 .. MaxFrames]
          /\ posted \in Seq(Bufs)
          /\ outgoingQueue \in Seq(Bufs)
          /\ writing \in Seq(Bufs)
          /\ completed \in Seq([buf : Bufs, error : BOOLEAN])
          /\ wire \in Seq(Frames)
          /\ broken \in BOOLEAN

\* At most one async_write is in flight or waiting for its completion handler
\* (two overlapping async_writes on a socket may interleave their bytes), and
\* it writes the front of the queue.
OneWrite == /\ Len(writing) + Len(completed) <= 1
            /\ writing # << >> => outgoingQueue # << >> /\ Head(writing) = Head(outgoingQueue)
            /\ completed # << >> => /\ outgoingQueue # << >>
                                   /\ Head(completed).buf = Head(outgoingQueue)

\* Every buffer has one holder: pool, sender, strand or queue.  A buffer back in
\* the pool is not one the connection still has to write.
Apart(q, r) == Range(q) \cap Range(r) = {}
OneHolder ==
    /\ IsInjective(bufList) /\ IsInjective(posted) /\ IsInjective(outgoingQueue)
    /\ Apart(bufList, posted) /\ Apart(bufList, outgoingQueue) /\ Apart(posted, outgoingQueue)
    /\ \A s \in Senders : mine[s] # None =>
          mine[s] \notin Range(bufList) \cup Range(posted) \cup Range(outgoingQueue)
    /\ \A s, t \in Senders : mine[s] = mine[t] /\ mine[s] # None => s = t

\* The peer receives the frames of each sender whole, once each and in the
\* order of sendData(): nothing cleared, lost between two others, or repeated.
WireInOrder ==
    \A i \in DOMAIN wire : \E s \in Senders :
        wire[i] = <<s, 1 + Cardinality({j \in 1 .. i - 1 : wire[j][1] = s})>>

\* "leave the job to handle_sendData" (connection.hpp lines 192 and 305): a
\* buffer that sendDataImpl only queued has a write or a completion before it.
QueueIsServed == outgoingQueue # << >> => writing # << >> \/ completed # << >>

\* While the socket works, that is enough.
QueueIsServedUntilBroken == ~broken => QueueIsServed

\* Why these hold: a completion that carries an error has broken the socket, and
\* what waits to be written has been filled.
ErrorBreaks == completed # << >> /\ Head(completed).error => broken
Filled == /\ \A b \in Range(posted) \cup Range(outgoingQueue) : content[b] \in Frames
          /\ \A s \in Senders : mine[s] # None => count[s] < MaxFrames
QueueInv == TypeOK /\ OneWrite /\ OneHolder /\ ErrorBreaks /\ Filled /\ QueueIsServedUntilBroken

\* Every frame handed to sendData() reaches the peer, unless the socket fails.
AllSent == \A s \in Senders, n \in 1 .. MaxFrames :
    count[s] = n ~> broken \/ <<s, n>> \in Range(wire)
=============================================================================
