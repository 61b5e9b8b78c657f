-------------------------- MODULE SendQueueProofs --------------------------
(***************************************************************************)
(* For every number of senders, buffers and frames and every pool size:    *)
(* one write is in flight at a time, every buffer has one holder, a queue  *)
(* that is not empty is being served while the socket works, and the       *)
(* frames of a sender arrive in order.                                     *)
(***************************************************************************)
EXTENDS SendQueue, SequenceTheorems, FiniteSetTheorems, TLAPS

-----------------------------------------------------------------------------
(* Queues: append, head and tail *)

\* Appending adds one member, and keeps a queue without repetitions so if the
\* member is new (std::deque::push_back).
LEMMA AppendFacts ==
    ASSUME NEW S, NEW q \in Seq(S), NEW x \in S
    PROVE  /\ Append(q, x) \in Seq(S)
           /\ Append(q, x) # << >>
           /\ Range(Append(q, x)) = Range(q) \cup {x}
           /\ q # << >> => Head(Append(q, x)) = Head(q)
           /\ q = << >> => Head(Append(q, x)) = x
           /\ IsInjective(q) /\ x \notin Range(q) => IsInjective(Append(q, x))
<1> DEFINE r == Append(q, x)
<1>1. /\ r \in Seq(S) /\ Len(r) = Len(q) + 1
      /\ DOMAIN q = 1 .. Len(q) /\ DOMAIN r = 1 .. Len(q) + 1 /\ Len(q) \in Nat
  OBVIOUS
<1>2. /\ \A i \in 1 .. Len(q) : r[i] = q[i]
      /\ r[Len(q) + 1] = x
  OBVIOUS
<1>3. Range(r) = Range(q) \cup {x}
  <2>1. Range(r) \subseteq Range(q) \cup {x}
    BY <1>1, <1>2 DEF Range
  <2>2. Range(q) \cup {x} \subseteq Range(r)
    BY <1>1, <1>2 DEF Range
  <2> QED
    BY <2>1, <2>2
<1>4. IsInjective(q) /\ x \notin Range(q) => IsInjective(r)
  BY <1>1, <1>2 DEF Range, IsInjective
<1>5. r # << >> /\ (q # << >> => Head(r) = Head(q)) /\ (q = << >> => Head(r) = x)
  OBVIOUS
<1> QED
  BY <1>1, <1>3, <1>4, <1>5

\* Removing the head of a queue without repetitions removes it altogether
\* (std::deque::pop_front).
LEMMA TailFacts ==
    ASSUME NEW S, NEW q \in Seq(S), q # << >>
    PROVE  /\ Tail(q) \in Seq(S)
           /\ Head(q) \in S
           /\ Head(q) \in Range(q)
           /\ Range(Tail(q)) \subseteq Range(q)
           /\ IsInjective(q) => IsInjective(Tail(q)) /\ Head(q) \notin Range(Tail(q))
BY DEF Range, IsInjective

\* An empty queue holds nothing, a queue of one its only member.
LEMMA EmptyFacts ==
    /\ Range(<< >>) = {} /\ IsInjective(<< >>) /\ Len(<< >>) = 0
    /\ \A S : << >> \in Seq(S)
BY DEF Range, IsInjective

LEMMA OneFacts ==
    ASSUME NEW S, NEW x \in S
    PROVE  <<x>> \in Seq(S) /\ Len(<<x>>) = 1 /\ Head(<<x>>) = x /\ <<x>> # << >> /\ Tail(<<x>>) = << >>
OBVIOUS

\* Of two lengths whose sum is at most one, one may be positive.
LEMMA OneOfTwo ==
    ASSUME NEW q, NEW r, Len(q) \in Nat \ {0}, Len(r) \in Nat, Len(q) + Len(r) <= 1
    PROVE  Len(q) = 1 /\ Len(r) = 0
OBVIOUS

\* A queue of one is empty without its head.
LEMMA TailOfOne ==
    ASSUME NEW S, NEW q \in Seq(S), Len(q) = 1
    PROVE  Tail(q) = << >>
<1>1. q # << >>
  BY EmptySeq
<1>2. Tail(q) \in Seq(S) /\ Len(Tail(q)) = 0
  BY <1>1, HeadTailProperties
<1> QED
  BY <1>2, EmptySeq

-----------------------------------------------------------------------------
(* The invariant is inductive *)

LEMMA QueueInit == Init => QueueInv
<1> SUFFICES ASSUME Init PROVE QueueInv
  OBVIOUS
<1>1. TypeOK
  <2>1. \A S : << >> \in Seq(S)
    BY EmptyFacts
  <2>2. 0 <= LIST_SIZE /\ 0 \in 0 .. MaxFrames
    BY ListSizeAssumption, MaxFramesAssumption
  <2>3. content \in [Bufs -> Frames \cup {Cleared}] /\ mine \in [Senders -> Bufs \cup {None}]
        /\ count \in [Senders -> 0 .. MaxFrames]
    BY <2>2 DEF Init
  <2> QED
    BY <2>1, <2>2, <2>3, EmptyFacts, Zenon DEF Init, TypeOK
<1>2. OneHolder
  BY EmptyFacts DEF Init, OneHolder, Apart
<1>3. OneWrite /\ ErrorBreaks /\ QueueIsServedUntilBroken
  BY DEF Init, OneWrite, ErrorBreaks, QueueIsServedUntilBroken, QueueIsServed
<1>4. Filled
  BY EmptyFacts DEF Init, Filled
<1> QED
  BY <1>1, <1>2, <1>3, <1>4 DEF QueueInv

\* A sender takes a buffer nobody holds: out of the pool, or a new one.
LEMMA GetStep == ASSUME QueueInv, NEW s \in Senders, Get(s) PROVE QueueInv'
<1> USE DEF QueueInv
<1>1. PICK b \in Bufs : /\ mine' = [mine EXCEPT ![s] = b]
                        /\ b \notin Range(bufList') \cup Range(posted) \cup Range(outgoingQueue)
                        /\ \A u \in Senders : mine[u] # b
                        /\ bufList' \in Seq(Bufs) /\ Len(bufList') <= LIST_SIZE
                        /\ Range(bufList') \subseteq Range(bufList)
                        /\ IsInjective(bufList')
  <2>1. CASE bufList # << >>
    <3>1. bufList \in Seq(Bufs) /\ IsInjective(bufList)
      BY DEF TypeOK, OneHolder
    <3>2. bufList' = Tail(bufList) /\ mine' = [mine EXCEPT ![s] = Head(bufList)]
      BY <2>1 DEF Get
    <3>3. Len(bufList') <= LIST_SIZE
      BY <2>1, <3>1, <3>2, ListSizeAssumption DEF TypeOK
    <3>4. Head(bufList) \notin Range(posted) \cup Range(outgoingQueue)
      BY <2>1, <3>1, TailFacts DEF OneHolder, Apart
    <3>5. \A u \in Senders : mine[u] # Head(bufList)
      BY <2>1, <3>1, TailFacts, NoneAssumption DEF OneHolder, TypeOK
    <3> QED
      BY <2>1, <3>1, <3>2, <3>3, <3>4, <3>5, TailFacts
  <2>2. CASE bufList = << >>
    BY <2>2 DEF Get, Alive, TypeOK, OneHolder
  <2> QED
    BY <2>1, <2>2
<1>2. UNCHANGED <<content, count, posted, outgoingQueue, writing, completed, wire, broken>>
      /\ count[s] < MaxFrames
  BY DEF Get, connVars
<1>3. TypeOK'
  BY <1>1, <1>2 DEF TypeOK
<1>4. OneHolder'
  BY <1>1, <1>2 DEF OneHolder, Apart, TypeOK
<1>5. OneWrite' /\ ErrorBreaks' /\ QueueIsServedUntilBroken'
  BY <1>2 DEF OneWrite, ErrorBreaks, QueueIsServedUntilBroken, QueueIsServed
<1>6. Filled'
  BY <1>1, <1>2 DEF Filled, TypeOK
<1> QED
  BY <1>3, <1>4, <1>5, <1>6

\* The sender fills its buffer and gives it away.
LEMMA PostStep == ASSUME QueueInv, NEW s \in Senders, Post(s) PROVE QueueInv'
<1> USE DEF QueueInv
<1> DEFINE b == mine[s]
<1>1. /\ b \in Bufs /\ b # None
      /\ b \notin Range(bufList) \cup Range(posted) \cup Range(outgoingQueue)
      /\ \A u \in Senders : mine[u] = b => u = s
      /\ count[s] \in 0 .. MaxFrames /\ count[s] < MaxFrames
  BY DEF Post, TypeOK, OneHolder, Filled
<1>2. /\ content' = [content EXCEPT ![b] = <<s, count[s] + 1>>]
      /\ count' = [count EXCEPT ![s] = count[s] + 1]
      /\ posted' = Append(posted, b)
      /\ mine' = [mine EXCEPT ![s] = None]
      /\ UNCHANGED <<bufList, outgoingQueue, writing, completed, wire, broken>>
  BY DEF Post, connVars
<1>3. /\ posted' \in Seq(Bufs)
      /\ Range(posted') = Range(posted) \cup {b}
      /\ IsInjective(posted')
  BY <1>1, <1>2, AppendFacts DEF TypeOK, OneHolder
<1>4. <<s, count[s] + 1>> \in Frames /\ count[s] + 1 \in 0 .. MaxFrames
  BY <1>1, MaxFramesAssumption DEF Frames
<1>5. TypeOK'
  BY <1>1, <1>2, <1>3, <1>4 DEF TypeOK
<1>6. OneHolder'
  BY <1>1, <1>2, <1>3 DEF OneHolder, Apart, TypeOK
<1>7. OneWrite' /\ ErrorBreaks' /\ QueueIsServedUntilBroken'
  BY <1>2 DEF OneWrite, ErrorBreaks, QueueIsServedUntilBroken, QueueIsServed
<1>8. Filled'
  BY <1>1, <1>2, <1>3, <1>4 DEF Filled, TypeOK
<1> QED
  BY <1>5, <1>6, <1>7, <1>8

\* sendDataImpl() starts a write exactly when the queue was empty, and then no
\* write was in flight.
LEMMA SendStep == ASSUME QueueInv, sendDataImpl PROVE QueueInv'
<1> USE DEF QueueInv
<1> DEFINE b == Head(posted)
<1>1. /\ posted # << >> /\ posted \in Seq(Bufs) /\ outgoingQueue \in Seq(Bufs)
      /\ writing \in Seq(Bufs) /\ completed \in Seq([buf : Bufs, error : BOOLEAN])
      /\ posted' = Tail(posted) /\ outgoingQueue' = Append(outgoingQueue, b)
      /\ UNCHANGED <<bufList, content, mine, count, completed, wire, broken>>
  BY DEF sendDataImpl, TypeOK, sideVars
<1>2. /\ posted' \in Seq(Bufs) /\ IsInjective(posted')
      /\ b \in Bufs /\ b \in Range(posted) /\ b \notin Range(posted')
      /\ Range(posted') \subseteq Range(posted)
  BY <1>1, TailFacts DEF OneHolder
<1>3. /\ outgoingQueue' \in Seq(Bufs) /\ outgoingQueue' # << >>
      /\ Range(outgoingQueue') = Range(outgoingQueue) \cup {b}
      /\ outgoingQueue # << >> => Head(outgoingQueue') = Head(outgoingQueue)
      /\ outgoingQueue = << >> => Head(outgoingQueue') = b
      /\ IsInjective(outgoingQueue')
  BY <1>1, <1>2, AppendFacts DEF OneHolder, Apart
<1>4. \/ outgoingQueue # << >> /\ writing' = writing
      \/ outgoingQueue = << >> /\ writing = << >> /\ completed = << >> /\ writing' = <<b>>
  <2>1. LeaveTheJob <=> outgoingQueue # << >>
    BY <1>1, <1>2 DEF LeaveTheJob
  <2>2. CASE outgoingQueue = << >>
    BY <1>1, <1>2, <1>3, <2>1, <2>2 DEF sendDataImpl, DoSendData, OneWrite
  <2> QED
    BY <2>1, <2>2 DEF sendDataImpl
<1>5. TypeOK'
  <2>1. writing' \in Seq(Bufs)
    BY <1>1, <1>2, <1>4, OneFacts
  <2> QED
    BY <1>1, <1>2, <1>3, <2>1 DEF TypeOK
<1>6. OneWrite'
  <2>1. completed' = completed /\ outgoingQueue' # << >>
    BY <1>1, <1>3
  <2>2. CASE outgoingQueue # << >> /\ writing' = writing
    <3>1. Head(outgoingQueue') = Head(outgoingQueue)
      BY <1>3, <2>2
    <3> QED
      BY <2>1, <2>2, <3>1 DEF OneWrite
  <2>3. CASE outgoingQueue = << >> /\ writing = << >> /\ completed = << >> /\ writing' = <<b>>
    <3>1. Len(writing') = 1 /\ Head(writing') = b /\ Len(completed') = 0 /\ completed' = << >>
      BY <1>2, <2>1, <2>3, OneFacts, EmptyFacts
    <3>2. Head(outgoingQueue') = b
      BY <1>3, <2>3
    <3> QED
      BY <2>1, <3>1, <3>2 DEF OneWrite
  <2> QED
    BY <1>4, <2>2, <2>3
<1>7. OneHolder'
  BY <1>1, <1>2, <1>3 DEF OneHolder, Apart
<1>8. ErrorBreaks'
  BY <1>1 DEF ErrorBreaks
<1>9. Filled'
  BY <1>1, <1>2, <1>3 DEF Filled
<1>10. QueueIsServedUntilBroken'
  BY <1>1, <1>2, <1>4 DEF QueueIsServedUntilBroken, QueueIsServed
<1> QED
  BY <1>5, <1>6, <1>7, <1>8, <1>9, <1>10

\* The one write in flight becomes the one completion.
LEMMA CompleteStep ==
    ASSUME QueueInv, NEW error \in BOOLEAN, Complete(error),
           \/ ~error /\ broken' = broken /\ wire' = Append(wire, content[Head(writing)])
           \/ error /\ broken' = TRUE /\ wire' = wire
    PROVE  QueueInv'
<1> USE DEF QueueInv
<1>1. /\ UNCHANGED <<bufList, content, mine, count, posted, outgoingQueue>>
      /\ writing # << >> /\ writing \in Seq(Bufs)
      /\ completed \in Seq([buf : Bufs, error : BOOLEAN])
      /\ outgoingQueue # << >> /\ outgoingQueue \in Seq(Bufs)
      /\ Head(writing) = Head(outgoingQueue)
  BY DEF Complete, sideVars, TypeOK, OneWrite
<1>2. completed = << >> /\ Len(writing) = 1
  <2>1. Len(writing) \in Nat \ {0} /\ Len(completed) \in Nat
    BY <1>1, EmptySeq, LenProperties
  <2>2. Len(writing) + Len(completed) <= 1
    BY DEF OneWrite
  <2>3. Len(writing) = 1 /\ Len(completed) = 0
    BY <2>1, <2>2, OneOfTwo, Zenon
  <2> QED
    BY <1>1, <2>3, EmptySeq
<1> DEFINE c == [buf |-> Head(writing), error |-> error]
<1>3. writing' = << >> /\ completed' = <<c>>
  BY <1>1, <1>2, TailOfOne DEF Complete
<1>4. content[Head(writing)] \in Frames
  BY <1>1, TailFacts DEF Filled
<1>5. TypeOK'
  <2>1. wire' \in Seq(Frames)
    <3>1. wire \in Seq(Frames)
      BY DEF TypeOK
    <3> QED
      BY <1>4, <3>1, AppendFacts
  <2>2. broken' \in BOOLEAN
    BY DEF TypeOK
  <2>3. writing' \in Seq(Bufs) /\ completed' \in Seq([buf : Bufs, error : BOOLEAN])
    <3>1. c \in [buf : Bufs, error : BOOLEAN]
      BY <1>1, TailFacts
    <3> QED
      BY <1>3, <3>1, EmptySeq, OneFacts
  <2> QED
    BY <1>1, <2>1, <2>2, <2>3 DEF TypeOK
<1>6. OneWrite'
  BY <1>1, <1>3 DEF OneWrite
<1>7. OneHolder' /\ Filled'
  BY <1>1 DEF OneHolder, Apart, Filled
<1>8. ErrorBreaks'
  BY <1>3 DEF ErrorBreaks
<1>9. QueueIsServedUntilBroken'
  BY <1>3 DEF QueueIsServedUntilBroken, QueueIsServed
<1> QED
  BY <1>5, <1>6, <1>7, <1>8, <1>9

\* handle_sendData() gives back the buffer it took from the queue, which no
\* other write can be using, and starts the next one.
LEMMA HandleStep == ASSUME QueueInv, handle_sendData PROVE QueueInv'
<1> USE DEF QueueInv
<1> DEFINE b == Head(outgoingQueue)
<1>1. /\ completed # << >> /\ completed \in Seq([buf : Bufs, error : BOOLEAN])
      /\ writing \in Seq(Bufs) /\ outgoingQueue \in Seq(Bufs) /\ outgoingQueue # << >>
      /\ Head(completed).buf = b
      /\ outgoingQueue' = Tail(outgoingQueue) /\ completed' = Tail(completed)
      /\ UNCHANGED <<mine, count, posted, wire, broken>>
  BY DEF handle_sendData, TypeOK, OneWrite
<1>2. completed' = << >> /\ writing = << >>
  <2>1. Len(completed) \in Nat \ {0} /\ Len(writing) \in Nat
    BY <1>1, EmptySeq, LenProperties
  <2>2. Len(completed) + Len(writing) <= 1
    BY <2>1 DEF OneWrite
  <2>3. Len(completed) = 1 /\ Len(writing) = 0
    BY <2>1, <2>2, OneOfTwo, Zenon
  <2> QED
    BY <1>1, <2>3, EmptySeq, TailOfOne
<1>3. /\ outgoingQueue' \in Seq(Bufs) /\ IsInjective(outgoingQueue')
      /\ b \in Bufs /\ b \in Range(outgoingQueue) /\ b \notin Range(outgoingQueue')
      /\ Range(outgoingQueue') \subseteq Range(outgoingQueue)
  BY <1>1, TailFacts DEF OneHolder
<1>4. content' = [content EXCEPT ![b] = Cleared]
  BY <1>1 DEF handle_sendData, Put, Released
<1>5. /\ bufList' \in Seq(Bufs) /\ Len(bufList') <= LIST_SIZE
      /\ Range(bufList') \subseteq Range(bufList) \cup {b}
      /\ IsInjective(bufList')
  <2>1. bufList \in Seq(Bufs) /\ b \notin Range(bufList) /\ IsInjective(bufList)
    BY <1>3 DEF TypeOK, OneHolder, Apart
  <2>2. CASE Len(bufList) < LIST_SIZE
    <3>1. bufList' = Append(bufList, b)
      BY <1>1, <2>2 DEF handle_sendData, Put, Released
    <3>2. Len(bufList') <= LIST_SIZE
      BY <2>1, <2>2, <3>1, ListSizeAssumption
    <3> QED
      BY <1>3, <2>1, <3>1, <3>2, AppendFacts
  <2>3. CASE ~(Len(bufList) < LIST_SIZE)
    BY <1>1, <2>1, <2>3 DEF handle_sendData, Put, Released, TypeOK
  <2> QED
    BY <2>2, <2>3
<1>6. \/ WriteNext /\ writing' = <<Head(outgoingQueue')>> /\ outgoingQueue' # << >>
      \/ ~WriteNext /\ writing' = << >>
  BY <1>2 DEF handle_sendData, DoSendData, WriteNext
<1>7. TypeOK'
  <2>1. content' \in [Bufs -> Frames \cup {Cleared}]
    BY <1>3, <1>4 DEF TypeOK
  <2>2. completed' \in Seq([buf : Bufs, error : BOOLEAN])
    BY <1>2, EmptySeq
  <2>3. CASE writing' = << >>
    BY <1>1, <1>3, <1>5, <2>1, <2>2, <2>3, EmptySeq DEF TypeOK
  <2>4. CASE outgoingQueue' # << >> /\ writing' = <<Head(outgoingQueue')>>
    <3>1. writing' \in Seq(Bufs)
      BY <1>3, <2>4, OneFacts, TailFacts
    <3> QED
      BY <1>1, <1>3, <1>5, <2>1, <2>2, <3>1 DEF TypeOK
  <2> QED
    BY <1>6, <2>3, <2>4
<1>8. OneWrite'
  <2>1. CASE writing' = << >>
    BY <1>2, <2>1, EmptySeq DEF OneWrite
  <2>2. CASE outgoingQueue' # << >> /\ writing' = <<Head(outgoingQueue')>>
    <3>1. Len(writing') = 1 /\ Head(writing') = Head(outgoingQueue') /\ Len(completed') = 0
      BY <1>2, <1>3, <2>2, OneFacts, TailFacts, EmptySeq
    <3> QED
      BY <1>2, <2>2, <3>1 DEF OneWrite
  <2> QED
    BY <1>6, <2>1, <2>2
<1>9. OneHolder'
  BY <1>1, <1>3, <1>5 DEF OneHolder, Apart
<1>10. ErrorBreaks'
  BY <1>2 DEF ErrorBreaks
<1>11. Filled'
  <2>1. \A c \in Range(posted) \cup Range(outgoingQueue') : c # b
    BY <1>3 DEF OneHolder, Apart
  <2>2. \A c \in Range(posted) \cup Range(outgoingQueue') : content'[c] = content[c]
    BY <1>4, <2>1 DEF TypeOK
  <2> QED
    BY <1>1, <1>3, <2>2 DEF Filled
<1>12. QueueIsServedUntilBroken'
  <2>1. SUFFICES ASSUME ~broken, outgoingQueue' # << >> PROVE writing' # << >>
    BY <1>1 DEF QueueIsServedUntilBroken, QueueIsServed
  <2>2. WriteNext
    BY <1>1, <2>1 DEF WriteNext, ErrorBreaks
  <2> QED
    BY <1>3, <1>6, <2>2, OneFacts, TailFacts
<1> QED
  BY <1>7, <1>8, <1>9, <1>10, <1>11, <1>12

LEMMA QueueStep == QueueInv /\ [Next]_vars => QueueInv'
<1> SUFFICES ASSUME QueueInv, [Next]_vars PROVE QueueInv'
  OBVIOUS
<1>1. ASSUME NEW s \in Senders, Get(s) PROVE QueueInv'
  BY <1>1, GetStep
<1>2. ASSUME NEW s \in Senders, Post(s) PROVE QueueInv'
  BY <1>2, PostStep
<1>3. CASE sendDataImpl
  BY <1>3, SendStep
<1>4. CASE handle_sendData
  BY <1>4, HandleStep
<1>5. CASE WriteOk
  BY <1>5, CompleteStep DEF WriteOk
<1>6. CASE WriteError
  BY <1>6, CompleteStep DEF WriteError
<1>7. CASE UNCHANGED vars
  BY <1>7 DEF vars, QueueInv, TypeOK, OneWrite, OneHolder, Apart, ErrorBreaks, Filled,
              QueueIsServedUntilBroken, QueueIsServed
<1> QED
  BY <1>1, <1>2, <1>3, <1>4, <1>5, <1>6, <1>7 DEF Next

\* Everything the queue and the pool keep true, of every reachable state.
THEOREM QueueCorrect == Spec => []QueueInv
BY QueueInit, QueueStep, PTL DEF Spec

\* Every variable has its type; in particular the pool never keeps more buffers
\* than its limit (BufferMgr::put, common_utils.hpp line 227).
THEOREM TypeCorrect == Spec => []TypeOK
<1>1. QueueInv => TypeOK
  BY DEF QueueInv
<1> QED
  BY <1>1, QueueCorrect, PTL

\* Two async_writes never overlap on the socket, and the one in flight is that
\* of the front of the queue (sendDataImpl, handle_sendData: connection.hpp
\* lines 188-220), whatever the senders do.
THEOREM WritesDoNotOverlap == Spec => []OneWrite
<1>1. QueueInv => OneWrite
  BY DEF QueueInv
<1> QED
  BY <1>1, QueueCorrect, PTL

\* No buffer is back in the pool, or with a sender, while the connection still
\* has to write it (BufferMgr::put after the completion, server.cpp lines 24-25).
THEOREM BuffersAreNotShared == Spec => []OneHolder
<1>1. QueueInv => OneHolder
  BY DEF QueueInv
<1> QED
  BY <1>1, QueueCorrect, PTL

\* A buffer that sendDataImpl() left to handle_sendData() has a write before it,
\* as long as no write has failed.
THEOREM QueueIsNotStuck == Spec => []QueueIsServedUntilBroken
<1>1. QueueInv => QueueIsServedUntilBroken
  BY DEF QueueInv
<1> QED
  BY <1>1, QueueCorrect, PTL

-----------------------------------------------------------------------------
(* The frames of a sender arrive in order *)

\* The sender and the number of the frame in a buffer, and the frames of a
\* sender the peer has received.
Who(b)  == content[b][1]
Nth(b)  == content[b][2]
Sent(s) == Cardinality({j \in 1 .. Len(wire) : wire[j][1] = s})

\* The places of the queue whose buffer is not on the wire: all of them, or all
\* but the front while its completion waits.
Unsent == {i \in DOMAIN outgoingQueue : i > 1 \/ completed = << >>}

\* Of two buffers of one sender the first has the older frame.
Before(b, c) == Who(b) = Who(c) => Nth(b) < Nth(c)

\* The queue, and what the strand will put there, hold the frames of a sender
\* in the order of sendData().
InOrder ==
    /\ \A i, j \in DOMAIN outgoingQueue : i < j => Before(outgoingQueue[i], outgoingQueue[j])
    /\ \A i, j \in DOMAIN posted : i < j => Before(posted[i], posted[j])
    /\ \A i \in DOMAIN outgoingQueue, j \in DOMAIN posted : Before(outgoingQueue[i], posted[j])

\* No frame is queued or received that was not sent.
Counted ==
    /\ \A i \in DOMAIN outgoingQueue : Nth(outgoingQueue[i]) <= count[Who(outgoingQueue[i])]
    /\ \A i \in DOMAIN posted : Nth(posted[i]) <= count[Who(posted[i])]
    /\ \A s \in Senders : Sent(s) <= count[s]

\* While the socket works, the frames on their way are those that were sent and
\* not received.
NotRepeated ==
    /\ \A i \in Unsent : Sent(Who(outgoingQueue[i])) < Nth(outgoingQueue[i])
    /\ \A i \in DOMAIN posted : Sent(Who(posted[i])) < Nth(posted[i])
OnItsWay(s, n) == \/ \E i \in Unsent : content[outgoingQueue[i]] = <<s, n>>
                  \/ \E i \in DOMAIN posted : content[posted[i]] = <<s, n>>
NotLost == \A s \in Senders : \A n \in Nat :
    Sent(s) < n /\ n <= count[s] => OnItsWay(s, n)

WireInv == InOrder /\ Counted /\ (~broken => NotRepeated /\ NotLost) /\ WireInOrder

\* Counting along a sequence to which an element is added.
Among(w, n, s) == Cardinality({j \in 1 .. n : w[j][1] = s})

LEMMA CountType == ASSUME NEW n \in Nat, NEW w, NEW s
                   PROVE  Among(w, n, s) \in Nat
<1>1. IsFiniteSet(1 .. n)
  BY FS_Interval
<1>2. IsFiniteSet({j \in 1 .. n : w[j][1] = s})
  BY <1>1, FS_Subset
<1> QED
  BY <1>2, FS_CardinalityType DEF Among

LEMMA CountStep ==
    ASSUME NEW n \in Nat, NEW m, m = n + 1, NEW w, NEW v, NEW s,
           \A j \in 1 .. n : v[j] = w[j]
    PROVE  /\ v[m][1] = s => Among(v, m, s) = Among(w, n, s) + 1
           /\ v[m][1] # s => Among(v, m, s) = Among(w, n, s)
<1> DEFINE S(u, k) == {j \in 1 .. k : u[j][1] = s}
<1>1. S(v, m) = IF v[m][1] = s THEN S(w, n) \cup {m} ELSE S(w, n)
  <2>1. \A j : j \in 1 .. m <=> j \in 1 .. n \/ j = m
    OBVIOUS
  <2> QED
    BY <2>1
<1>2. m \notin S(w, n)
  OBVIOUS
<1>4. IsFiniteSet(S(w, n))
  <2>1. IsFiniteSet(1 .. n)
    BY FS_Interval
  <2> QED
    BY <2>1, FS_Subset
<1>3. Cardinality(S(w, n) \cup {m}) = Cardinality(S(w, n)) + 1
  BY <1>2, <1>4, FS_AddElement
<1> QED
  BY <1>1, <1>3 DEF Among

\* The number of frames received is a number.
LEMMA SentType == ASSUME TypeOK, NEW s PROVE Sent(s) \in Nat
<1>1. Len(wire) \in Nat
  BY DEF TypeOK
<1>2. Among(wire, Len(wire), s) \in Nat
  BY <1>1, CountType
<1> QED
  BY <1>2 DEF Sent, Among

\* What is in a buffer that waits to be written.
LEMMA WaitingFacts ==
    ASSUME QueueInv
    PROVE  /\ \A i \in DOMAIN outgoingQueue :
                 /\ outgoingQueue[i] \in Bufs /\ outgoingQueue[i] \in Range(outgoingQueue)
                 /\ content[outgoingQueue[i]] =
                       <<Who(outgoingQueue[i]), Nth(outgoingQueue[i])>>
                 /\ Who(outgoingQueue[i]) \in Senders /\ Nth(outgoingQueue[i]) \in Nat
           /\ \A i \in DOMAIN posted :
                 /\ posted[i] \in Bufs /\ posted[i] \in Range(posted)
                 /\ content[posted[i]] = <<Who(posted[i]), Nth(posted[i])>>
                 /\ Who(posted[i]) \in Senders /\ Nth(posted[i]) \in Nat
<1>1. /\ outgoingQueue \in Seq(Bufs) /\ posted \in Seq(Bufs)
      /\ \A b \in Range(posted) \cup Range(outgoingQueue) : content[b] \in Frames
  BY DEF QueueInv, TypeOK, Filled
<1>2. \A f \in Frames : f = <<f[1], f[2]>> /\ f[1] \in Senders /\ f[2] \in Nat
  BY MaxFramesAssumption DEF Frames
<1>3. /\ \A i \in DOMAIN outgoingQueue : outgoingQueue[i] \in Range(outgoingQueue)
      /\ \A i \in DOMAIN posted : posted[i] \in Range(posted)
      /\ \A i \in DOMAIN outgoingQueue : outgoingQueue[i] \in Bufs
      /\ \A i \in DOMAIN posted : posted[i] \in Bufs
  BY <1>1 DEF Range
<1> QED
  BY <1>1, <1>2, <1>3 DEF Who, Nth

LEMMA WireInit == Init => WireInv
<1> SUFFICES ASSUME Init PROVE WireInv
  OBVIOUS
<1>1. /\ outgoingQueue = << >> /\ posted = << >> /\ wire = << >>
      /\ \A s \in Senders : count[s] = 0
  BY DEF Init
<1>2. \A s : Sent(s) = 0
  <2>1. \A s : {j \in 1 .. Len(wire) : wire[j][1] = s} = {}
    BY <1>1
  <2> QED
    BY <2>1, FS_EmptySet DEF Sent
<1>3. InOrder
  BY <1>1 DEF InOrder
<1>4. Counted
  BY <1>1, <1>2 DEF Counted
<1>5. NotRepeated
  BY <1>1 DEF NotRepeated, Unsent
<1>6. NotLost
  BY <1>1, <1>2 DEF NotLost
<1>7. WireInOrder
  BY <1>1 DEF WireInOrder
<1> QED
  BY <1>3, <1>4, <1>5, <1>6, <1>7 DEF WireInv

\* Nothing else is looked at.
LEMMA WireKept ==
    ASSUME WireInv,
           UNCHANGED <<content, count, posted, outgoingQueue, completed, wire, broken>>
    PROVE  WireInv'
<1>1. InOrder' = InOrder
  BY DEF InOrder, Before, Who, Nth
<1>2. Counted' = Counted
  BY DEF Counted, Who, Nth, Sent
<1>3. NotRepeated' = NotRepeated
  BY DEF NotRepeated, Unsent, Who, Nth, Sent
<1>4. NotLost' = NotLost
  BY DEF NotLost, OnItsWay, Unsent, Sent
<1>5. WireInOrder' = WireInOrder
  BY DEF WireInOrder
<1> QED
  BY <1>1, <1>2, <1>3, <1>4, <1>5 DEF WireInv

\* A sender that takes a buffer changes nothing that is on its way.
LEMMA WireGet == ASSUME WireInv, NEW s \in Senders, Get(s) PROVE WireInv'
<1>1. UNCHANGED <<content, count, posted, outgoingQueue, completed, wire, broken>>
  BY DEF Get, connVars
<1> QED
  BY <1>1, WireKept

\* The frame posted is the next one of its sender.
LEMMA WirePost == ASSUME QueueInv, WireInv, NEW s \in Senders, Post(s) PROVE WireInv'
<1>m. PICK m : m = Len(posted) + 1
  OBVIOUS
<1>n. PICK n : n = count[s] + 1
  OBVIOUS
<1>b. PICK b : b = mine[s]
  OBVIOUS
<1>1. /\ b \in Bufs /\ count[s] \in Nat /\ posted \in Seq(Bufs) /\ count \in [Senders -> Nat]
      /\ n \in Nat /\ n = count[s] + 1
      /\ \A c \in Range(posted) \cup Range(outgoingQueue) : c # b
  BY <1>b, <1>n, MaxFramesAssumption DEF Post, QueueInv, TypeOK, OneHolder
<1>2. /\ content' = [content EXCEPT ![b] = <<s, n>>]
      /\ count' = [count EXCEPT ![s] = n]
      /\ posted' = Append(posted, b)
      /\ UNCHANGED <<outgoingQueue, completed, wire, broken>>
  BY <1>b, <1>n DEF Post, connVars
<1>3. /\ DOMAIN posted = 1 .. m - 1 /\ DOMAIN posted' = 1 .. m /\ m \in Nat \ {0}
      /\ posted'[m] = b
      /\ \A i \in DOMAIN posted : posted'[i] = posted[i] /\ i \in DOMAIN posted' /\ i < m
      /\ \A i \in DOMAIN posted' : i \in DOMAIN posted \/ i = m
  BY <1>1, <1>2, <1>m
<1>4. /\ \A c \in Range(posted) \cup Range(outgoingQueue) : content'[c] = content[c]
      /\ content'[b] = <<s, n>>
  BY <1>1, <1>2 DEF QueueInv, TypeOK
<1>5. /\ \A i \in DOMAIN outgoingQueue : /\ Who(outgoingQueue[i])' = Who(outgoingQueue[i])
                                         /\ Nth(outgoingQueue[i])' = Nth(outgoingQueue[i])
                                         /\ content'[outgoingQueue[i]] = content[outgoingQueue[i]]
      /\ \A i \in DOMAIN posted : /\ Who(posted[i])' = Who(posted[i])
                                  /\ Nth(posted[i])' = Nth(posted[i])
                                  /\ content'[posted'[i]] = content[posted[i]]
      /\ Who(posted[m])' = s /\ Nth(posted[m])' = n
  <2>1. /\ \A i \in DOMAIN outgoingQueue : outgoingQueue[i] \in Range(outgoingQueue)
        /\ \A i \in DOMAIN posted : posted[i] \in Range(posted)
    BY WaitingFacts
  <2>2. /\ \A i \in DOMAIN outgoingQueue : content'[outgoingQueue[i]] = content[outgoingQueue[i]]
        /\ \A i \in DOMAIN posted : content'[posted'[i]] = content[posted[i]] /\ posted'[i] = posted[i]
    BY <1>3, <1>4, <2>1
  <2>3. content'[posted'[m]] = <<s, n>> /\ UNCHANGED outgoingQueue
    BY <1>2, <1>3, <1>4
  <2> QED
    BY <2>2, <2>3 DEF Who, Nth
<1>6. \A u : Sent(u)' = Sent(u) /\ Sent(u) \in Nat
  BY <1>2, SentType DEF Sent, QueueInv
<1>7. Unsent' = Unsent /\ Unsent \subseteq DOMAIN outgoingQueue
  BY <1>2 DEF Unsent
<1>8. /\ \A u \in Senders : count'[u] \in Nat /\ count[u] \in Nat /\ count[u] <= count'[u]
      /\ \A u \in Senders : u # s => count'[u] = count[u]
      /\ count'[s] = n
  BY <1>1, <1>2
<1>9. \A i \in DOMAIN outgoingQueue : Before(outgoingQueue[i], posted[m])'
  BY <1>2, <1>5, <1>1, WaitingFacts DEF Before, WireInv, Counted
<1>10. \A i \in DOMAIN posted : Before(posted[i], posted[m])'
  BY <1>5, <1>1, WaitingFacts DEF Before, WireInv, Counted
<1>11. InOrder'
  <2>1. \A i, j \in DOMAIN outgoingQueue : i < j => Before(outgoingQueue[i], outgoingQueue[j])'
    BY <1>2, <1>5 DEF WireInv, InOrder, Before
  <2>2. \A i, j \in DOMAIN posted : i < j => Before(posted[i], posted[j])'
    BY <1>5 DEF WireInv, InOrder, Before
  <2>3. \A i \in DOMAIN outgoingQueue, j \in DOMAIN posted : Before(outgoingQueue[i], posted[j])'
    BY <1>2, <1>5 DEF WireInv, InOrder, Before
  <2>4. \A i, j \in DOMAIN posted' : i < j => Before(posted[i], posted[j])'
    <3> SUFFICES ASSUME NEW i \in DOMAIN posted', NEW j \in DOMAIN posted', i < j
                 PROVE  Before(posted[i], posted[j])'
      OBVIOUS
    <3>1. i \in DOMAIN posted
      BY <1>3
    <3>2. CASE j \in DOMAIN posted
      BY <2>2, <3>1, <3>2
    <3>3. CASE j = m
      BY <1>10, <3>1, <3>3
    <3> QED
      BY <1>3, <3>2, <3>3
  <2>5. \A i \in DOMAIN outgoingQueue, j \in DOMAIN posted' :
           Before(outgoingQueue[i], posted[j])'
    BY <1>3, <1>9, <2>3
  <2> QED
    BY <1>2, <2>1, <2>4, <2>5 DEF InOrder
<1>12. Counted'
  <2>1. \A i \in DOMAIN outgoingQueue :
           Nth(outgoingQueue[i])' <= count'[Who(outgoingQueue[i])']
    BY <1>5, <1>8, WaitingFacts DEF WireInv, Counted
  <2>2. \A i \in DOMAIN posted : Nth(posted[i])' <= count'[Who(posted[i])']
    BY <1>5, <1>8, WaitingFacts DEF WireInv, Counted
  <2>3. \A i \in DOMAIN posted' : Nth(posted[i])' <= count'[Who(posted[i])']
    BY <1>3, <1>5, <1>8, <2>2
  <2>4. \A u \in Senders : Sent(u)' <= count'[u]
    BY <1>6, <1>8 DEF WireInv, Counted
  <2> QED
    BY <1>2, <2>1, <2>3, <2>4 DEF Counted
<1>13. ASSUME ~broken PROVE NotRepeated' /\ NotLost'
  <2>1. NotRepeated /\ NotLost /\ Sent(s) < n
    BY <1>1, <1>6, <1>13 DEF WireInv, Counted
  <2>2. \A i \in DOMAIN posted' : Sent(Who(posted[i]))' < Nth(posted[i])'
    <3>1. \A i \in DOMAIN posted : Sent(Who(posted[i]))' < Nth(posted[i])'
      BY <1>5, <1>6, <2>1 DEF NotRepeated
    <3>2. Sent(Who(posted[m]))' < Nth(posted[m])'
      BY <1>5, <1>6, <2>1
    <3> QED
      BY <1>3, <3>1, <3>2
  <2>3. \A i \in Unsent : Sent(Who(outgoingQueue[i]))' < Nth(outgoingQueue[i])'
    BY <1>5, <1>6, <1>7, <2>1 DEF NotRepeated
  <2>4. ASSUME NEW u \in Senders, NEW k \in Nat, Sent(u)' < k, k <= count'[u]
        PROVE  OnItsWay(u, k)'
    <3>1. CASE u = s /\ k = n
      BY <1>3, <1>4, <3>1 DEF OnItsWay
    <3>2. CASE ~(u = s /\ k = n)
      <4>1. k <= count[u]
        BY <1>1, <1>8, <2>4, <3>2
      <4>2. OnItsWay(u, k)
        BY <1>6, <2>1, <2>4, <4>1 DEF NotLost
      <4> QED
        BY <1>2, <1>3, <1>5, <1>7, <4>2 DEF OnItsWay
    <3> QED
      BY <3>1, <3>2
  <2> QED
    BY <1>2, <1>7, <2>2, <2>3, <2>4 DEF NotRepeated, NotLost
<1>14. WireInOrder'
  BY <1>2 DEF WireInv, WireInOrder
<1> QED
  BY <1>2, <1>11, <1>12, <1>13, <1>14 DEF WireInv

\* sendDataImpl() moves the oldest posted buffer to the end of the queue.
LEMMA WireSend == ASSUME QueueInv, WireInv, sendDataImpl PROVE WireInv'
<1>1. /\ posted # << >> /\ posted \in Seq(Bufs) /\ outgoingQueue \in Seq(Bufs)
      /\ posted' = Tail(posted) /\ outgoingQueue' = Append(outgoingQueue, Head(posted))
      /\ UNCHANGED <<content, count, completed, wire, broken>>
  BY DEF sendDataImpl, QueueInv, TypeOK, sideVars
<1>m. PICK m : m = Len(outgoingQueue) + 1
  OBVIOUS
<1>2. /\ m \in Nat \ {0} /\ DOMAIN outgoingQueue = 1 .. m - 1 /\ DOMAIN outgoingQueue' = 1 .. m
      /\ \A i \in DOMAIN outgoingQueue : /\ outgoingQueue'[i] = outgoingQueue[i]
                                         /\ i \in DOMAIN outgoingQueue' /\ i < m
      /\ \A i \in DOMAIN outgoingQueue' : i \in DOMAIN outgoingQueue \/ i = m
      /\ outgoingQueue'[m] = posted[1] /\ m \in DOMAIN outgoingQueue'
  BY <1>1, <1>m
<1>3. /\ 1 \in DOMAIN posted
      /\ \A i \in DOMAIN posted' : /\ posted'[i] = posted[i + 1]
                                   /\ i + 1 \in DOMAIN posted /\ 1 < i + 1 /\ i \in Nat
      /\ \A i \in DOMAIN posted : i = 1 \/ i - 1 \in DOMAIN posted'
  BY <1>1
<1>4. \A u : Sent(u)' = Sent(u)
  BY <1>1 DEF Sent
<1>5. \A c, d : Before(c, d)' = Before(c, d)
  BY <1>1 DEF Before, Who, Nth
<1>6. \A c : Who(c)' = Who(c) /\ Nth(c)' = Nth(c)
  BY <1>1 DEF Who, Nth
<1>7. completed # << >> => outgoingQueue # << >>
  BY DEF QueueInv, OneWrite
<1>8. /\ \A i \in Unsent : i \in Unsent' /\ i \in DOMAIN outgoingQueue
      /\ \A i \in Unsent' : i \in Unsent \/ i = m
      /\ m \in Unsent'
  BY <1>1, <1>2, <1>7 DEF Unsent
<1>9. /\ \A i, j \in DOMAIN outgoingQueue : i < j => Before(outgoingQueue[i], outgoingQueue[j])
      /\ \A i, j \in DOMAIN posted : i < j => Before(posted[i], posted[j])
      /\ \A i \in DOMAIN outgoingQueue, j \in DOMAIN posted :
            Before(outgoingQueue[i], posted[j])
  BY DEF WireInv, InOrder
<1>10. InOrder'
  <2>1. ASSUME NEW i \in DOMAIN outgoingQueue', NEW j \in DOMAIN outgoingQueue', i < j
        PROVE  Before(outgoingQueue'[i], outgoingQueue'[j])
    <3>1. i \in DOMAIN outgoingQueue
      BY <1>2, <2>1
    <3>2. CASE j \in DOMAIN outgoingQueue
      BY <1>2, <1>9, <2>1, <3>1, <3>2
    <3>3. CASE j = m
      BY <1>2, <1>3, <1>9, <3>1, <3>3
    <3> QED
      BY <1>2, <3>2, <3>3
  <2>2. ASSUME NEW i \in DOMAIN posted', NEW j \in DOMAIN posted', i < j
        PROVE  Before(posted'[i], posted'[j])
    <3>1. i + 1 < j + 1
      BY <1>3, <2>2
    <3> QED
      BY <1>3, <1>9, <3>1
  <2>3. ASSUME NEW i \in DOMAIN outgoingQueue', NEW j \in DOMAIN posted'
        PROVE  Before(outgoingQueue'[i], posted'[j])
    <3>1. CASE i \in DOMAIN outgoingQueue
      BY <1>2, <1>3, <1>9, <3>1
    <3>2. CASE i = m
      BY <1>2, <1>3, <1>9, <3>2
    <3> QED
      BY <1>2, <3>1, <3>2
  <2> QED
    BY <1>5, <2>1, <2>2, <2>3 DEF InOrder
<1>11. Counted'
  <2>1. /\ \A i \in DOMAIN outgoingQueue' :
              Nth(outgoingQueue'[i]) <= count[Who(outgoingQueue'[i])]
        /\ \A i \in DOMAIN posted' : Nth(posted'[i]) <= count[Who(posted'[i])]
    BY <1>2, <1>3 DEF WireInv, Counted
  <2>2. \A s \in Senders : Sent(s) <= count[s]
    BY DEF WireInv, Counted
  <2> QED
    BY <1>1, <1>4, <1>6, <2>1, <2>2 DEF Counted
<1>12. ASSUME ~broken PROVE NotRepeated' /\ NotLost'
  <2>1. NotRepeated /\ NotLost
    BY <1>12 DEF WireInv
  <2>2. /\ \A i \in Unsent' : Sent(Who(outgoingQueue'[i])) < Nth(outgoingQueue'[i])
        /\ \A i \in DOMAIN posted' : Sent(Who(posted'[i])) < Nth(posted'[i])
    BY <1>2, <1>3, <1>8, <2>1 DEF NotRepeated
  <2>3. ASSUME NEW u \in Senders, NEW k \in Nat, Sent(u) < k, k <= count[u]
        PROVE  OnItsWay(u, k)'
    <3>1. OnItsWay(u, k)
      BY <2>1, <2>3 DEF NotLost
    <3>2. CASE \E i \in Unsent : content[outgoingQueue[i]] = <<u, k>>
      BY <1>1, <1>2, <1>8, <3>2 DEF OnItsWay
    <3>3. CASE \E i \in DOMAIN posted : content[posted[i]] = <<u, k>>
      <4>1. PICK i \in DOMAIN posted : content[posted[i]] = <<u, k>>
        BY <3>3
      <4>2. CASE i = 1
        BY <1>1, <1>2, <1>8, <4>1, <4>2 DEF OnItsWay
      <4>3. CASE i - 1 \in DOMAIN posted'
        <5>1. posted'[i - 1] = posted[i]
          BY <1>1, <1>3, <4>3
        <5> QED
          BY <1>1, <4>1, <4>3, <5>1 DEF OnItsWay
      <4> QED
        BY <1>3, <4>2, <4>3
    <3> QED
      BY <3>1, <3>2, <3>3 DEF OnItsWay
  <2>4. NotRepeated'
    BY <1>4, <1>6, <2>2 DEF NotRepeated
  <2>5. NotLost'
    BY <1>1, <1>4, <2>3 DEF NotLost
  <2> QED
    BY <2>4, <2>5
<1>13. WireInOrder'
  BY <1>1 DEF WireInv, WireInOrder
<1> QED
  BY <1>1, <1>10, <1>11, <1>12, <1>13 DEF WireInv

\* What a write that ends leaves behind: the queue as it was, and the completion
\* of its front.
LEMMA WriteFacts ==
    ASSUME QueueInv, NEW error \in BOOLEAN, Complete(error)
    PROVE  /\ UNCHANGED <<content, count, posted, outgoingQueue>>
           /\ outgoingQueue \in Seq(Bufs) /\ outgoingQueue # << >>
           /\ Head(writing) = outgoingQueue[1] /\ 1 \in DOMAIN outgoingQueue
           /\ completed = << >> /\ completed' # << >>
           /\ Unsent = DOMAIN outgoingQueue
           /\ \A i : i \in Unsent' <=> i \in DOMAIN outgoingQueue /\ i > 1
           /\ \A i \in DOMAIN outgoingQueue : i = 1 \/ i > 1
<1>1. /\ UNCHANGED <<content, count, posted, outgoingQueue>>
      /\ writing # << >> /\ writing \in Seq(Bufs)
      /\ completed \in Seq([buf : Bufs, error : BOOLEAN])
      /\ outgoingQueue # << >> /\ outgoingQueue \in Seq(Bufs)
      /\ Head(writing) = Head(outgoingQueue)
      /\ completed' = Append(completed, [buf |-> Head(writing), error |-> error])
  BY DEF Complete, sideVars, QueueInv, TypeOK, OneWrite
<1>2. completed = << >>
  <2>1. Len(writing) \in Nat \ {0} /\ Len(completed) \in Nat
    BY <1>1, EmptySeq, LenProperties
  <2>2. Len(writing) + Len(completed) <= 1
    BY DEF QueueInv, OneWrite
  <2>3. Len(completed) = 0
    BY <2>1, <2>2, OneOfTwo, Zenon
  <2> QED
    BY <1>1, <2>3, EmptySeq
<1>3. completed' # << >>
  BY <1>1
<1>4. DOMAIN outgoingQueue = 1 .. Len(outgoingQueue) /\ Len(outgoingQueue) \in Nat
      /\ Head(outgoingQueue) = outgoingQueue[1]
      /\ 1 \in DOMAIN outgoingQueue
  BY <1>1
<1> QED
  BY <1>1, <1>2, <1>3, <1>4 DEF Unsent

\* A failed write leaves what was received as it is; nothing will be added.
LEMMA WireError == ASSUME QueueInv, WireInv, WriteError PROVE WireInv'
<1>1. /\ UNCHANGED <<content, count, posted, outgoingQueue, wire>>
      /\ broken' = TRUE
  BY WriteFacts DEF WriteError
<1>2. InOrder' = InOrder
  BY <1>1 DEF InOrder, Before, Who, Nth
<1>3. Counted' = Counted
  BY <1>1 DEF Counted, Who, Nth, Sent
<1>4. WireInOrder' = WireInOrder
  BY <1>1 DEF WireInOrder
<1> QED
  BY <1>1, <1>2, <1>3, <1>4 DEF WireInv

\* The front of the queue is the next frame of its sender: an older one that the
\* peer does not have would be before it, and nothing is.
LEMMA FrontIsNext ==
    ASSUME QueueInv, WireInv, ~broken, outgoingQueue # << >>, completed = << >>
    PROVE  Nth(outgoingQueue[1]) = Sent(Who(outgoingQueue[1])) + 1
<1>b. PICK b : b = outgoingQueue[1]
  OBVIOUS
<1>1. /\ Unsent = DOMAIN outgoingQueue /\ 1 \in DOMAIN outgoingQueue
      /\ \A i \in DOMAIN outgoingQueue : i = 1 \/ i > 1
  <2>1. outgoingQueue \in Seq(Bufs)
    BY DEF QueueInv, TypeOK
  <2>2. DOMAIN outgoingQueue = 1 .. Len(outgoingQueue) /\ 1 \in DOMAIN outgoingQueue
        /\ Len(outgoingQueue) \in Nat
    BY <2>1
  <2> QED
    BY <2>2 DEF Unsent
<1>2. /\ Who(b) \in Senders /\ Nth(b) \in Nat /\ content[b] = <<Who(b), Nth(b)>>
  BY <1>1, <1>b, WaitingFacts
<1>3. Sent(Who(b)) \in Nat
  BY SentType DEF QueueInv
<1>4. Sent(Who(b)) < Nth(b) /\ Nth(b) <= count[Who(b)]
  BY <1>1, <1>b DEF WireInv, NotRepeated, Counted
<1>5. count[Who(b)] \in Nat
  BY <1>2, MaxFramesAssumption DEF QueueInv, TypeOK
<1>n. PICK n \in Nat : n = Sent(Who(b)) + 1
  BY <1>3
<1>6. SUFFICES ASSUME n < Nth(b) PROVE FALSE
  BY <1>2, <1>3, <1>4, <1>b, <1>n
<1>7. OnItsWay(Who(b), n)
  BY <1>2, <1>3, <1>4, <1>5, <1>6, <1>n DEF WireInv, NotLost
<1>8. ASSUME NEW i \in DOMAIN outgoingQueue, content[outgoingQueue[i]] = <<Who(b), n>>
      PROVE  FALSE
  <2>1. Who(outgoingQueue[i]) = Who(b) /\ Nth(outgoingQueue[i]) = n
    BY <1>8 DEF Who, Nth
  <2>2. CASE i = 1
    BY <1>2, <1>6, <1>b, <2>1, <2>2
  <2>3. CASE i > 1
    <3>1. Before(outgoingQueue[1], outgoingQueue[i])
      BY <1>1, <2>3 DEF WireInv, InOrder
    <3>2. Nth(b) < n
      BY <1>b, <2>1, <3>1 DEF Before
    <3> QED
      BY <1>2, <1>6, <3>2
  <2> QED
    BY <1>1, <2>2, <2>3
<1>9. ASSUME NEW i \in DOMAIN posted, content[posted[i]] = <<Who(b), n>>
      PROVE  FALSE
  <2>1. Who(posted[i]) = Who(b) /\ Nth(posted[i]) = n
    BY <1>9 DEF Who, Nth
  <2>2. Before(outgoingQueue[1], posted[i])
    BY <1>1 DEF WireInv, InOrder
  <2>3. Nth(b) < n
    BY <1>b, <2>1, <2>2 DEF Before
  <2> QED
    BY <1>2, <1>6, <2>3
<1> QED
  BY <1>1, <1>7, <1>8, <1>9 DEF OnItsWay

\* The peer receives the frame at the front of the queue.
LEMMA WireOk == ASSUME QueueInv, WireInv, WriteOk PROVE WireInv'
<1>b. PICK b : b = outgoingQueue[1]
  OBVIOUS
<1>p. PICK p : p = Who(b)
  OBVIOUS
<1>n. PICK n : n = Nth(b)
  OBVIOUS
<1>l. PICK l \in Nat : l = Len(wire)
  BY DEF QueueInv, TypeOK
<1>1. /\ UNCHANGED <<content, count, posted, outgoingQueue>>
      /\ outgoingQueue # << >> /\ 1 \in DOMAIN outgoingQueue
      /\ completed = << >>
      /\ Unsent = DOMAIN outgoingQueue
      /\ \A i : i \in Unsent' <=> i \in DOMAIN outgoingQueue /\ i > 1
      /\ \A i \in DOMAIN outgoingQueue : i = 1 \/ i > 1
      /\ ~broken /\ broken' = broken
      /\ wire' = Append(wire, content[b])
  BY <1>b, WriteFacts DEF WriteOk
<1>2. /\ p \in Senders /\ n \in Nat /\ content[b] = <<p, n>>
  BY <1>1, <1>b, <1>p, <1>n, WaitingFacts
<1>3. n = Sent(p) + 1
  BY <1>1, <1>b, <1>p, <1>n, FrontIsNext
<1>4. /\ Len(wire') = l + 1 /\ DOMAIN wire = 1 .. l /\ DOMAIN wire' = 1 .. l + 1
      /\ wire'[l + 1] = <<p, n>> /\ wire'[l + 1][1] = p
      /\ \A i \in 1 .. l : wire'[i] = wire[i]
  BY <1>1, <1>2, <1>l DEF QueueInv, TypeOK
<1>5. /\ \A u : Sent(u) \in Nat
      /\ \A u : Sent(u) = Among(wire, l, u)
      /\ \A u : Sent(u)' = Among(wire', l + 1, u)
  BY <1>4, <1>l, SentType DEF Sent, Among, QueueInv
<1>6. /\ Sent(p)' = n
      /\ \A u : u # p => Sent(u)' = Sent(u)
  <2>1. ASSUME NEW u PROVE (p = u => Sent(u)' = Sent(u) + 1) /\ (p # u => Sent(u)' = Sent(u))
    <3>1. l \in Nat
      BY <1>l
    <3>2. /\ wire'[l + 1][1] = u => Among(wire', l + 1, u) = Among(wire, l, u) + 1
          /\ wire'[l + 1][1] # u => Among(wire', l + 1, u) = Among(wire, l, u)
      BY <1>4, <3>1, CountStep
    <3> QED
      BY <1>4, <1>5, <3>2
  <2> QED
    BY <1>3, <2>1
<1>7. \A c : Who(c)' = Who(c) /\ Nth(c)' = Nth(c)
  BY <1>1 DEF Who, Nth
<1>8. InOrder' = InOrder
  BY <1>1 DEF InOrder, Before, Who, Nth
<1>9. Counted'
  <2>1. n <= count[p]
    BY <1>1, <1>b, <1>p, <1>n DEF WireInv, Counted
  <2>2. \A u \in Senders : Sent(u)' <= count[u]
    BY <1>6, <2>1 DEF WireInv, Counted
  <2> QED
    BY <1>1, <1>7, <2>2 DEF WireInv, Counted
<1>10. NotRepeated'
  <2>1. ASSUME NEW i \in DOMAIN outgoingQueue, i > 1, NEW u, u = Who(outgoingQueue[i])
        PROVE  Sent(u)' < Nth(outgoingQueue[i])
    <3>1. Before(b, outgoingQueue[i])
      BY <1>1, <1>b, <2>1 DEF WireInv, InOrder
    <3>2. Sent(u) < Nth(outgoingQueue[i])
      BY <1>1, <2>1 DEF WireInv, NotRepeated
    <3> QED
      BY <1>6, <1>p, <1>n, <2>1, <3>1, <3>2 DEF Before
  <2>2. ASSUME NEW i \in DOMAIN posted, NEW u, u = Who(posted[i])
        PROVE  Sent(u)' < Nth(posted[i])
    <3>1. Before(b, posted[i])
      BY <1>1, <1>b DEF WireInv, InOrder
    <3>2. Sent(u) < Nth(posted[i])
      BY <1>1, <2>2 DEF WireInv, NotRepeated
    <3> QED
      BY <1>6, <1>p, <1>n, <2>2, <3>1, <3>2 DEF Before
  <2> QED
    BY <1>1, <1>7, <2>1, <2>2 DEF NotRepeated
<1>11. NotLost'
  <2>1. SUFFICES ASSUME NEW u \in Senders, NEW k \in Nat, Sent(u)' < k, k <= count[u]
                 PROVE  OnItsWay(u, k)'
    BY <1>1 DEF NotLost
  <2>2. Sent(u) < k /\ ~(u = p /\ k = n)
    BY <1>2, <1>3, <1>5, <1>6, <2>1
  <2>3. OnItsWay(u, k)
    BY <1>1, <2>1, <2>2 DEF WireInv, NotLost
  <2>4. content[b] # <<u, k>>
    BY <1>2, <2>2
  <2> QED
    BY <1>1, <1>b, <2>3, <2>4 DEF OnItsWay
<1>12. WireInOrder'
  <2>1. ASSUME NEW i \in 1 .. l
        PROVE  \E s \in Senders :
                  wire'[i] = <<s, 1 + Cardinality({j \in 1 .. i - 1 : wire'[j][1] = s})>>
    <3>1. PICK s \in Senders :
             wire[i] = <<s, 1 + Cardinality({j \in 1 .. i - 1 : wire[j][1] = s})>>
      BY <1>4, <2>1 DEF WireInv, WireInOrder
    <3>2. {j \in 1 .. i - 1 : wire'[j][1] = s} = {j \in 1 .. i - 1 : wire[j][1] = s}
      BY <1>4, <2>1
    <3> QED
      BY <1>4, <2>1, <3>1, <3>2
  <2>2. {j \in 1 .. (l + 1) - 1 : wire'[j][1] = p} = {j \in 1 .. l : wire[j][1] = p}
    BY <1>4
  <2>3. wire'[l + 1] =
          <<p, 1 + Cardinality({j \in 1 .. (l + 1) - 1 : wire'[j][1] = p})>>
    BY <1>3, <1>4, <1>5, <2>2 DEF Among
  <2>4. \A i \in DOMAIN wire' : i \in 1 .. l \/ i = l + 1
    BY <1>4
  <2> QED
    BY <1>2, <2>1, <2>3, <2>4 DEF WireInOrder
<1> QED
  BY <1>8, <1>9, <1>10, <1>11, <1>12 DEF WireInv

\* The buffer cleared is the front, which the peer has.
LEMMA WireHandle == ASSUME QueueInv, WireInv, handle_sendData PROVE WireInv'
<1>b. PICK b : b = outgoingQueue[1]
  OBVIOUS
<1>1. /\ completed # << >> /\ outgoingQueue \in Seq(Bufs) /\ outgoingQueue # << >>
      /\ Head(completed).buf = b
      /\ outgoingQueue' = Tail(outgoingQueue)
      /\ UNCHANGED <<count, posted, wire, broken>>
  BY <1>b DEF handle_sendData, QueueInv, TypeOK, OneWrite
<1>2. completed' = << >>
  <2>1. /\ completed \in Seq([buf : Bufs, error : BOOLEAN]) /\ writing \in Seq(Bufs)
        /\ completed' = Tail(completed)
    BY DEF handle_sendData, QueueInv, TypeOK
  <2>2. Len(completed) \in Nat \ {0} /\ Len(writing) \in Nat
    BY <1>1, <2>1, EmptySeq, LenProperties
  <2>3. Len(completed) + Len(writing) <= 1
    BY <2>2 DEF QueueInv, OneWrite
  <2>4. Len(completed) = 1
    BY <2>2, <2>3, OneOfTwo, Zenon
  <2> QED
    BY <2>1, <2>4, TailOfOne
<1>3. /\ 1 \in DOMAIN outgoingQueue
      /\ \A i \in DOMAIN outgoingQueue' : /\ outgoingQueue'[i] = outgoingQueue[i + 1]
                                          /\ i + 1 \in DOMAIN outgoingQueue
                                          /\ 1 < i + 1 /\ i \in Nat
      /\ \A i \in DOMAIN outgoingQueue : i = 1 \/ i - 1 \in DOMAIN outgoingQueue'
      /\ \A i \in DOMAIN outgoingQueue : i \in Nat \ {0}
  BY <1>1
<1>4. /\ Unsent' = DOMAIN outgoingQueue'
      /\ \A i : i \in Unsent <=> i \in DOMAIN outgoingQueue /\ i > 1
  BY <1>1, <1>2 DEF Unsent
<1>5. content' = [content EXCEPT ![b] = Cleared]
  BY <1>1 DEF handle_sendData, Put, Released
<1>6. /\ \A i \in DOMAIN outgoingQueue : i > 1 => outgoingQueue[i] # b
      /\ \A i \in DOMAIN posted : posted[i] # b
  <2>1. IsInjective(outgoingQueue) /\ Apart(posted, outgoingQueue)
    BY DEF QueueInv, OneHolder
  <2> QED
    BY <1>3, <1>b, <2>1 DEF IsInjective, Apart, Range
<1>7. \A c : content'[c] = content[c] =>
         Who(c)' = Who(c) /\ Nth(c)' = Nth(c) /\ (\A d : content'[d] = content[d] =>
            Before(c, d)' = Before(c, d))
  BY DEF Before, Who, Nth
<1>8. /\ \A i \in DOMAIN outgoingQueue : i > 1 =>
            content'[outgoingQueue[i]] = content[outgoingQueue[i]]
      /\ \A i \in DOMAIN posted : content'[posted[i]] = content[posted[i]]
      /\ \A i \in DOMAIN outgoingQueue' :
            content'[outgoingQueue'[i]] = content[outgoingQueue'[i]]
  <2>1. \A c \in Bufs : c # b => content'[c] = content[c]
    BY <1>5 DEF QueueInv, TypeOK
  <2>2. \A i \in DOMAIN outgoingQueue : i > 1 =>
           content'[outgoingQueue[i]] = content[outgoingQueue[i]]
    BY <1>6, <2>1, WaitingFacts
  <2>3. \A i \in DOMAIN posted : content'[posted[i]] = content[posted[i]]
    BY <1>6, <2>1, WaitingFacts
  <2> QED
    BY <1>3, <2>2, <2>3
<1>9. \A u : Sent(u)' = Sent(u)
  BY <1>1 DEF Sent
<1>10. InOrder'
  <2>1. ASSUME NEW i \in DOMAIN outgoingQueue', NEW j \in DOMAIN outgoingQueue', i < j
        PROVE  Before(outgoingQueue'[i], outgoingQueue'[j])
    <3>1. i + 1 < j + 1
      BY <1>3, <2>1
    <3> QED
      BY <1>3, <3>1 DEF WireInv, InOrder
  <2>2. ASSUME NEW i \in DOMAIN outgoingQueue', NEW j \in DOMAIN posted
        PROVE  Before(outgoingQueue'[i], posted[j])
    BY <1>3 DEF WireInv, InOrder
  <2>3. \A c, d : content'[c] = content[c] /\ content'[d] = content[d] /\ Before(c, d)
                     => Before(c, d)'
    BY <1>7
  <2>4. \A i, j \in DOMAIN posted : i < j => Before(posted[i], posted[j])'
    BY <1>1, <1>8, <2>3 DEF WireInv, InOrder
  <2> QED
    BY <1>1, <1>8, <2>1, <2>2, <2>3 DEF WireInv, InOrder
<1>11. Counted'
  <2>1. \A i \in DOMAIN outgoingQueue' :
           Nth(outgoingQueue'[i]) <= count[Who(outgoingQueue'[i])]
    BY <1>3 DEF WireInv, Counted
  <2> QED
    BY <1>1, <1>7, <1>8, <1>9, <2>1 DEF WireInv, Counted
<1>12. ASSUME ~broken PROVE NotRepeated' /\ NotLost'
  <2>1. NotRepeated /\ NotLost
    BY <1>12 DEF WireInv
  <2>2. \A i \in DOMAIN outgoingQueue' : Sent(Who(outgoingQueue'[i])) < Nth(outgoingQueue'[i])
    BY <1>3, <1>4, <2>1 DEF NotRepeated
  <2>3. NotRepeated'
    BY <1>1, <1>4, <1>7, <1>8, <1>9, <2>1, <2>2 DEF NotRepeated
  <2>4. ASSUME NEW u \in Senders, NEW k \in Nat, Sent(u) < k, k <= count[u]
        PROVE  OnItsWay(u, k)'
    <3>1. OnItsWay(u, k)
      BY <2>1, <2>4 DEF NotLost
    <3>2. ASSUME NEW i \in Unsent, content[outgoingQueue[i]] = <<u, k>>
          PROVE  OnItsWay(u, k)'
      <4>1. i \in DOMAIN outgoingQueue /\ i > 1
        BY <1>4
      <4>2. i - 1 \in DOMAIN outgoingQueue' /\ outgoingQueue'[i - 1] = outgoingQueue[i]
        BY <1>3, <4>1
      <4> QED
        BY <1>4, <1>8, <3>2, <4>1, <4>2 DEF OnItsWay
    <3> QED
      BY <1>1, <1>8, <3>1, <3>2 DEF OnItsWay
  <2>5. NotLost'
    BY <1>1, <1>9, <2>4 DEF NotLost
  <2> QED
    BY <2>3, <2>5
<1>13. WireInOrder'
  BY <1>1 DEF WireInv, WireInOrder
<1> QED
  BY <1>1, <1>10, <1>11, <1>12, <1>13 DEF WireInv

LEMMA WireStep == QueueInv /\ WireInv /\ [Next]_vars => WireInv'
<1> SUFFICES ASSUME QueueInv, WireInv, [Next]_vars PROVE WireInv'
  OBVIOUS
<1>1. ASSUME NEW s \in Senders, Get(s) PROVE WireInv'
  BY <1>1, WireGet
<1>2. ASSUME NEW s \in Senders, Post(s) PROVE WireInv'
  BY <1>2, WirePost
<1>3. CASE sendDataImpl
  BY <1>3, WireSend
<1>4. CASE handle_sendData
  BY <1>4, WireHandle
<1>5. CASE WriteOk
  BY <1>5, WireOk
<1>6. CASE WriteError
  BY <1>6, WireError
<1>7. CASE UNCHANGED vars
  BY <1>7, WireKept DEF vars
<1> QED
  BY <1>1, <1>2, <1>3, <1>4, <1>5, <1>6, <1>7 DEF Next

\* The peer receives the frames of each sender whole, once each and in the order
\* of sendData() (connection.hpp lines 188-220), however the senders, the writes
\* and their completions interleave, and whenever the socket fails: no buffer is
\* cleared or filled again before its frame is on the wire.
THEOREM FramesArriveInOrder == Spec => []WireInOrder
<1>1. Spec => []WireInv
  BY WireInit, WireStep, QueueCorrect, PTL DEF Spec
<1>2. WireInv => WireInOrder
  BY DEF WireInv
<1> QED
  BY <1>1, <1>2, PTL
=============================================================================
