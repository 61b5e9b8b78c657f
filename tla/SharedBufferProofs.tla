------------------------- MODULE SharedBufferProofs -------------------------
(***************************************************************************)
(* For every number of readers, every ring size and every set of frames:   *)
(* the ring is well typed, and no wakeup is lost, whoever writes; and      *)
(* with one writer no slot is read while it is filled, no frame is seen    *)
(* half written, and the ring is a FIFO channel of frames.                 *)
(***************************************************************************)
EXTENDS SharedBuffer, SequenceTheorems, FiniteSetTheorems, TLAPS

-----------------------------------------------------------------------------
(* Ring arithmetic *)

\* The ring has a slot to spare, so slot 0 exists.
LEMMA RingSize == NSlots \in Nat /\ NSlots > 1 /\ 0 \in Slots
BY QueSizeAssumption DEF NSlots, Slots

\* (s + 1) % queSize stays inside the ring.
LEMMA SuccInRing == ASSUME NEW s \in Slots PROVE Succ(s) \in Slots
<1>1. s + 1 \in Int /\ NSlots \in Nat \ {0}
  BY RingSize DEF Slots
<1> QED
  BY <1>1 DEF Succ, Slots

-----------------------------------------------------------------------------
(* Types *)

\* Both indices stay inside the ring and every variable keeps its type
\* (push and pop, common_utils.hpp:137-168), for any number of writers.
LEMMA TypeInit == Init => TypeOK
BY RingSize DEF Init, TypeOK, Contents, Threads

LEMMA TypeStep == TypeOK /\ [Next]_vars => TypeOK'
<1> SUFFICES ASSUME TypeOK, [Next]_vars PROVE TypeOK'
  OBVIOUS
<1> USE DEF TypeOK, Goto, Contents, Threads
<1>1. ASSUME NEW w \in Writers, WriterCall(w) PROVE TypeOK'
  <2>1. CASE BeginFill(w)
    BY <2>1 DEF BeginFill
  <2>2. ASSUME NEW d \in Data \cup {Empty}, CallPushOwn(w, d) PROVE TypeOK'
    BY <2>2 DEF CallPushOwn
  <2> QED
    BY <1>1, <2>1, <2>2 DEF WriterCall
<1>2. ASSUME NEW w \in Writers, WriterStep(w) PROVE TypeOK'
  <2>1. ASSUME NEW d \in Data, EndFill(w, d) PROVE TypeOK'
    BY <2>1 DEF EndFill
  <2>2. CASE CallPush(w)
    BY <2>2 DEF CallPush
  <2>3. CASE PushWait(w)
    BY <2>3 DEF PushWait
  <2>4. CASE Push(w)
    <3>1. rear' \in Slots
      BY <2>4, SuccInRing DEF Push
    <3>2. queue' \in [Slots -> Contents] /\ own' \in [Threads -> Contents]
      BY <2>4 DEF Push, SwapRear
    <3> QED
      BY <2>4, <3>1, <3>2 DEF Push
  <2>5. CASE NotifyRd(w)
    BY <2>5 DEF NotifyRd, Notify, WaitingOn
  <2> QED
    BY <1>2, <2>1, <2>2, <2>3, <2>4, <2>5 DEF WriterStep
<1>3. ASSUME NEW r \in Readers, ReaderStep(r) PROVE TypeOK'
  <2>1. CASE CallPop(r)
    BY <2>1 DEF CallPop
  <2>2. CASE PopWait(r)
    BY <2>2 DEF PopWait
  <2>3. CASE Pop(r)
    <3>1. front' \in Slots
      BY <2>3, SuccInRing DEF Pop, IsEmpty
    <3> QED
      BY <2>3, <3>1 DEF Pop, IsEmpty
  <2>4. CASE NotifyWr(r)
    BY <2>4 DEF NotifyWr, Notify, WaitingOn
  <2> QED
    BY <1>3, <2>1, <2>2, <2>3, <2>4 DEF ReaderStep
<1>4. ASSUME NEW t \in Threads, SpuriousWakeup(t) PROVE TypeOK'
  BY <1>4 DEF SpuriousWakeup
<1>5. CASE UNCHANGED vars
  BY <1>5 DEF vars
<1> QED
  BY <1>1, <1>2, <1>3, <1>4, <1>5 DEF Next

\* Both indices stay inside the ring and every variable keeps its type
\* (push and pop, common_utils.hpp:137-168), for any number of writers.
THEOREM TypeCorrect == Spec => []TypeOK
BY TypeInit, TypeStep, PTL DEF Spec

-----------------------------------------------------------------------------
(* One writer *)

\* The constructor leaves every slot empty and no thread inside a call.
LEMMA FillInit == Init => FillInv
<1> SUFFICES ASSUME Init PROVE FillInv
  OBVIOUS
<1>1. TypeOK
  BY TypeInit
<1>2. Empty # Partial
  BY ContentsAssumption
<1> QED
  BY <1>1, <1>2 DEF FillInv, Init, Labels, InPlaceAtRear, PartialOnlyInFill, Threads

LEMMA FillStep == ASSUME SingleWriter PROVE FillInv /\ [Next]_vars => FillInv'
<1> SUFFICES ASSUME FillInv, [Next]_vars PROVE FillInv'
  OBVIOUS
<1>0. TypeOK /\ TypeOK'
  BY TypeStep DEF FillInv
<1>c. \A d \in Data \cup {Empty} : d # Partial
  BY ContentsAssumption
<1> USE DEF FillInv, Labels, InPlaceAtRear, PartialOnlyInFill, TypeOK, Goto, Threads
<1>1. ASSUME NEW w \in Writers, WriterCall(w) PROVE FillInv'
  <2>0. w \notin Readers /\ \A v \in Writers : v = w
    BY ThreadsAssumption DEF SingleWriter
  <2>1. CASE BeginFill(w)
    BY <1>0, <2>0, <2>1, OwnAssumption DEF BeginFill, Slots
  <2>2. ASSUME NEW d \in Data \cup {Empty}, CallPushOwn(w, d) PROVE FillInv'
    BY <1>0, <1>c, <2>0, <2>2 DEF CallPushOwn
  <2> QED
    BY <1>1, <2>1, <2>2 DEF WriterCall
<1>2. ASSUME NEW w \in Writers, WriterStep(w) PROVE FillInv'
  <2>0. w \notin Readers /\ \A v \in Writers : v = w
    BY ThreadsAssumption DEF SingleWriter
  <2>1. ASSUME NEW d \in Data, EndFill(w, d) PROVE FillInv'
    BY <1>0, <1>c, <2>0, <2>1 DEF EndFill
  <2>2. CASE CallPush(w)
    BY <1>0, <2>0, <2>2 DEF CallPush
  <2>3. CASE PushWait(w)
    BY <1>0, <2>0, <2>3 DEF PushWait
  <2>4. CASE Push(w)
    BY <1>0, <2>0, <2>4 DEF Push, SwapRear
  <2>5. CASE NotifyRd(w)
    BY <1>0, <2>0, <2>5 DEF NotifyRd, Notify, WaitingOn
  <2> QED
    BY <1>2, <2>1, <2>2, <2>3, <2>4, <2>5 DEF WriterStep
<1>3. ASSUME NEW r \in Readers, ReaderStep(r) PROVE FillInv'
  <2>0. r \notin Writers
    BY ThreadsAssumption
  <2>1. CASE CallPop(r)
    BY <1>0, <2>0, <2>1 DEF CallPop
  <2>2. CASE PopWait(r)
    BY <1>0, <2>0, <2>2 DEF PopWait
  <2>3. CASE Pop(r)
    BY <1>0, <2>0, <2>3 DEF Pop, IsEmpty
  <2>4. CASE NotifyWr(r)
    BY <1>0, <2>0, <2>4 DEF NotifyWr, Notify, WaitingOn
  <2> QED
    BY <1>3, <2>1, <2>2, <2>3, <2>4 DEF ReaderStep
<1>4. ASSUME NEW t \in Threads, SpuriousWakeup(t) PROVE FillInv'
  BY <1>0, <1>4, ThreadsAssumption DEF SpuriousWakeup
<1>5. CASE UNCHANGED vars
  BY <1>5, <1>0 DEF vars
<1> QED
  BY <1>1, <1>2, <1>3, <1>4, <1>5 DEF Next

\* A slot at rear is not between front and rear.
LEMMA FillInvSafe == FillInv => FillOutsideQueue /\ NoTornFrame
<1> SUFFICES ASSUME FillInv PROVE FillOutsideQueue /\ NoTornFrame
  OBVIOUS
<1>1. front \in Int /\ rear \in Int /\ rear \notin Occupied
  BY RingSize DEF FillInv, TypeOK, Slots, Occupied
<1>2. FillOutsideQueue
  BY <1>1 DEF FillInv, InPlaceAtRear, FillOutsideQueue
<1>3. NoTornFrame
  BY <1>1 DEF FillInv, InPlaceAtRear, PartialOnlyInFill, NoTornFrame, Occupied, Threads
<1> QED
  BY <1>2, <1>3

\* Under the comment of common_utils.hpp:133, "only for single writer", the
\* slot being filled without the lock is never one a reader may take.
THEOREM FillIsPrivate == ASSUME SingleWriter PROVE Spec => []FillOutsideQueue
BY FillInit, FillStep, FillInvSafe, PTL DEF Spec

\* Under the same contract no frame is published, or obtained by a reader,
\* half written, whatever the size of the ring and the number of readers.
THEOREM FramesAreWhole == ASSUME SingleWriter PROVE Spec => []NoTornFrame
BY FillInit, FillStep, FillInvSafe, PTL DEF Spec

-----------------------------------------------------------------------------
(* The ring as a sequence *)

\* The modulo of the code, case by case.
LEMMA ModFacts ==
    ASSUME NEW a \in Int
    PROVE  /\ a \in 0 .. NSlots - 1 => a % NSlots = a
           /\ a \in NSlots .. 2 * NSlots - 1 => a % NSlots = a - NSlots
           /\ a \in -NSlots .. -1 => a % NSlots = a + NSlots
BY RingSize

\* The contents of a ring q from slot f up to, not including, slot r.
Dist(f, r)    == (r - f) % NSlots
At(f, i)      == (f + i - 1) % NSlots
Ring(q, f, r) == [i \in 1 .. Dist(f, r) |-> q[At(f, i)]]

LEMMA DistFacts ==
    ASSUME NEW f \in Slots, NEW r \in Slots
    PROVE  /\ Dist(f, r) \in 0 .. QueSize
           /\ Dist(f, r) = 0 <=> f = r
           /\ Dist(f, r) = QueSize <=> Succ(r) = f
           /\ Dist(f, r) # QueSize => Dist(f, Succ(r)) = Dist(f, r) + 1
           /\ Dist(f, r) # 0 => Dist(Succ(f), r) = Dist(f, r) - 1
<1>1. /\ Dist(f, r) = IF f <= r THEN r - f ELSE r - f + NSlots
      /\ Succ(r) = IF r = QueSize THEN 0 ELSE r + 1
      /\ Succ(f) = IF f = QueSize THEN 0 ELSE f + 1
  BY ModFacts, QueSizeAssumption DEF Dist, Succ, Slots, NSlots
<1>2. Succ(r) \in Slots /\ Succ(f) \in Slots
  BY SuccInRing
<1>3. /\ Dist(f, Succ(r)) = IF f <= Succ(r) THEN Succ(r) - f ELSE Succ(r) - f + NSlots
      /\ Dist(Succ(f), r) = IF Succ(f) <= r THEN r - Succ(f) ELSE r - Succ(f) + NSlots
  BY <1>2, ModFacts, QueSizeAssumption DEF Dist, Slots, NSlots
<1> QED
  BY <1>1, <1>3, QueSizeAssumption DEF Slots, NSlots

LEMMA AtFacts ==
    ASSUME NEW f \in Slots, NEW r \in Slots
    PROVE  /\ \A i \in 1 .. Dist(f, r) : At(f, i) \in Slots /\ At(f, i) # r
           /\ Dist(f, r) # QueSize => At(f, Dist(f, r) + 1) = r
           /\ Dist(f, r) # 0 => At(f, 1) = f
           /\ \A i \in 1 .. Dist(f, r) - 1 : At(f, i + 1) = At(Succ(f), i)
           /\ Dist(f, r) # 0 => \A i \in 1 .. Dist(f, r) - 1 : At(Succ(f), i) # f
<1>1. /\ Dist(f, r) = IF f <= r THEN r - f ELSE r - f + NSlots
      /\ Succ(f) = IF f = QueSize THEN 0 ELSE f + 1
  BY ModFacts, QueSizeAssumption DEF Dist, Succ, Slots, NSlots
<1>2. \A i \in 1 .. QueSize + 1 : At(f, i) = IF f + i - 1 < NSlots THEN f + i - 1 ELSE f + i - 1 - NSlots
  BY ModFacts, QueSizeAssumption DEF At, Slots, NSlots
<1>3. Succ(f) \in Slots
  BY SuccInRing
<1>4. \A i \in 1 .. QueSize : At(Succ(f), i) =
          IF Succ(f) + i - 1 < NSlots THEN Succ(f) + i - 1 ELSE Succ(f) + i - 1 - NSlots
  BY <1>3, ModFacts, QueSizeAssumption DEF At, Slots, NSlots
<1>5. Dist(f, r) \in 0 .. QueSize
  BY DistFacts
<1> QED
  BY <1>1, <1>2, <1>4, <1>5, QueSizeAssumption DEF Slots, NSlots

LEMMA RingIsSeq ==
    ASSUME NEW f \in Slots, NEW r \in Slots, NEW q \in [Slots -> Contents]
    PROVE  /\ Ring(q, f, r) \in Seq(Contents)
           /\ Len(Ring(q, f, r)) = Dist(f, r)
           /\ \A i \in 1 .. Dist(f, r) : Ring(q, f, r)[i] = q[At(f, i)]
<1>1. Dist(f, r) \in Nat
  BY DistFacts, QueSizeAssumption
<1>2. \A i \in 1 .. Dist(f, r) : q[At(f, i)] \in Contents
  BY AtFacts
<1> QED
  BY <1>1, <1>2 DEF Ring

\* What is written to the slot at rear is not seen.
LEMMA RingUnseen ==
    ASSUME NEW f \in Slots, NEW r \in Slots, NEW q \in [Slots -> Contents], NEW d \in Contents
    PROVE  Ring([q EXCEPT ![r] = d], f, r) = Ring(q, f, r)
<1>1. \A i \in 1 .. Dist(f, r) : At(f, i) \in Slots /\ At(f, i) # r
  BY AtFacts
<1>2. \A i \in 1 .. Dist(f, r) : [q EXCEPT ![r] = d][At(f, i)] = q[At(f, i)]
  BY <1>1
<1> QED
  BY <1>2 DEF Ring

\* push: written to the slot at rear, and rear moved on.
LEMMA RingAppend ==
    ASSUME NEW f \in Slots, NEW r \in Slots, NEW q \in [Slots -> Contents], NEW d \in Contents,
           Succ(r) # f
    PROVE  Ring([q EXCEPT ![r] = d], f, Succ(r)) = Append(Ring(q, f, r), d)
<1> DEFINE p == [q EXCEPT ![r] = d]  n == Dist(f, r)
           old == Ring(q, f, r)  new == Ring(p, f, Succ(r))
<1>1. /\ p \in [Slots -> Contents] /\ Succ(r) \in Slots
      /\ n \in Nat /\ n # QueSize /\ Dist(f, Succ(r)) = n + 1
  BY SuccInRing, DistFacts, QueSizeAssumption
<1>2. old \in Seq(Contents) /\ Len(old) = n
  BY RingIsSeq, Zenon
<1>3. new \in Seq(Contents) /\ Len(new) = n + 1
  BY <1>1, RingIsSeq
<1>4. Append(old, d) \in Seq(Contents) /\ Len(Append(old, d)) = n + 1
  BY <1>2, AppendProperties
<1>a. \A i \in 1 .. n + 1 : new[i] = p[At(f, i)]
  <2>1. \A i \in 1 .. Dist(f, Succ(r)) : Ring(p, f, Succ(r))[i] = p[At(f, i)]
    <3> HIDE DEF p
    <3> QED
      BY <1>1, RingIsSeq, Zenon
  <2> QED
    BY <1>1, <2>1, Zenon
<1>5. ASSUME NEW i \in 1 .. n + 1 PROVE new[i] = Append(old, d)[i]
  <2>1. new[i] = p[At(f, i)]
    BY <1>a
  <2>2. CASE i = n + 1
    BY <1>1, <1>2, <2>1, <2>2, AtFacts, AppendProperties
  <2>3. CASE i # n + 1
    <3>1. i \in 1 .. n
      BY <2>3, <1>1
    <3>2. Append(old, d)[i] = old[i]
      BY <3>1, <1>2, AppendProperties
    <3>3. old[i] = q[At(f, i)] /\ At(f, i) # r /\ At(f, i) \in Slots
      BY <3>1, RingIsSeq, AtFacts
    <3> QED
      BY <2>1, <3>2, <3>3
  <2> QED
    BY <2>2, <2>3
<1> QED
  BY <1>3, <1>4, <1>5, SeqEqual

\* pop: something else is written to the slot at front, and front moved on.
LEMMA RingTail ==
    ASSUME NEW f \in Slots, NEW r \in Slots, NEW q \in [Slots -> Contents], NEW d \in Contents,
           f # r
    PROVE  /\ Ring(q, f, r) # << >>
           /\ Head(Ring(q, f, r)) = q[f]
           /\ Ring([q EXCEPT ![f] = d], Succ(f), r) = Tail(Ring(q, f, r))
<1> DEFINE p == [q EXCEPT ![f] = d]  n == Dist(f, r)
           old == Ring(q, f, r)  new == Ring(p, Succ(f), r)
<1>1. /\ p \in [Slots -> Contents] /\ Succ(f) \in Slots
      /\ n \in Nat /\ n > 0 /\ Dist(Succ(f), r) = n - 1
  BY SuccInRing, DistFacts, QueSizeAssumption
<1>2. old \in Seq(Contents) /\ Len(old) = n /\ old # << >>
  BY <1>1, RingIsSeq, EmptySeq
<1>b. \A i \in 1 .. n : old[i] = q[At(f, i)]
  BY RingIsSeq
<1>3. Head(old) = q[f]
  <2> HIDE DEF old
  <2>1. Head(old) = old[1]
    BY <1>2
  <2>2. old[1] = q[At(f, 1)] /\ At(f, 1) = f
    BY <1>1, <1>b, AtFacts
  <2> QED
    BY <2>1, <2>2
<1>4. new \in Seq(Contents) /\ Len(new) = n - 1
  BY <1>1, RingIsSeq
<1>5. Tail(old) \in Seq(Contents) /\ Len(Tail(old)) = n - 1
  BY <1>2, HeadTailProperties
<1>a. \A i \in 1 .. n - 1 : new[i] = p[At(Succ(f), i)]
  <2>1. \A i \in 1 .. Dist(Succ(f), r) : Ring(p, Succ(f), r)[i] = p[At(Succ(f), i)]
    <3> HIDE DEF p
    <3> QED
      BY <1>1, RingIsSeq, Zenon
  <2> QED
    BY <1>1, <2>1, Zenon
<1>6. ASSUME NEW i \in 1 .. n - 1 PROVE new[i] = Tail(old)[i]
  <2>1. new[i] = p[At(Succ(f), i)]
    BY <1>a
  <2>2. Tail(old)[i] = old[i + 1] /\ i + 1 \in 1 .. n
    BY <1>1, <1>2, <1>5, HeadTailProperties
  <2>3. old[i + 1] = q[At(f, i + 1)] /\ At(f, i + 1) = At(Succ(f), i)
    BY <1>1, <1>b, <2>2, AtFacts
  <2>4. At(Succ(f), i) \in Slots /\ At(Succ(f), i) # f
    BY <1>1, AtFacts
  <2> QED
    BY <2>1, <2>2, <2>3, <2>4
<1> QED
  BY <1>2, <1>3, <1>4, <1>5, <1>6, SeqEqual

-----------------------------------------------------------------------------
(* The ring implements a channel *)

LEMMA ChannelInit == Init => Channel!Init
<1> SUFFICES ASSUME Init PROVE Channel!Init
  OBVIOUS
<1>1. front \in Slots /\ rear \in Slots /\ front = rear
  BY RingSize DEF Init
<1>2. Count = 0
  BY <1>1, DistFacts DEF Count, Dist
<1>3. Published = << >>
  BY <1>2 DEF Published
<1>4. [r \in Readers |-> own[r]] = [r \in Readers |-> Empty]
  BY DEF Init, Threads
<1> QED
  BY <1>3, <1>4 DEF Channel!Init

\* Every step of the ring is a step of the channel, or none.
LEMMA ChannelStep ==
    ASSUME SingleWriter, FillInv, [Next]_vars
    PROVE  [Channel!Next]_<<Published, [r \in Readers |-> own[r]]>>
<1> DEFINE got == [r \in Readers |-> own[r]]
           Same == Published' = Published /\ got' = got
<1>0. /\ TypeOK /\ TypeOK' /\ Published = Ring(queue, front, rear)
      /\ Published' = Ring(queue', front', rear')
  BY TypeStep DEF FillInv, Published, Ring, Dist, At, Count
<1>a. /\ front \in Slots /\ rear \in Slots /\ queue \in [Slots -> Contents]
      /\ own \in [Threads -> Contents]
  BY <1>0 DEF TypeOK
<1>1. ASSUME NEW w \in Writers, WriterCall(w) PROVE Same
  <2>1. CASE BeginFill(w)
    BY <1>0, <1>a, <2>1, RingUnseen DEF BeginFill, Contents
  <2>2. ASSUME NEW d \in Data \cup {Empty}, CallPushOwn(w, d) PROVE Same
    BY <1>0, <2>2, ThreadsAssumption DEF CallPushOwn, TypeOK, Threads
  <2> QED
    BY <1>1, <2>1, <2>2 DEF WriterCall
<1>2. ASSUME NEW w \in Writers, WriterStep(w) PROVE Same \/ Channel!Next
  <2>1. ASSUME NEW d \in Data, EndFill(w, d) PROVE Same
    <3>1. ref[w] = rear
      BY <2>1 DEF EndFill, Goto, FillInv, InPlaceAtRear
    <3>2. queue' = [queue EXCEPT ![rear] = d] /\ UNCHANGED <<front, rear, own>>
      BY <2>1, <3>1 DEF EndFill
    <3>3. Ring([queue EXCEPT ![rear] = d], front, rear) = Ring(queue, front, rear)
      BY <1>a, RingUnseen DEF Contents
    <3> QED
      BY <1>0, <3>2, <3>3
  <2>2. CASE CallPush(w) \/ PushWait(w) \/ NotifyRd(w)
    <3>1. queue' = queue /\ front' = front /\ rear' = rear /\ own' = own
      BY <2>2 DEF CallPush, PushWait, NotifyRd, Notify
    <3> QED
      BY <1>0, <3>1
  <2>3. CASE Push(w)
    <3>1. \E d \in Data \cup {Empty} : queue' = [queue EXCEPT ![rear] = d]
      <4>1. CASE ref[w] = Own
        <5>1. own[w] \in Data \cup {Empty} /\ queue' = [queue EXCEPT ![rear] = own[w]]
          BY <1>a, <2>3, <4>1 DEF Push, SwapRear, FillInv, PartialOnlyInFill, Contents, Threads
        <5> QED
          BY <5>1
      <4>2. CASE ref[w] # Own
        <5>1. ref[w] = rear /\ queue' = [queue EXCEPT ![rear] = queue[rear]]
          BY <1>a, <2>3, <4>2 DEF Push, SwapRear, Goto, FillInv, InPlaceAtRear
        <5>2. queue[rear] # Partial
          BY <1>a, <2>3 DEF Push, Goto, FillInv, PartialOnlyInFill, SingleWriter
        <5>3. queue[rear] \in Data \cup {Empty}
          BY <1>a, <5>2 DEF Contents
        <5> QED
          BY <5>1, <5>3
      <4> QED
        BY <4>1, <4>2
    <3>2. PICK d \in Data \cup {Empty} : queue' = [queue EXCEPT ![rear] = d]
      BY <3>1
    <3>3. Published' = Append(Published, d)
      <4>1. Succ(rear) # front /\ front' = front /\ rear' = Succ(rear) /\ d \in Contents
        BY <2>3 DEF Push, IsFull, Contents
      <4>2. Ring([queue EXCEPT ![rear] = d], front, Succ(rear)) = Append(Ring(queue, front, rear), d)
        BY <1>a, <4>1, RingAppend, Zenon
      <4> QED
        BY <1>0, <3>2, <4>1, <4>2, Zenon
    <3>4. Len(Published) < QueSize
      <4>1. Dist(front, rear) \in 0 .. QueSize /\ Dist(front, rear) # QueSize
        BY <1>a, <2>3, DistFacts DEF Push, IsFull
      <4>2. Len(Published) = Dist(front, rear)
        BY <1>0, <1>a, RingIsSeq
      <4> QED
        BY <4>1, <4>2, QueSizeAssumption
    <3>5. got' = got
      BY <1>a, <2>3, ThreadsAssumption DEF Push, SwapRear, Threads
    <3> QED
      BY <3>3, <3>4, <3>5 DEF Channel!Next, Channel!Send
  <2> QED
    BY <1>2, <2>1, <2>2, <2>3 DEF WriterStep
<1>3. ASSUME NEW r \in Readers, ReaderStep(r) PROVE Same \/ Channel!Next
  <2>1. CASE CallPop(r) \/ PopWait(r) \/ NotifyWr(r)
    BY <1>0, <2>1 DEF CallPop, PopWait, NotifyWr, Notify
  <2>2. CASE Pop(r)
    <3>1. /\ front # rear /\ own[r] \in Contents
          /\ queue' = [queue EXCEPT ![front] = own[r]]
          /\ front' = Succ(front) /\ rear' = rear
      BY <1>a, <2>2 DEF Pop, IsEmpty, Threads
    <3>2. Published # << >> /\ Head(Published) = queue[front] /\ Published' = Tail(Published)
      BY <1>0, <1>a, <3>1, RingTail
    <3>3. got' = [got EXCEPT ![r] = Head(Published)]
      BY <1>a, <2>2, <3>2 DEF Pop, Threads
    <3> QED
      BY <3>2, <3>3 DEF Channel!Next, Channel!Receive
  <2> QED
    BY <1>3, <2>1, <2>2 DEF ReaderStep
<1>4. ASSUME NEW t \in Threads, SpuriousWakeup(t) PROVE Same
  BY <1>0, <1>4 DEF SpuriousWakeup
<1>5. CASE UNCHANGED vars
  BY <1>0, <1>5 DEF vars
<1> QED
  BY <1>1, <1>2, <1>3, <1>4, <1>5 DEF Next

\* Under "only for single writer" (common_utils.hpp:133) the ring is, for every
\* size, what its users take it for: a FIFO channel of whole frames.
THEOREM RingIsChannel == ASSUME SingleWriter PROVE Spec => ImplementsChannel
<1>1. FillInv /\ [Next]_vars => [Channel!Next]_<<Published, [r \in Readers |-> own[r]]>>
  BY ChannelStep
<1> QED
  BY <1>1, ChannelInit, FillInit, FillStep, PTL DEF Spec, ImplementsChannel, Channel!Spec

-----------------------------------------------------------------------------
(* Wakeups *)

\* How many threads are at a label of p, and what a move of one changes.
Many(p, l) == Cardinality({t \in Threads : p[t] = l})

LEMMA ManyType == \A p, l : Many(p, l) \in Nat
<1>1. \A p, l : IsFiniteSet({t \in Threads : p[t] = l})
  BY FiniteAssumption, FS_Subset DEF Threads
<1> QED
  BY <1>1, FS_CardinalityType DEF Many

Moved(p, q, t, a, b) ==
    /\ t \in Threads /\ p[t] = a /\ a # b
    /\ \A u \in Threads : q[u] = IF u = t THEN b ELSE p[u]

LEMMA Move ==
    ASSUME NEW p, NEW q, NEW t, NEW a, NEW b, Moved(p, q, t, a, b)
    PROVE  /\ Many(q, b) = Many(p, b) + 1
           /\ Many(q, a) = Many(p, a) - 1
           /\ \A l : l \notin {b, a} => Many(q, l) = Many(p, l)
<1> USE DEF Moved
<1> DEFINE S(f, l) == {u \in Threads : f[u] = l}
<1>1. \A f, l : IsFiniteSet(S(f, l))
  BY FiniteAssumption, FS_Subset DEF Threads
<1>2. S(q, b) = S(p, b) \cup {t} /\ t \notin S(p, b)
  OBVIOUS
<1>3. S(q, a) = S(p, a) \ {t} /\ t \in S(p, a)
  OBVIOUS
<1>4. \A l : l \notin {b, a} => S(q, l) = S(p, l)
  OBVIOUS
<1>5. Cardinality(S(q, b)) = Cardinality(S(p, b)) + 1
  <2> HIDE DEF S
  <2> QED
    BY <1>1, <1>2, FS_AddElement
<1>6. Cardinality(S(q, a)) = Cardinality(S(p, a)) - 1
  <2> HIDE DEF S
  <2> QED
    BY <1>1, <1>3, FS_RemoveElement
<1> QED
  BY <1>4, <1>5, <1>6 DEF Many

\* The labels are not mixed up, and no wakeup is lost.
WakeInv == TypeOK /\ Labels /\ NoLostWakeup

PcLabels == {"idle", "fill", "filled", "push", "waitWr", "notifyRd", "pop", "waitRd", "notifyWr"}

\* NoLostWakeup of threads at the labels p, with n frames in the ring.
RdServed(p, n) ==
    (\E t \in Threads : p[t] = "waitRd") => n <= Many(p, "pop") + Many(p, "notifyRd")
WrServed(p, n) ==
    (\E t \in Threads : p[t] = "waitWr") => QueSize - n <= Many(p, "push") + Many(p, "notifyWr")

LEMMA WakeIsServed ==
    /\ NoLostWakeup <=> RdServed(pc, Count) /\ WrServed(pc, Count)
    /\ NoLostWakeup' <=> RdServed(pc', Count') /\ WrServed(pc', Count')
BY DEF NoLostWakeup, WaitingOn, ThreadsAt, RdServed, WrServed, Many

LEMMA CountFacts ==
    ASSUME TypeOK
    PROVE  Count \in 0 .. QueSize /\ (IsEmpty <=> Count = 0) /\ (IsFull <=> Count = QueSize)
BY DistFacts DEF TypeOK, Count, Dist, IsEmpty, IsFull

\* What is served before thread t moves from label a to label b is served after.
LEMMA MoveServed ==
    ASSUME NEW p, NEW q, NEW t, NEW a, NEW b, Moved(p, q, t, a, b),
           NEW n \in 0 .. QueSize, RdServed(p, n), WrServed(p, n)
    PROVE  /\ a \notin {"pop", "notifyRd"} /\ b # "waitRd" => RdServed(q, n)
           /\ a = "pop" /\ b = "waitRd" /\ n = 0 => RdServed(q, n)
           /\ a = "pop" /\ b # "waitRd" /\ n > 0 => RdServed(q, n - 1)
           /\ a \notin {"pop", "notifyRd"} /\ b = "notifyRd" => RdServed(q, n + 1)
           /\ a \notin {"push", "notifyWr"} /\ b # "waitWr" => WrServed(q, n)
           /\ a = "push" /\ b = "waitWr" /\ n = QueSize => WrServed(q, n)
           /\ a = "push" /\ b # "waitWr" /\ n < QueSize => WrServed(q, n + 1)
           /\ a \notin {"push", "notifyWr"} /\ b = "notifyWr" /\ n > 0 => WrServed(q, n - 1)
<1>1. Many(q, b) = Many(p, b) + 1 /\ Many(q, a) = Many(p, a) - 1
  BY Move
<1>2. \A l : l \notin {b, a} => Many(q, l) = Many(p, l)
  BY Move
<1>3. \A l : Many(p, l) \in Nat /\ Many(q, l) \in Nat
  BY ManyType
<1>4. \A l : b # l /\ (\E u \in Threads : q[u] = l) => \E u \in Threads : p[u] = l
  BY DEF Moved
<1>5. a # b
  BY DEF Moved
<1>6. \A l : Many(q, l) = IF l = b THEN Many(p, l) + 1 ELSE IF l = a THEN Many(p, l) - 1 ELSE Many(p, l)
  BY <1>1, <1>2, <1>5
<1>7. \A l \in {"pop", "notifyRd", "push", "notifyWr"} : Many(p, l) \in Nat /\ Many(q, l) \in Nat
  BY <1>3
<1>8. /\ a \notin {"pop", "notifyRd"} /\ b # "waitRd" => RdServed(q, n)
      /\ a = "pop" /\ b = "waitRd" /\ n = 0 => RdServed(q, n)
      /\ a = "pop" /\ b # "waitRd" /\ n > 0 => RdServed(q, n - 1)
      /\ a \notin {"pop", "notifyRd"} /\ b = "notifyRd" => RdServed(q, n + 1)
  <2>1. \A k : RdServed(q, k) <=>
           ((\E u \in Threads : q[u] = "waitRd") => k <= Many(q, "pop") + Many(q, "notifyRd"))
    BY DEF RdServed
  <2>2. b # "waitRd" /\ (\E u \in Threads : q[u] = "waitRd") =>
           n <= Many(p, "pop") + Many(p, "notifyRd")
    BY <1>4 DEF RdServed
  <2>3. CASE a \notin {"pop", "notifyRd"} 
    BY <2>1, <2>2, <2>3, <1>6, <1>7
  <2>4. CASE a = "pop"
    BY <2>1, <2>2, <2>4, <1>5, <1>6, <1>7
  <2>5. CASE a = "notifyRd"
    BY <2>5
  <2> QED
    BY <2>3, <2>4, <2>5
<1>9. /\ a \notin {"push", "notifyWr"} /\ b # "waitWr" => WrServed(q, n)
      /\ a = "push" /\ b = "waitWr" /\ n = QueSize => WrServed(q, n)
      /\ a = "push" /\ b # "waitWr" /\ n < QueSize => WrServed(q, n + 1)
      /\ a \notin {"push", "notifyWr"} /\ b = "notifyWr" /\ n > 0 => WrServed(q, n - 1)
  <2>1. \A k : WrServed(q, k) <=>
           ((\E u \in Threads : q[u] = "waitWr") => QueSize - k <= Many(q, "push") + Many(q, "notifyWr"))
    BY DEF WrServed
  <2>2. b # "waitWr" /\ (\E u \in Threads : q[u] = "waitWr") =>
           QueSize - n <= Many(p, "push") + Many(p, "notifyWr")
    BY <1>4 DEF WrServed
  <2>3. CASE a \notin {"push", "notifyWr"}
    BY <2>1, <2>2, <2>3, <1>6, <1>7, QueSizeAssumption
  <2>4. CASE a = "push"
    BY <2>1, <2>2, <2>4, <1>5, <1>6, <1>7, QueSizeAssumption
  <2>5. CASE a = "notifyWr"
    BY <2>5
  <2> QED
    BY <2>3, <2>4, <2>5
<1> QED
  BY <1>8, <1>9

LEMMA WakeInit == Init => WakeInv
<1> SUFFICES ASSUME Init PROVE Labels /\ NoLostWakeup
  BY TypeInit DEF WakeInv
<1>1. \A t \in Threads : pc[t] = "idle"
  BY DEF Init
<1> QED
  BY <1>1, ThreadsAssumption DEF Labels, NoLostWakeup, WaitingOn, Threads

LEMMA LabelsStep == TypeOK /\ Labels /\ [Next]_vars => Labels'
<1> SUFFICES ASSUME TypeOK, Labels, [Next]_vars PROVE Labels'
  OBVIOUS
<1> USE ThreadsAssumption DEF TypeOK, Labels, Goto, Threads
<1>1. ASSUME NEW w \in Writers, WriterCall(w) PROVE Labels'
  BY <1>1 DEF WriterCall, BeginFill, CallPushOwn
<1>2. ASSUME NEW w \in Writers, WriterStep(w) PROVE Labels'
  BY <1>2 DEF WriterStep, EndFill, CallPush, PushWait, Push, NotifyRd, Notify, WaitingOn
<1>3. ASSUME NEW r \in Readers, ReaderStep(r) PROVE Labels'
  BY <1>3 DEF ReaderStep, CallPop, PopWait, Pop, NotifyWr, Notify, WaitingOn
<1>4. ASSUME NEW t \in Threads, SpuriousWakeup(t) PROVE Labels'
  BY <1>4 DEF SpuriousWakeup
<1>5. CASE UNCHANGED vars
  BY <1>5 DEF vars
<1> QED
  BY <1>1, <1>2, <1>3, <1>4, <1>5 DEF Next

\* A notification keeps both: the waiter it wakes is counted where the
\* notifier was counted before.
LEMMA NotifyServed ==
    ASSUME TypeOK, NoLostWakeup, NEW t \in Threads,
           \/ Notify(t, "notifyRd", "waitRd", "pop")
           \/ Notify(t, "notifyWr", "waitWr", "push")
    PROVE  NoLostWakeup'
<1>0. RdServed(pc, Count) /\ WrServed(pc, Count) /\ Count' = Count /\ Count \in 0 .. QueSize
  BY WakeIsServed, CountFacts DEF Notify, Count
<1>1. PICK a, cv, b : /\ \/ a = "notifyRd" /\ cv = "waitRd" /\ b = "pop"
                         \/ a = "notifyWr" /\ cv = "waitWr" /\ b = "push"
                      /\ Notify(t, a, cv, b)
  OBVIOUS
<1>2. CASE WaitingOn(cv) = {}
  <2>1. Moved(pc, pc', t, a, "idle")
    BY <1>1, <1>2 DEF Notify, Moved, TypeOK
  <2>2. a = "notifyRd" => WrServed(pc', Count)
    BY <1>0, <2>1, MoveServed
  <2>3. a = "notifyWr" => RdServed(pc', Count)
    BY <1>0, <2>1, MoveServed
  <2>4. ~ \E u \in Threads : pc'[u] = cv
    BY <1>1, <1>2, <2>1 DEF WaitingOn, Moved
  <2> QED
    BY <1>0, <1>1, <2>2, <2>3, <2>4, WakeIsServed DEF RdServed, WrServed
<1>3. ASSUME NEW u \in WaitingOn(cv), pc' = [pc EXCEPT ![t] = "idle", ![u] = b]
      PROVE  NoLostWakeup'
  <2> DEFINE m == [pc EXCEPT ![u] = b]
  <2>1. Moved(pc, m, u, cv, b) /\ Moved(m, pc', t, a, "idle")
    BY <1>1, <1>3 DEF Notify, Moved, TypeOK, WaitingOn
  <2> HIDE DEF m
  <2>2. /\ Many(pc', a) = Many(pc, a) - 1 /\ Many(pc', b) = Many(pc, b) + 1
        /\ \A l : l \notin {a, b, cv, "idle"} => Many(pc', l) = Many(pc, l)
    <3>1. /\ Many(m, b) = Many(pc, b) + 1
          /\ \A l : l \notin {b, cv} => Many(m, l) = Many(pc, l)
      BY <2>1, Move
    <3>2. /\ Many(pc', a) = Many(m, a) - 1
          /\ \A l : l \notin {"idle", a} => Many(pc', l) = Many(m, l)
      BY <2>1, Move
    <3> QED
      BY <1>1, <3>1, <3>2
  <2>3. \A l : (\E v \in Threads : pc'[v] = l) /\ l \notin {"idle", b} => \E v \in Threads : pc[v] = l
    BY <2>1 DEF Moved
  <2>4. \A l : Many(pc, l) \in Nat
    BY ManyType
  <2>5. \E v \in Threads : pc[v] = cv
    BY DEF WaitingOn
  <2>6. CASE a = "notifyRd"
    <3>1. /\ Many(pc', "pop") + Many(pc', "notifyRd") = Many(pc, "pop") + Many(pc, "notifyRd")
          /\ Many(pc', "push") + Many(pc', "notifyWr") = Many(pc, "push") + Many(pc, "notifyWr")
      BY <1>1, <2>2, <2>4, <2>6
    <3>2. (\E v \in Threads : pc'[v] = "waitWr") => \E v \in Threads : pc[v] = "waitWr"
      BY <1>1, <2>3, <2>6
    <3> QED
      <4>1. RdServed(pc', Count) /\ WrServed(pc', Count)
        BY <1>0, <1>1, <2>5, <2>6, <3>1, <3>2 DEF RdServed, WrServed
      <4> QED
        BY <1>0, <4>1, WakeIsServed
  <2>7. CASE a = "notifyWr"
    <3>1. /\ Many(pc', "pop") + Many(pc', "notifyRd") = Many(pc, "pop") + Many(pc, "notifyRd")
          /\ Many(pc', "push") + Many(pc', "notifyWr") = Many(pc, "push") + Many(pc, "notifyWr")
      BY <1>1, <2>2, <2>4, <2>7
    <3>2. (\E v \in Threads : pc'[v] = "waitRd") => \E v \in Threads : pc[v] = "waitRd"
      BY <1>1, <2>3, <2>7
    <3> QED
      <4>1. RdServed(pc', Count) /\ WrServed(pc', Count)
        BY <1>0, <1>1, <2>5, <2>7, <3>1, <3>2 DEF RdServed, WrServed
      <4> QED
        BY <1>0, <4>1, WakeIsServed
  <2> QED
    BY <1>1, <2>6, <2>7
<1> QED
  BY <1>1, <1>2, <1>3 DEF Notify

LEMMA WakeStep == WakeInv /\ [Next]_vars => WakeInv'
<1> SUFFICES ASSUME WakeInv, [Next]_vars PROVE NoLostWakeup'
  BY TypeStep, LabelsStep DEF WakeInv
<1>a. TypeOK /\ Labels /\ NoLostWakeup
  BY DEF WakeInv
<1>0. /\ RdServed(pc, Count) /\ WrServed(pc, Count) /\ Count \in 0 .. QueSize
      /\ RdServed(pc', Count') /\ WrServed(pc', Count') => NoLostWakeup'
      /\ IsEmpty => Count = 0
      /\ ~IsEmpty => Count > 0
      /\ IsFull => Count = QueSize
      /\ ~IsFull => Count < QueSize
  BY <1>a, WakeIsServed, CountFacts, QueSizeAssumption
<1>m. ASSUME NEW t \in Threads, NEW b, Goto(t, pc[t], b), b # pc[t] PROVE Moved(pc, pc', t, pc[t], b)
  BY <1>a, <1>m DEF Goto, Moved, TypeOK
<1>1. ASSUME NEW w \in Writers, WriterCall(w) PROVE NoLostWakeup'
  <2>1. Count' = Count
    BY <1>1 DEF WriterCall, BeginFill, CallPushOwn, Count
  <2>2. \E b \in {"fill", "push"} : pc[w] = "idle" /\ Goto(w, pc[w], b)
    BY <1>1 DEF WriterCall, BeginFill, CallPushOwn, Goto
  <2>3. \E b \in {"fill", "push"} : Moved(pc, pc', w, "idle", b)
    BY <1>m, <2>2 DEF Threads
  <2> QED
    BY <1>0, <2>1, <2>3, MoveServed
<1>2. ASSUME NEW w \in Writers, WriterStep(w) PROVE NoLostWakeup'
  <2>1. ASSUME NEW d \in Data, EndFill(w, d) PROVE NoLostWakeup'
    <3>1. Count' = Count /\ Moved(pc, pc', w, "fill", "filled")
      BY <1>m, <2>1 DEF EndFill, Count, Goto, Threads
    <3> QED
      BY <1>0, <3>1, MoveServed
  <2>2. CASE CallPush(w)
    <3>1. Count' = Count /\ Moved(pc, pc', w, "filled", "push")
      BY <1>m, <2>2 DEF CallPush, Count, Goto, Threads
    <3> QED
      BY <1>0, <3>1, MoveServed
  <2>3. CASE PushWait(w)
    <3>1. Count' = Count /\ IsFull /\ Moved(pc, pc', w, "push", "waitWr")
      BY <1>m, <2>3 DEF PushWait, Count, Goto, Threads
    <3> QED
      BY <1>0, <3>1, MoveServed
  <2>4. CASE Push(w)
    <3>1. ~IsFull /\ Moved(pc, pc', w, "push", "notifyRd")
      BY <1>m, <2>4 DEF Push, Goto, Threads
    <3>2. Count' = Count + 1
      BY <1>a, <2>4, DistFacts DEF Push, Count, Dist, IsFull, TypeOK
    <3> QED
      BY <1>0, <3>1, <3>2, MoveServed
  <2>5. CASE NotifyRd(w)
    BY <1>a, <2>5, NotifyServed DEF NotifyRd, Threads
  <2> QED
    BY <1>2, <2>1, <2>2, <2>3, <2>4, <2>5 DEF WriterStep
<1>3. ASSUME NEW r \in Readers, ReaderStep(r) PROVE NoLostWakeup'
  <2>1. CASE CallPop(r)
    <3>1. Count' = Count /\ Moved(pc, pc', r, "idle", "pop")
      BY <1>m, <2>1 DEF CallPop, Count, Goto, Threads
    <3> QED
      BY <1>0, <3>1, MoveServed
  <2>2. CASE PopWait(r)
    <3>1. Count' = Count /\ IsEmpty /\ Moved(pc, pc', r, "pop", "waitRd")
      BY <1>m, <2>2 DEF PopWait, Count, Goto, Threads
    <3> QED
      BY <1>0, <3>1, MoveServed
  <2>3. CASE Pop(r)
    <3>1. ~IsEmpty /\ Moved(pc, pc', r, "pop", "notifyWr")
      BY <1>m, <2>3 DEF Pop, Goto, Threads
    <3>2. Count' = Count - 1
      BY <1>a, <2>3, DistFacts DEF Pop, Count, Dist, IsEmpty, TypeOK
    <3> QED
      BY <1>0, <3>1, <3>2, MoveServed
  <2>4. CASE NotifyWr(r)
    BY <1>a, <2>4, NotifyServed DEF NotifyWr, Threads
  <2> QED
    BY <1>3, <2>1, <2>2, <2>3, <2>4 DEF ReaderStep
<1>4. ASSUME NEW t \in Threads, SpuriousWakeup(t) PROVE NoLostWakeup'
  <2>1. Count' = Count /\ (Moved(pc, pc', t, "waitRd", "pop") \/ Moved(pc, pc', t, "waitWr", "push"))
    BY <1>m, <1>4 DEF SpuriousWakeup, Count, Goto
  <2> QED
    BY <1>0, <2>1, MoveServed
<1>5. CASE UNCHANGED vars
  BY <1>0, <1>5 DEF vars, Count
<1> QED
  BY <1>1, <1>2, <1>3, <1>4, <1>5 DEF Next

\* With any number of writers and readers, a thread asleep on a condition
\* variable while it could go on always has a thread on its way to take the
\* frame (the place), or one about to notify: push and pop may notify after
\* they unlocked (common_utils.hpp:148-149, 166-167).
THEOREM WakeupsAreKept == Spec => []NoLostWakeup
<1>1. WakeInv => NoLostWakeup
  BY DEF WakeInv
<1> QED
  BY <1>1, WakeInit, WakeStep, PTL DEF Spec

=============================================================================
