---------------------------- MODULE SharedBuffer ----------------------------
(***************************************************************************)
(* The ring of YUV frames between the capture threads and the encoder      *)
(* (class SharedBuffer, common/network/common_utils.hpp).                  *)
(*                                                                         *)
(* A writer fills the slot writeBuf() returns, queue[rear], IN PLACE and   *)
(* without the lock, and publishes it with push(); or it hands over a      *)
(* buffer of its own with push(arr).  A reader exchanges its own buffer    *)
(* with the oldest frame in pop(arr).  push and pop run under one mutex    *)
(* and block on condWr / condRd; both notify after they unlocked.          *)
(*                                                                         *)
(* The critical sections exclude one another, so each is one action; what  *)
(* happens outside them (the fill, the second call of writeBuf(), the      *)
(* notification) is a step of its own.                                     *)
(***************************************************************************)
EXTENDS Integers, Sequences, FiniteSets

CONSTANTS Writers,      \* threads that push
          Readers,      \* threads that pop
          QueSize,      \* the constructor's _QueSize: the frames it may hold
          Data,         \* the contents of a completely written frame
          Empty,        \* the contents of an empty BytesArray
          Partial,      \* the contents of a frame being written
          Own           \* "the argument of push is the caller's own buffer"

ASSUME QueSizeAssumption == QueSize \in Nat \ {0}
ASSUME ThreadsAssumption == Writers \cap Readers = {}
ASSUME FiniteAssumption == IsFiniteSet(Writers \cup Readers)
ASSUME ContentsAssumption == Empty \notin Data /\ Partial \notin Data \cup {Empty}
ASSUME OwnAssumption == Own \notin Int

\* common_utils.hpp:133 "NOTE!!! only for single writer"
SingleWriter == \A v, w \in Writers : v = w

Threads  == Writers \cup Readers
NSlots   == QueSize + 1
Slots    == 0 .. NSlots - 1
Contents == Data \cup {Empty, Partial}

VARIABLES queue,        \* queue[s]: the contents of slot s
          front, rear,  \* next slot to pop, next slot to push
          own,          \* own[t]: the contents of the BytesArray thread t brought
          ref,          \* ref[w]: the slot writer w holds a reference to, or Own
          pc            \* where each thread is

vars == <<queue, front, rear, own, ref, pc>>

SuccNoWrap(s) == s + 1            \* mutant: the modulo forgotten
Succ(s)  == (s + 1) % NSlots
NeverFull == FALSE                \* mutant: push does not test _full()
IsFull   == Succ(rear) = front
IsEmpty  == front = rear

Init == /\ queue = [s \in Slots |-> Empty]
        /\ front = 0
        /\ rear = 0
        /\ own = [t \in Threads |-> Empty]
        /\ ref = [w \in Writers |-> Own]
        /\ pc = [t \in Threads |-> "idle"]

Goto(t, here, there) == /\ pc[t] = here
                        /\ pc' = [pc EXCEPT ![t] = there]

-----------------------------------------------------------------------------
(* Writers *)

\* mutant: writeBuf() returns the slot after rear
BeginFillAhead(w) == /\ Goto(w, "idle", "fill")
                     /\ ref' = [ref EXCEPT ![w] = Succ(rear)]
                     /\ queue' = [queue EXCEPT ![Succ(rear)] = Partial]
                     /\ UNCHANGED <<front, rear, own>>

\* writeBuf() and the first write through the reference it returns
BeginFill(w) == /\ Goto(w, "idle", "fill")
                /\ ref' = [ref EXCEPT ![w] = rear]
                /\ queue' = [queue EXCEPT ![rear] = Partial]
                /\ UNCHANGED <<front, rear, own>>

\* the last write through the reference
EndFill(w, d) == /\ Goto(w, "fill", "filled")
                 /\ queue' = [queue EXCEPT ![ref[w]] = d]
                 /\ UNCHANGED <<front, rear, own, ref>>

\* push() == push(writeBuf()): the reference is taken a second time
CallPush(w) == /\ Goto(w, "filled", "push")
               /\ ref' = [ref EXCEPT ![w] = rear]
               /\ UNCHANGED <<queue, front, rear, own>>

\* push(arr), arr a complete buffer of the caller's
CallPushOwn(w, d) == /\ Goto(w, "idle", "push")
                     /\ ref' = [ref EXCEPT ![w] = Own]
                     /\ own' = [own EXCEPT ![w] = d]
                     /\ UNCHANGED <<queue, front, rear>>

\* while (_full()) condWr.wait(lk)
PushWait(w) == /\ IsFull
               /\ Goto(w, "push", "waitWr")
               /\ UNCHANGED <<queue, front, rear, own, ref>>

\* queue[rear].swap(arr): exchanges two buffers, or nothing if they are one
SwapRear(w) == 
    \/ /\ ref[w] = Own
       /\ queue' = [queue EXCEPT ![rear] = own[w]]
       /\ own' = [own EXCEPT ![w] = queue[rear]]
    \/ /\ ref[w] # Own
       /\ queue' = [queue EXCEPT ![rear] = queue[ref[w]], ![ref[w]] = queue[rear]]
       /\ UNCHANGED own

\* mutant: push returns without condRd.notify_one()
PushSilent(w) == /\ ~IsFull
                 /\ Goto(w, "push", "idle")
                 /\ SwapRear(w)
                 /\ rear' = Succ(rear)
                 /\ UNCHANGED <<front, ref>>

Push(w) == /\ ~IsFull
           /\ Goto(w, "push", "notifyRd")
           /\ SwapRear(w)
           /\ rear' = Succ(rear)
           /\ UNCHANGED <<front, ref>>

-----------------------------------------------------------------------------
(* Readers *)

CallPop(r) == /\ Goto(r, "idle", "pop")
              /\ UNCHANGED <<queue, front, rear, own, ref>>

\* while (_empty()) condRd.wait(lk)
PopWait(r) == /\ IsEmpty
              /\ Goto(r, "pop", "waitRd")
              /\ UNCHANGED <<queue, front, rear, own, ref>>

Pop(r) == /\ ~IsEmpty
          /\ Goto(r, "pop", "notifyWr")
          /\ queue' = [queue EXCEPT ![front] = own[r]]
          /\ own' = [own EXCEPT ![r] = queue[front]]
          /\ front' = Succ(front)
          /\ UNCHANGED <<rear, ref>>

-----------------------------------------------------------------------------
(* Condition variables *)

WaitingOn(cv) == {t \in Threads : pc[t] = cv}

\* notify_one: wakes one waiter, if there is one; t returns to its caller
Notify(t, here, cv, retry) ==
    /\ pc[t] = here
    /\ \/ /\ WaitingOn(cv) = {}
          /\ pc' = [pc EXCEPT ![t] = "idle"]
       \/ \E u \in WaitingOn(cv) :
             pc' = [pc EXCEPT ![t] = "idle", ![u] = retry]
    /\ UNCHANGED <<queue, front, rear, own, ref>>

\* mutant: the two condition variables confused
NotifyWrWrong(r) == Notify(r, "notifyWr", "waitRd", "pop")

NotifyRd(w) == Notify(w, "notifyRd", "waitRd", "pop")
NotifyWr(r) == Notify(r, "notifyWr", "waitWr", "push")

\* std::condition_variable::wait may return without a notification
SpuriousWakeup(t) == /\ \/ Goto(t, "waitRd", "pop")
                        \/ Goto(t, "waitWr", "push")
                     /\ UNCHANGED <<queue, front, rear, own, ref>>

-----------------------------------------------------------------------------
WriterStep(w) == \/ \E d \in Data : EndFill(w, d)
                 \/ CallPush(w)
                 \/ PushWait(w)
                 \/ Push(w)
                 \/ NotifyRd(w)

WriterCall(w) == \/ BeginFill(w)
                 \/ \E d \in Data \cup {Empty} : CallPushOwn(w, d)

ReaderStep(r) == CallPop(r) \/ PopWait(r) \/ Pop(r) \/ NotifyWr(r)

Next == \/ \E w \in Writers : WriterCall(w) \/ WriterStep(w)
        \/ \E r \in Readers : ReaderStep(r)
        \/ \E t \in Threads : SpuriousWakeup(t)

Spec == Init /\ [][Next]_vars

\* The encoder loop (x265.cpp:579) calls readPicture again and again, and the
\* operating system runs every thread; nobody obliges a writer to call push.
Fairness == /\ \A w \in Writers : WF_vars(WriterStep(w))
            /\ \A r \in Readers : WF_vars(ReaderStep(r))

FairSpec == Spec /\ Fairness

-----------------------------------------------------------------------------
(* Properties *)

\* Every variable has its type; the indices stay inside the ring.
TypeOK == /\ queue \in [Slots -> Contents]
          /\ front \in Slots
          /\ rear \in Slots
          /\ own \in [Threads -> Contents]
          /\ ref \in [Writers -> Slots \cup {Own}]
          /\ pc \in [Threads -> {"idle", "fill", "filled", "push", "waitWr", "notifyRd",
                                 "pop", "waitRd", "notifyWr"}]

\* The slots that hold published frames: from front up to, not including, rear.
Occupied == {s \in Slots : \/ front <= s /\ s < rear
                           \/ rear < front /\ (front <= s \/ s < rear)}

\* The slot a writer is filling without the lock is never one a reader may
\* take, even when the ring is full: the ring has one slot more than it holds
\* frames (queSize(_QueSize + 1), common_utils.hpp:104).
FillOutsideQueue ==
    \A w \in Writers : pc[w] = "fill" => ref[w] \notin Occupied

\* No frame is published, or obtained by a reader, half written.
NoTornFrame == /\ \A s \in Occupied : queue[s] # Partial
               /\ \A r \in Readers : own[r] # Partial

\* Why the two hold with one writer: a writer that fills in place still holds
\* the slot at rear when it publishes it, since only the writer moves rear, and
\* nothing but that slot is ever half written.
InPlaceAtRear ==
    \A w \in Writers : 
       /\ pc[w] \in {"fill", "filled"} => ref[w] # Own
       /\ pc[w] \in {"fill", "filled", "push", "waitWr"} /\ ref[w] # Own => ref[w] = rear
PartialOnlyInFill ==
    /\ \A s \in Slots : queue[s] = Partial =>
          \E w \in Writers : pc[w] = "fill" /\ ref[w] = s
    /\ \A t \in Threads : own[t] # Partial
Labels ==
    /\ \A w \in Writers : pc[w] \notin {"pop", "waitRd", "notifyWr"}
    /\ \A r \in Readers : pc[r] \in {"idle", "pop", "waitRd", "notifyWr"}
FillInv == TypeOK /\ Labels /\ InPlaceAtRear /\ PartialOnlyInFill

\* Wakeups are not lost: while a reader sleeps on condRd, every published frame
\* has a reader on its way to take it or a writer about to notify; likewise
\* for writers asleep on condWr and free places (push and pop notify only
\* after they released the lock, common_utils.hpp:148-149 and 166-167).
Count == (rear - front) % NSlots
ThreadsAt(label) == Cardinality({t \in Threads : pc[t] = label})
NoLostWakeup ==
    /\ WaitingOn("waitRd") # {} =>
          Count <= ThreadsAt("pop") + ThreadsAt("notifyRd")
    /\ WaitingOn("waitWr") # {} =>
          QueSize - Count <= ThreadsAt("push") + ThreadsAt("notifyWr")

\* A writer that called push always gets its frame in, and a reader that
\* called pop returns once there is a frame.
PushReturns == \A w \in Writers : pc[w] = "push" ~> pc[w] = "idle"
PopServed   == Count > 0 ~> \E r \in Readers : pc[r] = "notifyWr"
CallsReturn == PushReturns /\ PopServed

\* The ring implements a FIFO channel of QueSize complete frames.
Published == [i \in 1 .. Count |-> queue[(front + i - 1) % NSlots]]

Channel == INSTANCE BoundedChannel WITH
              Capacity  <- QueSize,
              Receivers <- Readers,
              Frames    <- Data \cup {Empty},
              NoFrame   <- Empty,
              chan      <- Published,
              got       <- [r \in Readers |-> own[r]]

ImplementsChannel == Channel!Spec
=============================================================================
