--------------------------- MODULE BoundedChannel ---------------------------
(***************************************************************************)
(* What a SharedBuffer promises its users: a FIFO channel that holds at    *)
(* most Capacity complete frames.  A sender hands over a whole frame, a    *)
(* receiver obtains the oldest one.                                        *)
(***************************************************************************)
EXTENDS Naturals, Sequences

CONSTANTS Capacity,     \* the most frames the channel holds
          Receivers,    \* the threads that receive
          Frames,       \* the complete frames that may be sent
          NoFrame       \* what a receiver holds before its first frame

VARIABLES chan,         \* the frames sent and not yet received, oldest first
          got           \* got[r]: the frame receiver r obtained last

Init == /\ chan = << >>
        /\ got = [r \in Receivers |-> NoFrame]

Send(f) == /\ Len(chan) < Capacity
           /\ chan' = Append(chan, f)
           /\ UNCHANGED got

Receive(r) == /\ chan # << >>
              /\ got' = [got EXCEPT ![r] = Head(chan)]
              /\ chan' = Tail(chan)

Next == \/ \E f \in Frames : Send(f)
        \/ \E r \in Receivers : Receive(r)

Spec == Init /\ [][Next]_<<chan, got>>
=============================================================================
