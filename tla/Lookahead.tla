----------------------------- MODULE Lookahead -----------------------------
(***************************************************************************)
(* The lookahead of the encoder (encoder/slicetype.cpp).  The API thread   *)
(* puts pictures into the input queue; whoever finds that queue full, a    *)
(* worker of the pool or the API thread itself, decides the type of the    *)
(* oldest ones and moves them, in encode order, to the output queue.       *)
(*                                                                         *)
(* What the API thread does with the two queues is in FramePipeline.       *)
(***************************************************************************)
EXTENDS Integers, Sequences, FiniteSets, FiniteSetsExt, SequencesExt, Functions

CONSTANTS MaxPics,      \* bound: pictures of the stream, and frames allocated
          Params,       \* records of --bframes, B pictures in a row at most, and
                        \* --rc-lookahead: the command lines that are looked at
          KeyInt,       \* distance of key frames (--keyint), without scene cuts
          Api,          \* the thread that calls x265_encoder_encode()
          Helpers       \* workers of the pool that offer the lookahead a hand

ASSUME PicsAssumption == MaxPics \in Nat \ {0}
\* param.cpp, "Lookahead depth must be greater than the max consecutive bframe count"
ASSUME ParamsAssumption ==
    /\ Params \subseteq [bframes : Nat, lookahead : Nat]
    /\ \A p \in Params : p.bframes > 0 => p.bframes < p.lookahead
ASSUME KeyAssumption == KeyInt \in Nat \ {0}
ASSUME ApiAssumption == Api \notin Helpers

Frames   == 1 .. MaxPics
Deciders == Helpers \cup {Api}

VARIABLES
    param,               \* m_param, one of Params; it does not change
    poc,                 \* m_poc of each Frame
    input, output,       \* m_inputQueue; m_outputQueue with the decided types
    full, filled,        \* m_fullQueueSize, m_filled
    busy, active,        \* m_sliceTypeBusy, m_isActive
    lastKey,             \* m_lastKeyframe
    required, signal,    \* m_outputSignalRequired, the counter of m_outputSignal
    dec, gop             \* each decider: its step, and the pictures it holds

BFrames == param.bframes
Depth   == param.lookahead

queues    == <<input, output>>
signals   == <<required, signal>>
deciding  == <<dec, gop>>
lookahead == <<poc, queues, full, filled, busy, active, lastKey, signals, deciding>>

LookaheadInit ==
    /\ param \in Params
    /\ poc = [f \in Frames |-> -1]
    /\ input = <<>> /\ output = <<>>
    /\ full = Max({1, Depth}) /\ filled = FALSE
    /\ busy = FALSE /\ active = TRUE
    /\ lastKey = -KeyInt
    /\ required = FALSE /\ signal = 0
    /\ dec = [t \in Deciders |-> "idle"] /\ gop = [t \in Deciders |-> <<>>]

Step(t, label) == dec' = [dec EXCEPT ![t] = label]

\* addPicture(): enough pictures that one may be withdrawn
FillsUp(p) == (BFrames = 0 /\ Depth = 0) \/ p >= Depth + 2 + BFrames

MayDecide == Len(input) >= full /\ ~busy /\ active

\* findJob(), up to the call of slicetypeDecide()
BeginDecide(t) ==
    /\ dec[t] = "idle" /\ MayDecide
    /\ busy' = TRUE
    /\ Step(t, "analyse")
    /\ UNCHANGED <<poc, queues, full, filled, active, lastKey, signals, gop>>

\* The pictures of a mini-GOP: b B pictures and the one that ends it, which is
\* encoded first.  A key frame ends it ("I", the open GOP of a clean random
\* access picture, but for the first).
IsKey(f) == poc[f] - lastKey >= KeyInt
\* mutant: in the order in which they are displayed
DisplayOrder(b) ==
    [i \in 1 .. b + 1 |->
        <<input[i], IF i <= b THEN "B" ELSE IF IsKey(input[i]) THEN "I" ELSE "P">>]
EncodeOrder(b) ==
    <<<<input[b + 1], IF IsKey(input[b + 1]) THEN "I" ELSE "P">>>>
    \o [i \in 1 .. b |-> <<input[i], "B">>]

\* what stays in the input queue; mutant: the last of them as well
RestOne(b) == SubSeq(input, b + 1, Len(input))
Rest(b)    == SubSeq(input, b + 2, Len(input))

\* slicetypeDecide(), up to the end of its second section under m_inputLock
Choose(t) ==
    /\ dec[t] = "analyse"
    /\ \E b \in 0 .. Min({BFrames, Len(input) - 1}) :
          /\ \A i \in 1 .. b : ~IsKey(input[i])
          /\ gop' = [gop EXCEPT ![t] = EncodeOrder(b)]
          /\ input' = Rest(b)
          /\ lastKey' = IF IsKey(input[b + 1]) THEN poc[input[b + 1]] ELSE lastKey
    /\ Step(t, "decided")
    /\ UNCHANGED <<poc, output, full, filled, busy, active, signals>>

OutputFree == \A t \in Deciders : dec[t] # "push"

LockOutput(t) ==
    /\ dec[t] = "decided" /\ OutputFree
    /\ Step(t, "push")
    /\ UNCHANGED <<poc, queues, full, filled, busy, active, lastKey, signals, gop>>

PushOutput(t) ==
    /\ dec[t] = "push"
    /\ output' = output \o gop[t]
    /\ gop' = [gop EXCEPT ![t] = <<>>]
    /\ Step(t, "end")
    /\ UNCHANGED <<poc, input, full, filled, busy, active, lastKey, signals>>

\* mutant: whoever waits is not told
NoTrigger == 0
Trigger   == IF required THEN 1 ELSE 0

\* the end of findJob()
EndDecide(t) ==
    /\ dec[t] = "end"
    /\ signal' = signal + Trigger
    /\ required' = FALSE
    /\ busy' = FALSE
    /\ Step(t, "idle")
    /\ UNCHANGED <<poc, queues, full, filled, active, lastKey, gop>>

GoOnDeciding(t) == Choose(t) \/ LockOutput(t) \/ PushOutput(t) \/ EndDecide(t)

LookaheadTypeOK ==
    /\ param \in Params
    /\ poc \in [Frames -> -1 .. MaxPics - 1]
    /\ \A i \in DOMAIN input : input[i] \in Frames
    /\ \A i \in DOMAIN output : output[i] \in Frames \X {"I", "P", "B"}
    /\ full \in {1, Max({1, Depth})} /\ {filled, busy, active, required} \subseteq BOOLEAN
    /\ lastKey \in -KeyInt .. MaxPics /\ signal \in {0, 1}
    /\ dec \in [Deciders -> {"idle", "analyse", "decided", "push", "end"}]
    /\ \A t \in Deciders : \A i \in DOMAIN gop[t] : gop[t][i] \in Frames \X {"I", "P", "B"}
=============================================================================
