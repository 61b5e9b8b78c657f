--------------------------- MODULE FramePipeline ---------------------------
(***************************************************************************)
(* The encoder as x265_main() drives it (x265.cpp, encoder/encoder.cpp,    *)
(* api.cpp, frameencoder.cpp, dpb.cpp, ratecontrol.cpp).                   *)
(*                                                                         *)
(*   the API thread       each call of encode() adds a picture to the      *)
(*                        lookahead (or flushes it), waits for one frame   *)
(*                        encoder to be done, and gives it a picture       *)
(*   the frame encoders   encode the rows of a picture, each as soon as    *)
(*                        its references have reconstructed enough rows,   *)
(*                        and wait for each other in the rate control      *)
(*                                                                         *)
(* The frame encoders reference pictures that others are encoding: a       *)
(* Frame returns to the free list when it is no reference any more and     *)
(* m_countRefEncoders is 0.                                                *)
(*                                                                         *)
(* As the client's command line has it: constant rate factor without VBV,  *)
(* no B pyramid, open GOPs, and no reconstructed picture asked for.        *)
(***************************************************************************)
EXTENDS Lookahead

CONSTANTS NumThreads,   \* --frame-threads
          MaxRef,       \* --ref
          NumRows,      \* CTU rows of a picture
          RefLag        \* reference rows a row needs below its own

ASSUME ThreadsAssumption == NumThreads \in Nat \ {0} /\ MaxRef \in Nat \ {0}
ASSUME RowsAssumption == NumRows \in Nat \ {0} /\ RefLag \in Nat
\* one thread and no lookahead: m_bZeroLatency, another order of the calls
ASSUME LatencyAssumption == NumThreads > 1 \/ \A p \in Params : p.lookahead > 0

FEs == 0 .. NumThreads - 1

VARIABLES
    api, cur, inHand, ret,      \* API thread: step, m_curEncoder, frameEnc, result
    eof, delayed,               \* pic_in is NULL, m_numDelayedPic
    encoded, final,             \* m_encodedFrameNum, m_finalFrameCount
    order, terminated,          \* m_startEndOrder, m_bTerminated
    created, freeList, picList, \* Frames allocated; the lists of the DPB
    hasRef, count, recon,       \* of a Frame: m_bHasReferences,
                                \* m_countRefEncoders, m_reconRowCount
    cra, pending,               \* m_pocCRA, m_bRefreshPending
    fe, frame, kind, number,    \* frame encoder: step, m_frame, type, encodeOrder
    refs, row, seen,            \* references (with their poc), next row, orderValue
    enable, done,               \* counters of m_enable and m_done
    threadActive,
    crashed                     \* two threads were in the output queue at once

caller  == <<api, cur, inHand, ret, eof, delayed>>
rate    == <<order, final, terminated>>
lists   == <<created, freeList, picList>>
marks   == <<hasRef, cra, pending>>
buffer  == <<lists, marks, count, recon>>
picture == <<frame, kind, number, refs>>
events  == <<enable, done, threadActive>>
pipe    == <<caller, encoded, rate, buffer, fe, picture, row, seen, events, crashed>>
vars    == <<param, lookahead, pipe>>

PipeInit ==
    /\ api = "call" /\ cur = 0 /\ inHand = <<>> /\ ret = 0 /\ eof = FALSE /\ delayed = 0
    /\ encoded = 0 /\ final = 0 /\ order = 0 /\ terminated = FALSE
    /\ created = 0 /\ freeList = <<>> /\ picList = <<>>
    /\ hasRef = [f \in Frames |-> FALSE]
    /\ count = [f \in Frames |-> 0] /\ recon = [f \in Frames |-> 0]
    /\ cra = 0 /\ pending = FALSE
    /\ fe = [e \in FEs |-> "idle"]
    /\ frame = [e \in FEs |-> 0] /\ kind = [e \in FEs |-> "I"]
    /\ number = [e \in FEs |-> 0] /\ refs = [e \in FEs |-> {}]
    /\ row = [e \in FEs |-> 0] /\ seen = [e \in FEs |-> 0]
    /\ enable = [e \in FEs |-> 0] /\ done = [e \in FEs |-> 0]
    /\ threadActive = [e \in FEs |-> TRUE]
    /\ crashed = FALSE

Init == LookaheadInit /\ PipeInit

-----------------------------------------------------------------------------
(* Encoder::encode(): the API thread *)

NextPoc == Max(Range(poc)) + 1

\* a picture: into a free Frame or a new one, and to the lookahead
AddPicture ==
    /\ api = "call" /\ ~eof /\ NextPoc < MaxPics
    /\ LET new == freeList = <<>>
           f   == IF new THEN created + 1 ELSE Last(freeList)
       IN /\ created' = IF new THEN created + 1 ELSE created
          /\ freeList' = IF new THEN <<>> ELSE Front(freeList)
          /\ poc' = [poc EXCEPT ![f] = NextPoc]
          /\ count' = [count EXCEPT ![f] = @ + 1]
          /\ input' = Append(input, f)
    /\ filled' = (filled \/ FillsUp(NextPoc))
    /\ delayed' = delayed + 1 /\ ret' = 0
    /\ api' = "get"
    /\ UNCHANGED <<output, full, busy, active, lastKey, signals, deciding>>
    /\ UNCHANGED <<cur, inHand, eof, encoded, rate, picList, marks, recon, fe, picture, row,
                   seen, events, crashed>>

\* no picture: the lookahead is flushed
Flush ==
    /\ api = "call"
    /\ eof' = TRUE /\ ret' = 0
    /\ full' = 1 /\ filled' = TRUE
    /\ api' = "get"
    /\ UNCHANGED <<poc, queues, busy, active, lastKey, signals, deciding>>
    /\ UNCHANGED <<cur, inHand, delayed, encoded, rate, buffer, fe, picture, row, seen, events,
                   crashed>>

\* recycleUnreferenced(), with the reference counts c;
\* mutant: the counts are not looked at
Unmarked(f, c) == ~hasRef[f]
Unused(f, c)   == ~hasRef[f] /\ c[f] = 0
\* the elements of s that are in S, in their order
Select(s, S) ==
    LET sel[n \in 0 .. Len(s)] ==
            IF n = 0 THEN <<>>
            ELSE IF s[n] \in S THEN Append(sel[n - 1], s[n]) ELSE sel[n - 1]
    IN sel[Len(s)]
\* rows of a Frame after that
RowsLeft(f, c) == IF Contains(picList, f) /\ Unused(f, c) THEN 0 ELSE recon[f]
Recycle(c) ==
    /\ picList' = Select(picList, {f \in Frames : ~Unused(f, c)})
    /\ freeList' = freeList \o Select(picList, {f \in Frames : Unused(f, c)})
    /\ recon' = [f \in Frames |-> RowsLeft(f, c)]

\* getEncodedPicture(), and the end of the picture it returns
GetEncoded ==
    /\ api = "get"
    /\ \/ /\ frame[cur] = 0
          /\ UNCHANGED <<picList, freeList, recon, count, frame, done, delayed, ret>>
       \/ /\ frame[cur] # 0 /\ done[cur] > 0
          /\ done' = [done EXCEPT ![cur] = @ - 1]
          /\ frame' = [frame EXCEPT ![cur] = 0]
          /\ count' = [count EXCEPT ![frame[cur]] = @ - 1]
          /\ Recycle(count')
          /\ delayed' = delayed - 1 /\ ret' = 1
    /\ api' = "decide"
    /\ UNCHANGED <<lookahead, cur, inHand, eof, encoded, rate, created, marks, fe, kind, number,
                   refs, row, seen, enable, threadActive, crashed>>

\* getDecidedPicture()
TakeDecided ==
    /\ api = "decide"
    /\ \/ /\ ~filled
          /\ api' = "start"
          /\ UNCHANGED <<output, inHand>>
       \/ /\ filled /\ OutputFree /\ output # <<>>
          /\ inHand' = Head(output) /\ output' = Tail(output)
          /\ api' = "start"
       \/ /\ filled /\ OutputFree /\ output = <<>>
          /\ api' = "find"
          /\ UNCHANGED <<output, inHand>>
    /\ UNCHANGED <<poc, input, full, filled, busy, active, lastKey, signals, deciding>>
    /\ UNCHANGED <<cur, ret, eof, delayed, encoded, rate, buffer, fe, picture, row, seen, events,
                   crashed>>

\* its findJob(-1): the decision is made here, unless another makes one
FindJob ==
    /\ \/ api = "find" /\ BeginDecide(Api) /\ api' = "deciding"
       \/ api = "find" /\ ~MayDecide /\ api' = "mark" /\ UNCHANGED lookahead
       \/ api = "deciding" /\ dec[Api] = "idle" /\ api' = "mark" /\ UNCHANGED lookahead
    /\ UNCHANGED <<cur, inHand, ret, eof, delayed, encoded, rate, buffer, fe, picture, row, seen,
                   events, crashed>>

\* wait for the one that is deciding; also at the end, in stopJobs()
AwaitOutput ==
    /\ \/ /\ api = "mark"
          /\ required' = busy
          /\ api' = IF busy THEN "wait" ELSE "pop"
          /\ UNCHANGED signal
       \/ /\ api \in {"wait", "waitStop"} /\ signal > 0
          /\ signal' = signal - 1
          /\ api' = IF api = "wait" THEN "pop" ELSE "stopFE"
          /\ UNCHANGED required
    /\ UNCHANGED <<poc, queues, full, filled, busy, active, lastKey, deciding>>
    /\ UNCHANGED <<cur, inHand, ret, eof, delayed, encoded, rate, buffer, fe, picture, row, seen,
                   events, crashed>>

\* popFront() without the lock: while another decision is being put out the
\* list may be corrupted, and nothing is said of what follows
PopUnlocked ==
    /\ api = "pop"
    /\ crashed' \in (IF OutputFree THEN {FALSE} ELSE BOOLEAN)
    /\ inHand' = IF output = <<>> THEN <<>> ELSE Head(output)
    /\ output' = IF output = <<>> THEN <<>> ELSE Tail(output)
    /\ api' = "start"
    /\ UNCHANGED <<poc, input, full, filled, busy, active, lastKey, signals, deciding>>
    /\ UNCHANGED <<cur, ret, eof, delayed, encoded, rate, buffer, fe, picture, row, seen, events>>

\* encode() returns; x265_encoder_encode() and x265_main() call it again, until
\* nothing is returned and nothing is left
Return ==
    /\ cur' = (cur + 1) % NumThreads
    /\ api' = IF eof /\ ret = 0 /\ delayed = 0 THEN "close" ELSE "call"

-----------------------------------------------------------------------------
(* DPB::prepareEncode() *)

\* level.cpp, without B pyramid
NumReorder == Min({BFrames, 1})
MaxDec     == Min({16, Max({NumReorder + 2, MaxRef}) + NumReorder})

\* m_bHasReferences of the pictures in the DPB after the refresh that a key
\* frame left pending, for a picture f of type k that joins them
Refresh(f) == pending /\ poc[f] > cra
Marked(f, k) == [g \in Frames |->
    IF g = f THEN k # "B" ELSE hasRef[g] /\ (Refresh(f) => poc[g] = cra)]

\* the reference picture set: the pictures encoded last, of those marked
RPS(f, k) ==
    LET all == Select(picList, {g \in Frames : Marked(f, k)[g]})
    IN Range(SubSeq(all, 1, Min({Len(all), MaxDec - 1})))

\* the n pictures of S that are nearest to f
Nearest(S, f, n) ==
    LET Dist(g) == Max({poc[g] - poc[f], poc[f] - poc[g]})
    IN {g \in S : Cardinality({h \in S : Dist(h) < Dist(g)}) < n}

\* lists 0 and 1
RefPics(f, k) ==
    LET before == {g \in RPS(f, k) : poc[g] < poc[f]}
        after  == {g \in RPS(f, k) : poc[g] > poc[f]}
    IN CASE k = "I" -> {}
         [] k = "P" -> Nearest(before, f, MaxRef)
         [] k = "B" -> Nearest(before, f, MaxRef) \cup Nearest(after, f, 1)

PrepareEncode(f, k) ==
    LET used == RefPics(f, k)
        key  == k = "I" /\ poc[f] > 0
    IN /\ picList' = <<f>> \o picList
       /\ hasRef' = [g \in Frames |-> Marked(f, k)[g] /\ (g = f \/ g \in RPS(f, k))]
       /\ count' = [g \in Frames |-> IF g \in used THEN count[g] + 1 ELSE count[g]]
       /\ cra' = IF key THEN poc[f] ELSE cra
       /\ pending' = (key \/ (pending /\ ~Refresh(f)))
       /\ refs' = [refs EXCEPT ![cur] = {<<g, poc[g]>> : g \in used}]

-----------------------------------------------------------------------------
(* The rest of Encoder::encode() *)

\* incr() and poke() wake whoever sleeps in waitForChange()
Wake(steps) == [e \in FEs |-> IF steps[e] = "asleep" THEN "rcEnd" ELSE steps[e]]

\* startCompressFrame()
StartFrame ==
    /\ api = "start" /\ inHand # <<>>
    /\ PrepareEncode(inHand[1], inHand[2])
    /\ frame' = [frame EXCEPT ![cur] = inHand[1]]
    /\ kind' = [kind EXCEPT ![cur] = inHand[2]]
    /\ number' = [number EXCEPT ![cur] = encoded]
    /\ encoded' = encoded + 1
    /\ enable' = [enable EXCEPT ![cur] = @ + 1]
    /\ inHand' = <<>>
    /\ Return
    /\ UNCHANGED <<lookahead, ret, eof, delayed, rate, created, freeList, recon, fe, row, seen,
                   done, threadActive, crashed>>

\* setFinalFrameCount()
NoFrame ==
    /\ api = "start" /\ inHand = <<>>
    /\ final' = IF encoded > 0 THEN encoded ELSE final
    /\ fe' = IF encoded > 0 THEN Wake(fe) ELSE fe
    /\ Return
    /\ UNCHANGED <<lookahead, inHand, ret, eof, delayed, encoded, order, terminated, buffer,
                   picture, row, seen, events, crashed>>

-----------------------------------------------------------------------------
(* A frame encoder: threadMain(), compressFrame(), and the rate control *)

Enabled(e) ==
    /\ fe[e] = "idle" /\ enable[e] > 0
    /\ enable' = [enable EXCEPT ![e] = @ - 1]
    /\ fe' = [fe EXCEPT ![e] = IF threadActive[e] THEN "rcStart" ELSE "exited"]
    /\ UNCHANGED <<lookahead, caller, encoded, rate, buffer, picture, row, seen, done,
                   threadActive, crashed>>

StartOrdinal(n) == 2 * n
\* mutant: one event too early
EndOrdinalLess(n) == (n + NumThreads) * 2 - 2
EndOrdinal(n)     == (n + NumThreads) * 2 - 1

\* rateControlStart(): after the starts of all frames before it, and the ends
\* of those NumThreads before it; the first frames make up for the ends of
\* frames that never were
RcStart(e) ==
    /\ fe[e] = "rcStart"
    /\ order >= StartOrdinal(number[e]) \/ terminated
    /\ order' = order + (IF number[e] < NumThreads - 1 THEN 2 ELSE 1)
    /\ fe' = Wake([fe EXCEPT ![e] = "row"])
    /\ UNCHANGED <<lookahead, caller, encoded, final, terminated, buffer, picture, row, seen,
                   events, crashed>>

\* a row, as soon as the references have reconstructed what it may reach
EncodeRow(e) ==
    /\ fe[e] = "row"
    /\ \A r \in refs[e] : recon[r[1]] >= Min({row[e] + RefLag, NumRows})
    /\ recon' = [recon EXCEPT ![frame[e]] = @ + 1]
    /\ row' = [row EXCEPT ![e] = (@ + 1) % NumRows]
    /\ fe' = [fe EXCEPT ![e] = IF row[e] = NumRows - 1 THEN "rcEnd" ELSE "row"]
    /\ UNCHANGED <<lookahead, caller, encoded, rate, lists, marks, count, picture, seen, events,
                   crashed>>

\* the loop of rateControlEnd(); "no more frames are being encoded"
MayEnd(e) ==
    \/ order >= EndOrdinal(number[e])
    \/ terminated
    \/ final > 0 /\ order >= 2 * final

RcEnd(e) ==
    /\ fe[e] = "rcEnd"
    /\ fe' = [fe EXCEPT ![e] = IF MayEnd(e) THEN "finish" ELSE "toWait"]
    /\ seen' = [seen EXCEPT ![e] = IF MayEnd(e) THEN 0 ELSE order]
    /\ UNCHANGED <<lookahead, caller, encoded, rate, buffer, picture, row, events, crashed>>

\* waitForChange(): only the value is looked at again under the lock
WaitForChange(e) ==
    /\ fe[e] = "toWait"
    /\ fe' = [fe EXCEPT ![e] = IF order = seen[e] THEN "asleep" ELSE "rcEnd"]
    /\ UNCHANGED <<lookahead, caller, encoded, rate, buffer, picture, row, seen, events, crashed>>

FinishRc(e) ==
    /\ fe[e] = "finish"
    /\ order' = order + 1
    /\ fe' = Wake([fe EXCEPT ![e] = "release"])
    /\ UNCHANGED <<lookahead, caller, encoded, final, terminated, buffer, picture, row, seen,
                   events, crashed>>

\* the references may be recycled, the picture is there
Release(e) ==
    /\ fe[e] = "release"
    /\ count' = [f \in Frames |-> IF \E r \in refs[e] : r[1] = f THEN count[f] - 1 ELSE count[f]]
    /\ refs' = [refs EXCEPT ![e] = {}]
    /\ done' = [done EXCEPT ![e] = @ + 1]
    /\ fe' = [fe EXCEPT ![e] = "idle"]
    /\ UNCHANGED <<lookahead, caller, encoded, rate, lists, marks, recon, frame, kind, number,
                   row, seen, enable, threadActive, crashed>>

-----------------------------------------------------------------------------
(* encoder_close(): Encoder::stopJobs() *)

\* all pictures are out, or the encode is aborted (b_ctrl_c)
Terminate ==
    /\ api \in {"call", "close"}
    /\ terminated' = TRUE
    /\ fe' = Wake(fe)
    /\ api' = "stop"
    /\ UNCHANGED <<lookahead, cur, inHand, ret, eof, delayed, encoded, order, final, buffer,
                   picture, row, seen, events, crashed>>

StopLookahead ==
    /\ api = "stop"
    /\ IF input = <<>>
       THEN api' = "stopFE" /\ UNCHANGED <<active, required>>
       ELSE /\ active' = FALSE
            /\ required' = busy
            /\ api' = IF busy THEN "waitStop" ELSE "stopFE"
    /\ cur' = 0
    /\ UNCHANGED <<poc, queues, full, filled, busy, lastKey, signal, deciding>>
    /\ UNCHANGED <<inHand, ret, eof, delayed, encoded, rate, buffer, fe, picture, row, seen,
                   events, crashed>>

\* one frame encoder after the other: its picture, then its thread
StopFrameEncoder ==
    /\ api = "stopFE"
    /\ frame[cur] # 0 => done[cur] > 0
    /\ done' = [done EXCEPT ![cur] = IF frame[cur] # 0 THEN @ - 1 ELSE @]
    /\ frame' = [frame EXCEPT ![cur] = 0]
    /\ threadActive' = [threadActive EXCEPT ![cur] = FALSE]
    /\ enable' = [enable EXCEPT ![cur] = @ + 1]
    /\ api' = "join"
    /\ UNCHANGED <<lookahead, cur, inHand, ret, eof, delayed, encoded, rate, buffer, fe, kind,
                   number, refs, row, seen, crashed>>

Join ==
    /\ api = "join" /\ fe[cur] = "exited"
    /\ IF cur + 1 < NumThreads
       THEN api' = "stopFE" /\ cur' = cur + 1
       ELSE api' = "closed" /\ UNCHANGED cur
    /\ UNCHANGED <<lookahead, inHand, ret, eof, delayed, encoded, rate, buffer, fe, picture, row,
                   seen, events, crashed>>

-----------------------------------------------------------------------------
ApiStep == \/ AddPicture \/ Flush \/ GetEncoded \/ TakeDecided \/ FindJob
           \/ AwaitOutput \/ PopUnlocked \/ StartFrame \/ NoFrame
           \/ Terminate \/ StopLookahead \/ StopFrameEncoder \/ Join

EncoderStep(e) == \/ Enabled(e) \/ RcStart(e) \/ EncodeRow(e)
                  \/ RcEnd(e) \/ WaitForChange(e) \/ FinishRc(e) \/ Release(e)

DeciderStep(t) == GoOnDeciding(t) /\ UNCHANGED pipe

Runs == ~crashed /\ UNCHANGED param

Next == /\ Runs
        /\ \/ ApiStep
           \/ \E e \in FEs : EncoderStep(e)
           \/ \E t \in Deciders : DeciderStep(t)
           \/ \E t \in Helpers : BeginDecide(t) /\ UNCHANGED pipe

Spec == Init /\ [][Next]_vars

\* Threads run.  Whether a worker of the pool ever looks at the lookahead is
\* not assumed.
FairSpec == /\ Spec
            /\ WF_vars(ApiStep /\ Runs)
            /\ \A e \in FEs : WF_vars(EncoderStep(e) /\ Runs)
            /\ \A t \in Deciders : WF_vars(DeciderStep(t) /\ Runs)

-----------------------------------------------------------------------------
(* Properties *)

Calls == {"call", "get", "decide", "find", "deciding", "mark", "wait", "pop", "start", "close",
          "stop", "waitStop", "stopFE", "join", "closed"}
Steps == {"idle", "rcStart", "row", "rcEnd", "toWait", "asleep", "finish", "release", "exited"}

\* Every variable has its type; no event is triggered twice, no reference
\* counter drops below 0, no picture is reconstructed twice.
TypeOK ==
    /\ LookaheadTypeOK
    /\ api \in Calls /\ cur \in FEs /\ ret \in {0, 1} /\ delayed \in 0 .. MaxPics
    /\ inHand = <<>> \/ inHand \in Frames \X {"I", "P", "B"}
    /\ {eof, terminated, pending, crashed} \subseteq BOOLEAN
    /\ encoded \in 0 .. MaxPics /\ final \in 0 .. MaxPics
    /\ order \in 0 .. 2 * MaxPics + NumThreads
    /\ created \in 0 .. MaxPics
    /\ Range(freeList) \subseteq 1 .. created /\ Range(picList) \subseteq 1 .. created
    /\ hasRef \in [Frames -> BOOLEAN]
    /\ count \in [Frames -> 0 .. NumThreads + 1] /\ recon \in [Frames -> 0 .. NumRows]
    /\ cra \in 0 .. MaxPics - 1
    /\ fe \in [FEs -> Steps] /\ frame \in [FEs -> 0 .. MaxPics]
    /\ kind \in [FEs -> {"I", "P", "B"}] /\ number \in [FEs -> 0 .. MaxPics - 1]
    /\ \A e \in FEs : refs[e] \subseteq Frames \X (0 .. MaxPics - 1)
    /\ row \in [FEs -> 0 .. NumRows - 1] /\ seen \in [FEs -> 0 .. 2 * MaxPics + NumThreads]
    /\ enable \in [FEs -> {0, 1}] /\ done \in [FEs -> {0, 1}]
    /\ threadActive \in [FEs -> BOOLEAN]

Working == {e \in FEs : frame[e] # 0 /\ (enable[e] > 0 \/ fe[e] # "idle")}

\* the pictures that deciders hold, and the frame encoders that have one
Held     == UNION {{t} \X DOMAIN gop[t] : t \in Deciders}
Occupied == {e \in FEs : frame[e] # 0}

\* m_numDelayedPic counts the pictures that are somewhere between the input
\* queue and a frame encoder: none is lost between the queues, the one that
\* decides and the one that encodes, and none is in two places.
NoneLost == ~terminated /\ ~crashed =>
    delayed = Len(input) + Len(output) + Len(inHand) \div 2
              + Cardinality(Held) + Cardinality(Occupied)

\* The types, and the count of pictures on their way through the encoder.
PipeInv == TypeOK /\ NoneLost

\* A picture that is being encoded, and every one it refers to, stays in the
\* picture list and is not given to another picture of the stream.
RefsHeld == \A e \in Working :
    /\ Contains(picList, frame[e])
    /\ \A r \in refs[e] : Contains(picList, r[1]) /\ poc[r[1]] = r[2]

\* Pictures are encoded in an order in which a P picture finds the picture of
\* its kind before it, and a B picture both around it ("B slice without L1
\* references", dpb.cpp:147, is never logged).
RightReferences == \A e \in Working : fe[e] \in {"rcStart", "row"} =>
    LET p      == poc[frame[e]]
        before == {r[2] : r \in {q \in refs[e] : q[2] < p}}
        after  == {r[2] : r \in {q \in refs[e] : q[2] > p}}
    IN /\ kind[e] = "P" => \E b \in before : p - b <= BFrames + 1
       /\ kind[e] = "B" => \E b \in before, a \in after : a - b <= BFrames + 1

\* When rate control starts picture n, all those before it have started and
\* exactly those up to n - NumThreads have ended ("frames ahead of it in encode
\* order", frameencoder.cpp:366): what it knows does not depend on the speed of
\* the threads.  It is so only until setFinalFrameCount() is called, which lets
\* rateControlEnd() go ahead, and not only "when the encoder is flushing"
\* (ratecontrol.cpp:2330; README, section 3).
Unended == {e \in Working : fe[e] \notin {"release", "exited"}}
SameRateControl ==
    [][\A e \in FEs : fe[e] = "rcStart" /\ fe'[e] = "row" /\ ~terminated /\ final = 0 =>
          /\ encoded - Cardinality(Unended) = Max({0, number[e] - NumThreads + 1})
          /\ \A d \in Working : number[d] < number[e] => enable[d] = 0 /\ fe[d] # "rcStart"]_vars

\* The API thread is not left waiting for the lookahead: whoever decides will
\* notice that it waits; and m_outputSignal is triggered for no other reason, so
\* that no later wait finds the event of an earlier one.
Awaiting == api \in {"wait", "waitStop"}
WaitIsSignalled ==
    /\ Awaiting /\ signal = 0 => required /\ \E t \in Helpers : dec[t] # "idle"
    /\ signal > 0 \/ required => Awaiting

\* The encoder is flushed and closed: no thread waits for ever in the rate
\* control ("unblock waiting threads", ratecontrol.cpp:2335).
Closes == <>(api = "closed" \/ crashed)
=============================================================================
