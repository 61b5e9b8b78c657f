----------------------- MODULE DesktopStreamingProofs -----------------------
EXTENDS DesktopStreaming, SequenceTheorems, TLAPS

-----------------------------------------------------------------------------
(* The inductive invariant *)

Quiet     == wrk \in {"asleep", "off"}
Working   == wrk \in {"job", "loop", "captured", "push", "done"}
Capturing == cap \in {"loop", "captured", "push", "done"}
Starting  == enc \in {"parse", "flag", "create"}
Ending    == io \in {"seq", "terminator", "joinEnc"}
Ended     == io \in {"launch", "terminate", "joinWrk", "gone"}

\* At most the threads that have seen yuvSeqNO < MaxSeq count beyond it.
Counting(t) == IF t = "captured" THEN 1 ELSE 0
Counted     == /\ yuvSeqNO + Counting(cap) + Counting(wrk) <= MaxSeq + 1
               /\ wrk \in {"captured", "push"} => left > 0

\* The commands whose handling gets where io is, and for whom there is a
\* session left.
Handled ==
    /\ io \in {"stop", "test", "join", "reset"} => Ends(cmd) \/ cmd \in {"pause", "start"}
    /\ Ending => Ends(cmd)
    /\ io \in {"terminate", "joinWrk"} => cmd \in {"quit", "hangup"}
    /\ io = "launch" => cmd = "x265"
    /\ io = "start" => cmd = "start"
    /\ io \in {"stop", "test", "join", "reset", "launch"} \/ Ending
          => (cmd = "x265" => session < MaxSessions)

Base == TypeOK /\ Counted /\ Handled

\* A connection that was lost while something was going on is being closed.
Lost == interrupted # {} =>
           /\ cmd \in {"hangup", "destroy"}
           /\ io \in {"stop", "test", "join", "reset", "terminate", "joinWrk", "gone"} \/ Ending

\* Unless startReader() was interrupted: the encoder starts between two commands.
Encoder ==
    /\ enc \notin {"stop", "test", "join", "reset"}
    /\ Starting => io = "idle"
    /\ Ended => enc = "none"
    /\ io \in {"joinEnc", "post", "start", "flag", "create"} => enc \in {"read", "ended"}
    /\ io \in {"stop", "test", "join", "reset"} /\ cmd = "start" => enc \in {"read", "ended"}

\* Unless startReader() was interrupted: no capture outlives StopCapture(), and
\* none is there before its encoder.
Capture ==
    /\ enc = "none" \/ Starting => cap = "none"
    /\ io = "reset" \/ Ending \/ Ended => cap = "none"
    /\ ~ CaptureFails => ~ crashed

\* Unless something was interrupted: the worker has a job only between two
\* commands; a command ends what it has to wait for.
Worker ==
    /\ io \notin {"idle", "joinWrk"} \/ Starting => Quiet
    /\ io = "joinWrk" => ~ active /\ wrk \in {"check", "exited", "off"}
    /\ wrk = "exited" => io = "joinWrk"
    /\ ~ active => io = "joinWrk" \/ wrk = "off"
    /\ wrk \notin {"check", "exited", "off"} => pNextJob = 0
    /\ Working \/ (wrk = "check" /\ active /\ pNextJob # 0) => enc \in {"read", "ended"}

\* Unless something was interrupted: captureRunning says who captures; it is
\* exact but while StopCapture() waits.
Flag ==
    /\ io \in {"post", "start", "flag", "create"} \/ ~ Quiet => ~ Capturing
    /\ io \in {"test", "join"} => ~ captureRunning
    /\ io \notin {"test", "join"} =>
          (captureRunning <=> \/ Capturing \/ wrk \in {"loop", "captured", "push", "done"}
                              \/ io = "create" \/ enc = "create")
    /\ ~ CaptureFails => (cap \in {"done", "ended"} => io \in {"test", "join"})
    /\ ~ raced

\* Unless something was interrupted or an encoder ends by itself: the ring holds
\* the frames of the running session, in order and without a gap, and behind
\* them the empty buffer that EndStreaming() pushed.
Pushing == IF cap = "push" \/ wrk = "push" THEN 1 ELSE 0
IsNth(f, n) == f = <<session, n>>
Filled ==
    /\ enc \in {"none", "ended"} \/ Starting => chan = <<>>
    /\ enc = "ended" => io = "joinEnc"
    /\ Starting => inFrameCount = 0 /\ yuvSeqNO = 0
    /\ enc = "read" =>
          /\ \A i \in DOMAIN chan :
                IF io = "joinEnc" /\ i = Len(chan) THEN chan[i] = EmptyBuf
                                                  ELSE IsNth(chan[i], inFrameCount + i)
          /\ io = "joinEnc" => chan # <<>>
          /\ io \notin {"terminator", "joinEnc"} => yuvSeqNO = inFrameCount + Len(chan) + Pushing
          /\ inFrameCount > 0 => IsNth(got["enc"], inFrameCount)
    /\ cap = "push" => IsNth(capBuf, yuvSeqNO)
    /\ wrk = "push" => IsNth(wrkBuf, yuvSeqNO)

IInv == /\ Base /\ Lost
        /\ "reader" \notin interrupted => Encoder /\ Capture
        /\ interrupted = {} => Worker /\ Flag
        /\ interrupted = {} /\ ~ EncoderStops => Filled

\* Whatever is typed and whenever the connection is lost, but unless an encoder
\* ends by itself: the only empty buffer in the ring is the one that the io
\* thread is waiting for the encoder to read.
Meant ==
    /\ enc = "ended" => io = "joinEnc"
    /\ cap = "push" => capBuf # EmptyBuf
    /\ wrk = "push" => wrkBuf # EmptyBuf
    /\ \A i \in DOMAIN chan :
          chan[i] = EmptyBuf => /\ io = "joinEnc" /\ enc # "ended"
                                /\ \A j \in DOMAIN chan : chan[j] = EmptyBuf => i = j

-----------------------------------------------------------------------------
(* Lemmas *)

LEMMA Bounds == /\ YUV_BUFSIZE \in Nat /\ YUV_BUFSIZE > 0 /\ MaxSeq \in Nat /\ MaxSeq > 0
                /\ MaxJob \in Nat /\ MaxJob > 0 /\ MaxSessions \in Nat /\ MaxSessions > 0
BY BoundsAssumption

LEMMA Types ==
    ASSUME TypeOK
    PROVE  /\ inFrameCount \in Nat /\ yuvSeqNO \in Nat /\ session \in Nat /\ left \in Nat
           /\ chan \in Seq(Frame \cup {EmptyBuf}) /\ Len(chan) \in Nat /\ DOMAIN chan = 1 .. Len(chan)
<1>1. chan \in Seq(Frame \cup {EmptyBuf})
  BY DEF TypeOK
<1>2. Len(chan) \in Nat /\ DOMAIN chan = 1 .. Len(chan)
  BY <1>1, LenProperties
<1> QED
  BY <1>1, <1>2, Bounds DEF TypeOK

-----------------------------------------------------------------------------
(* The capture thread *)

LEMMA CaptureFrameStep == ASSUME Base, CaptureFrame PROVE Base' /\ (IInv => IInv')
<1>s. UNCHANGED <<captureRunning, yuvSeqNO, active, pNextJob, io, cmd, capBuf, enc, inFrameCount, wrk,
                 left, wrkBuf, session, chan, got, crashed, raced, interrupted>>
  BY DEF CaptureFrame, capRest, svcVars, ioVars, capVars, encVars, wrkVars, ring
<1>0. /\ cap = "loop" /\ captureRunning /\ yuvSeqNO < MaxSeq /\ cap' = "captured"
  BY DEF CaptureFrame
<1>n. /\ inFrameCount \in Nat /\ Len(chan) \in Nat /\ yuvSeqNO \in Nat /\ session \in Nat
      /\ MaxSeq \in Nat
  BY Types, Bounds DEF Base
<1>1. Counted' /\ Handled'
  BY <1>s, <1>0, <1>n DEF Base, Counted, Counting, Handled, Ending
<1>2. TypeOK'
  BY <1>s, <1>0 DEF Base, TypeOK
<1>b. Base'
  BY <1>1, <1>2 DEF Base
<1> SUFFICES ASSUME IInv PROVE IInv'
  BY <1>b
<1>t. /\ TypeOK /\ Lost
      /\ "reader" \notin interrupted => Encoder /\ Capture
      /\ interrupted = {} => Worker /\ Flag
      /\ interrupted = {} /\ ~ EncoderStops => Filled
  BY DEF IInv, Base
<1>3. Lost'
  BY <1>t, <1>s DEF Lost, Ending
<1>4. "reader" \notin interrupted' => Encoder'
  BY <1>t, <1>s DEF Encoder, Starting, Ended
<1>5. "reader" \notin interrupted' => Capture'
  BY <1>t, <1>s, <1>0 DEF Capture, Starting, Ending, Ended
<1>6. interrupted' = {} => Worker'
  BY <1>t, <1>s DEF Worker, Quiet, Working, Starting
<1>7. interrupted' = {} => Flag'
  BY <1>t, <1>s, <1>0 DEF Flag, Quiet, Capturing
<1>8. interrupted' = {} /\ ~ EncoderStops => Filled'
  BY <1>t, <1>s, <1>0 DEF Filled, Pushing, IsNth, Starting
<1> QED
  BY <1>b, <1>3, <1>4, <1>5, <1>6, <1>7, <1>8 DEF IInv

LEMMA FillFrameStep == ASSUME Base, FillFrame PROVE Base' /\ (IInv => IInv')
<1>s. UNCHANGED <<captureRunning, active, pNextJob, io, cmd, enc, inFrameCount, wrk, left, wrkBuf,
                 session, chan, got, crashed, interrupted>>
  BY DEF FillFrame, capRest, svcVars, ioVars, capVars, encVars, wrkVars, ring
<1>0. /\ cap = "captured" /\ cap' = "push" /\ yuvSeqNO' = yuvSeqNO + 1
      /\ capBuf' = <<session, yuvSeqNO'>> /\ raced' = (wrk = "push")
  BY DEF FillFrame
<1>n. /\ inFrameCount \in Nat /\ Len(chan) \in Nat /\ yuvSeqNO \in Nat /\ session \in Nat
      /\ MaxSeq \in Nat
  BY Types, Bounds DEF Base
<1>1. Counted' /\ Handled'
  BY <1>s, <1>0 DEF Base, Counted, Counting, Handled, Ending
<1>2. TypeOK'
  BY <1>s, <1>0, Bounds DEF Base, TypeOK, Frame, Counted, Counting
<1>b. Base'
  BY <1>1, <1>2 DEF Base
<1> SUFFICES ASSUME IInv PROVE IInv'
  BY <1>b
<1>t. /\ TypeOK /\ Lost
      /\ "reader" \notin interrupted => Encoder /\ Capture
      /\ interrupted = {} => Worker /\ Flag
      /\ interrupted = {} /\ ~ EncoderStops => Filled
  BY DEF IInv, Base
<1>3. Lost'
  BY <1>t, <1>s DEF Lost, Ending
<1>4. "reader" \notin interrupted' => Encoder'
  BY <1>t, <1>s DEF Encoder, Starting, Ended
<1>5. "reader" \notin interrupted' => Capture'
  BY <1>t, <1>s, <1>0 DEF Capture, Starting, Ending, Ended
<1>6. interrupted' = {} => Worker'
  BY <1>t, <1>s DEF Worker, Quiet, Working, Starting
<1>7. interrupted' = {} => Flag'
  BY <1>t, <1>s, <1>0 DEF Flag, Quiet, Capturing
<1>8. interrupted' = {} /\ ~ EncoderStops => Filled'
  BY <1>t, <1>s, <1>0, <1>n DEF Filled, Pushing, IsNth, Capture, Flag, Quiet, Capturing,
     Starting, Ending
<1> QED
  BY <1>b, <1>3, <1>4, <1>5, <1>6, <1>7, <1>8 DEF IInv

LEMMA LeaveLoopStep == ASSUME Base, LeaveLoop PROVE Base' /\ (IInv => IInv')
<1>s. UNCHANGED <<captureRunning, yuvSeqNO, active, pNextJob, io, cmd, capBuf, enc, inFrameCount, wrk,
                 left, wrkBuf, session, chan, got, crashed, raced, interrupted>>
  BY DEF LeaveLoop, capRest, svcVars, ioVars, capVars, encVars, wrkVars, ring
<1>0. /\ cap = "loop" /\ (~ captureRunning \/ CaptureFails) /\ cap' = "done"
  BY DEF LeaveLoop
<1>n. /\ inFrameCount \in Nat /\ Len(chan) \in Nat /\ yuvSeqNO \in Nat /\ session \in Nat
      /\ MaxSeq \in Nat
  BY Types, Bounds DEF Base
<1>1. Counted' /\ Handled'
  BY <1>s, <1>0 DEF Base, Counted, Counting, Handled, Ending
<1>2. TypeOK'
  BY <1>s, <1>0 DEF Base, TypeOK
<1>b. Base'
  BY <1>1, <1>2 DEF Base
<1> SUFFICES ASSUME IInv PROVE IInv'
  BY <1>b
<1>t. /\ TypeOK /\ Lost
      /\ "reader" \notin interrupted => Encoder /\ Capture
      /\ interrupted = {} => Worker /\ Flag
      /\ interrupted = {} /\ ~ EncoderStops => Filled
  BY DEF IInv, Base
<1>3. Lost'
  BY <1>t, <1>s DEF Lost, Ending
<1>4. "reader" \notin interrupted' => Encoder'
  BY <1>t, <1>s DEF Encoder, Starting, Ended
<1>5. "reader" \notin interrupted' => Capture'
  BY <1>t, <1>s, <1>0 DEF Capture, Starting, Ending, Ended
<1>6. interrupted' = {} => Worker'
  BY <1>t, <1>s DEF Worker, Quiet, Working, Starting
<1>7. interrupted' = {} => Flag'
  BY <1>t, <1>s, <1>0 DEF Flag, Quiet, Capturing
<1>8. interrupted' = {} /\ ~ EncoderStops => Filled'
  BY <1>t, <1>s, <1>0 DEF Filled, Pushing, IsNth, Starting
<1> QED
  BY <1>b, <1>3, <1>4, <1>5, <1>6, <1>7, <1>8 DEF IInv

LEMMA EndCaptureStep == ASSUME Base, EndCapture PROVE Base' /\ (IInv => IInv')
<1>s. UNCHANGED <<yuvSeqNO, active, pNextJob, io, cmd, capBuf, enc, inFrameCount, wrk, left, wrkBuf,
                 session, chan, got, crashed, raced, interrupted>>
  BY DEF EndCapture, capRest, svcVars, ioVars, capVars, encVars, wrkVars, ring
<1>0. /\ cap = "done" /\ cap' = "ended" /\ captureRunning' = FALSE
  BY DEF EndCapture
<1>n. /\ inFrameCount \in Nat /\ Len(chan) \in Nat /\ yuvSeqNO \in Nat /\ session \in Nat
      /\ MaxSeq \in Nat
  BY Types, Bounds DEF Base
<1>1. Counted' /\ Handled'
  BY <1>s, <1>0 DEF Base, Counted, Counting, Handled, Ending
<1>c. captureRunning' \in BOOLEAN
  BY <1>0
<1>2. TypeOK'
  BY <1>s, <1>0, <1>c DEF Base, TypeOK
<1>b. Base'
  BY <1>1, <1>2 DEF Base
<1> SUFFICES ASSUME IInv PROVE IInv'
  BY <1>b
<1>t. /\ TypeOK /\ Lost
      /\ "reader" \notin interrupted => Encoder /\ Capture
      /\ interrupted = {} => Worker /\ Flag
      /\ interrupted = {} /\ ~ EncoderStops => Filled
  BY DEF IInv, Base
<1>3. Lost'
  BY <1>t, <1>s DEF Lost, Ending
<1>4. "reader" \notin interrupted' => Encoder'
  BY <1>t, <1>s DEF Encoder, Starting, Ended
<1>5. "reader" \notin interrupted' => Capture'
  BY <1>t, <1>s, <1>0 DEF Capture, Starting, Ending, Ended
<1>6. interrupted' = {} => Worker'
  BY <1>t, <1>s DEF Worker, Quiet, Working, Starting
<1>7. interrupted' = {} => Flag'
  BY <1>t, <1>s, <1>0 DEF Capture, Flag, Quiet, Capturing, Starting
<1>8. interrupted' = {} /\ ~ EncoderStops => Filled'
  BY <1>t, <1>s, <1>0 DEF Filled, Pushing, IsNth, Starting
<1> QED
  BY <1>b, <1>3, <1>4, <1>5, <1>6, <1>7, <1>8 DEF IInv

-----------------------------------------------------------------------------
(* The encoder thread *)

LEMMA ParseStep == ASSUME Base, Parse PROVE Base' /\ (IInv => IInv')
<1>s. UNCHANGED <<captureRunning, yuvSeqNO, active, pNextJob, io, cmd, cap, capBuf, inFrameCount, wrk,
                 left, wrkBuf, session, chan, got, crashed, raced, interrupted>>
  BY DEF Parse, encRest, svcVars, ioVars, capVars, encVars, wrkVars, ring
<1>0. /\ enc = "parse"
      /\ (enc' = (IF captureRunning THEN "stop" ELSE "flag") \/ (EncoderStops /\ enc' = "ended"))
  BY DEF Parse
<1>n. /\ inFrameCount \in Nat /\ Len(chan) \in Nat /\ yuvSeqNO \in Nat /\ session \in Nat
      /\ MaxSeq \in Nat
  BY Types, Bounds DEF Base
<1>1. Counted' /\ Handled'
  BY <1>s DEF Base, Counted, Handled, Ending
<1>2. TypeOK'
  BY <1>s, <1>0 DEF Base, TypeOK
<1>b. Base'
  BY <1>1, <1>2 DEF Base
<1> SUFFICES ASSUME IInv PROVE IInv'
  BY <1>b
<1>t. /\ TypeOK /\ Lost
      /\ "reader" \notin interrupted => Encoder /\ Capture
      /\ interrupted = {} => Worker /\ Flag
      /\ interrupted = {} /\ ~ EncoderStops => Filled
  BY DEF IInv, Base
<1>3. Lost'
  BY <1>t, <1>s DEF Lost, Ending
<1>4. "reader" \notin interrupted' => Encoder'
  BY <1>t, <1>s, <1>0 DEF Lost, Encoder, Capture, Worker, Flag, Working, Capturing,
     Starting, Ending, Ended
<1>5. "reader" \notin interrupted' => Capture'
  BY <1>t, <1>s, <1>0 DEF Capture, Starting
<1>6. interrupted' = {} => Worker'
  BY <1>t, <1>s, <1>0 DEF Worker, Quiet, Working, Starting
<1>7. interrupted' = {} => Flag'
  BY <1>t, <1>s, <1>0 DEF Flag, Quiet, Capturing
<1>8. interrupted' = {} /\ ~ EncoderStops => Filled'
  BY <1>t, <1>s, <1>0 DEF Filled, Capture, Worker, Working, Starting
<1> QED
  BY <1>b, <1>3, <1>4, <1>5, <1>6, <1>7, <1>8 DEF IInv

LEMMA EncStopCaptureStep == ASSUME Base, EncStopCapture PROVE Base' /\ (IInv => IInv')
<1>s. UNCHANGED <<yuvSeqNO, active, pNextJob, io, cmd, cap, capBuf, inFrameCount, wrk, left, wrkBuf,
                 session, chan, got, crashed, raced, interrupted>>
  BY DEF EncStopCapture, encRest, svcVars, ioVars, capVars, encVars, wrkVars, ring
<1>0. /\ enc = "stop" /\ captureRunning' = FALSE /\ enc' = "test"
  BY DEF EncStopCapture, ClearFlag
<1>n. /\ inFrameCount \in Nat /\ Len(chan) \in Nat /\ yuvSeqNO \in Nat /\ session \in Nat
      /\ MaxSeq \in Nat
  BY Types, Bounds DEF Base
<1>1. Counted' /\ Handled'
  BY <1>s DEF Base, Counted, Handled, Ending
<1>c. captureRunning' \in BOOLEAN
  BY <1>0
<1>2. TypeOK'
  BY <1>s, <1>0, <1>c DEF Base, TypeOK
<1>b. Base'
  BY <1>1, <1>2 DEF Base
<1> SUFFICES ASSUME IInv PROVE IInv'
  BY <1>b
<1>t. /\ TypeOK /\ Lost
      /\ "reader" \notin interrupted => Encoder /\ Capture
      /\ interrupted = {} => Worker /\ Flag
      /\ interrupted = {} /\ ~ EncoderStops => Filled
  BY DEF IInv, Base
<1>3. Lost'
  BY <1>t, <1>s DEF Lost, Ending
<1>4. "reader" \notin interrupted' => Encoder'
  BY <1>t, <1>s, <1>0 DEF Encoder
<1>5. "reader" \notin interrupted' => Capture'
  BY <1>t, <1>s, <1>0 DEF Capture, Starting, Ending, Ended
<1>6. interrupted' = {} => Worker'
  BY <1>t, <1>s, <1>0 DEF Worker, Quiet, Working, Starting
<1>7. interrupted' = {} => Flag'
  BY <1>t, <1>s, <1>0 DEF Encoder
<1>8. interrupted' = {} /\ ~ EncoderStops => Filled'
  BY <1>t, <1>s, <1>0 DEF Encoder
<1> QED
  BY <1>b, <1>3, <1>4, <1>5, <1>6, <1>7, <1>8 DEF IInv

LEMMA EncTestCaptureStep == ASSUME Base, EncTestCapture PROVE Base' /\ (IInv => IInv')
<1>s. UNCHANGED <<captureRunning, yuvSeqNO, active, pNextJob, io, cmd, cap, capBuf, inFrameCount, wrk,
                 left, wrkBuf, session, chan, got, raced, interrupted>>
  BY DEF EncTestCapture, encRest, svcVars, ioVars, capVars, encVars, wrkVars, ring
<1>0. /\ enc = "test" /\ enc' \in {"join", "reset"} /\ crashed' \in BOOLEAN
  BY DEF EncTestCapture, Joinable, JoinsTwice
<1>n. /\ inFrameCount \in Nat /\ Len(chan) \in Nat /\ yuvSeqNO \in Nat /\ session \in Nat
      /\ MaxSeq \in Nat
  BY Types, Bounds DEF Base
<1>1. Counted' /\ Handled'
  BY <1>s DEF Base, Counted, Handled, Ending
<1>2. TypeOK'
  BY <1>s, <1>0 DEF Base, TypeOK
<1>b. Base'
  BY <1>1, <1>2 DEF Base
<1> SUFFICES ASSUME IInv PROVE IInv'
  BY <1>b
<1>t. /\ TypeOK /\ Lost
      /\ "reader" \notin interrupted => Encoder /\ Capture
      /\ interrupted = {} => Worker /\ Flag
      /\ interrupted = {} /\ ~ EncoderStops => Filled
  BY DEF IInv, Base
<1>3. Lost'
  BY <1>t, <1>s DEF Lost, Ending
<1>4. "reader" \notin interrupted' => Encoder'
  BY <1>t, <1>s, <1>0 DEF Encoder
<1>5. "reader" \notin interrupted' => Capture'
  BY <1>t, <1>s, <1>0 DEF Encoder
<1>6. interrupted' = {} => Worker'
  BY <1>t, <1>s, <1>0 DEF Worker, Quiet, Working, Starting
<1>7. interrupted' = {} => Flag'
  BY <1>t, <1>s, <1>0 DEF Flag, Quiet, Capturing
<1>8. interrupted' = {} /\ ~ EncoderStops => Filled'
  BY <1>t, <1>s, <1>0 DEF Encoder
<1> QED
  BY <1>b, <1>3, <1>4, <1>5, <1>6, <1>7, <1>8 DEF IInv

LEMMA EncJoinCaptureStep == ASSUME Base, EncJoinCapture PROVE Base' /\ (IInv => IInv')
<1>s. UNCHANGED <<captureRunning, yuvSeqNO, active, pNextJob, io, cmd, capBuf, inFrameCount, wrk, left,
                 wrkBuf, session, chan, got, crashed, raced, interrupted>>
  BY DEF EncJoinCapture, encRest, svcVars, ioVars, capVars, encVars, wrkVars, ring
<1>0. /\ enc = "join" /\ cap = "ended" /\ cap' = "none" /\ enc' = "reset"
  BY DEF EncJoinCapture, JoinCapture
<1>n. /\ inFrameCount \in Nat /\ Len(chan) \in Nat /\ yuvSeqNO \in Nat /\ session \in Nat
      /\ MaxSeq \in Nat
  BY Types, Bounds DEF Base
<1>1. Counted' /\ Handled'
  BY <1>s, <1>0 DEF Base, Counted, Counting, Handled, Ending
<1>2. TypeOK'
  BY <1>s, <1>0 DEF Base, TypeOK
<1>b. Base'
  BY <1>1, <1>2 DEF Base
<1> SUFFICES ASSUME IInv PROVE IInv'
  BY <1>b
<1>t. /\ TypeOK /\ Lost
      /\ "reader" \notin interrupted => Encoder /\ Capture
      /\ interrupted = {} => Worker /\ Flag
      /\ interrupted = {} /\ ~ EncoderStops => Filled
  BY DEF IInv, Base
<1>3. Lost'
  BY <1>t, <1>s DEF Lost, Ending
<1>4. "reader" \notin interrupted' => Encoder'
  BY <1>t, <1>s, <1>0 DEF Encoder
<1>5. "reader" \notin interrupted' => Capture'
  BY <1>t, <1>s, <1>0 DEF Capture
<1>6. interrupted' = {} => Worker'
  BY <1>t, <1>s, <1>0 DEF Worker, Quiet, Working, Starting
<1>7. interrupted' = {} => Flag'
  BY <1>t, <1>s, <1>0 DEF Flag, Capturing
<1>8. interrupted' = {} /\ ~ EncoderStops => Filled'
  BY <1>t, <1>s, <1>0 DEF Encoder
<1> QED
  BY <1>b, <1>3, <1>4, <1>5, <1>6, <1>7, <1>8 DEF IInv

LEMMA EncResetCaptureStep == ASSUME Base, EncResetCapture PROVE Base' /\ (IInv => IInv')
<1>s. UNCHANGED <<captureRunning, yuvSeqNO, active, pNextJob, io, cmd, cap, capBuf, inFrameCount, wrk,
                 left, wrkBuf, session, chan, got, raced, interrupted>>
  BY DEF EncResetCapture, ResetCapture, encRest, svcVars, ioVars, capVars, encVars, wrkVars,
     ring
<1>0. /\ enc = "reset" /\ enc' = "flag" /\ crashed' \in BOOLEAN
  BY DEF EncResetCapture, ResetCapture, Joinable
<1>n. /\ inFrameCount \in Nat /\ Len(chan) \in Nat /\ yuvSeqNO \in Nat /\ session \in Nat
      /\ MaxSeq \in Nat
  BY Types, Bounds DEF Base
<1>1. Counted' /\ Handled'
  BY <1>s DEF Base, Counted, Handled, Ending
<1>2. TypeOK'
  BY <1>s, <1>0 DEF Base, TypeOK
<1>b. Base'
  BY <1>1, <1>2 DEF Base
<1> SUFFICES ASSUME IInv PROVE IInv'
  BY <1>b
<1>t. /\ TypeOK /\ Lost
      /\ "reader" \notin interrupted => Encoder /\ Capture
      /\ interrupted = {} => Worker /\ Flag
      /\ interrupted = {} /\ ~ EncoderStops => Filled
  BY DEF IInv, Base
<1>3. Lost'
  BY <1>t, <1>s DEF Lost, Ending
<1>4. "reader" \notin interrupted' => Encoder'
  BY <1>t, <1>s, <1>0 DEF Encoder
<1>5. "reader" \notin interrupted' => Capture'
  BY <1>t, <1>s, <1>0 DEF Encoder
<1>6. interrupted' = {} => Worker'
  BY <1>t, <1>s, <1>0 DEF Encoder
<1>7. interrupted' = {} => Flag'
  BY <1>t, <1>s, <1>0 DEF Flag, Quiet, Capturing
<1>8. interrupted' = {} /\ ~ EncoderStops => Filled'
  BY <1>t, <1>s, <1>0 DEF Encoder
<1> QED
  BY <1>b, <1>3, <1>4, <1>5, <1>6, <1>7, <1>8 DEF IInv

LEMMA EncSetFlagStep == ASSUME Base, EncSetFlag PROVE Base' /\ (IInv => IInv')
<1>s. UNCHANGED <<yuvSeqNO, active, pNextJob, io, cmd, cap, capBuf, inFrameCount, wrk, left, wrkBuf,
                 session, chan, got, crashed, raced, interrupted>>
  BY DEF EncSetFlag, encRest, svcVars, ioVars, capVars, encVars, wrkVars, ring
<1>0. /\ enc = "flag" /\ captureRunning' = TRUE /\ enc' = "create"
  BY DEF EncSetFlag
<1>n. /\ inFrameCount \in Nat /\ Len(chan) \in Nat /\ yuvSeqNO \in Nat /\ session \in Nat
      /\ MaxSeq \in Nat
  BY Types, Bounds DEF Base
<1>1. Counted' /\ Handled'
  BY <1>s DEF Base, Counted, Handled, Ending
<1>2. TypeOK'
  BY <1>s, <1>0 DEF Base, TypeOK
<1>b. Base'
  BY <1>1, <1>2 DEF Base
<1> SUFFICES ASSUME IInv PROVE IInv'
  BY <1>b
<1>t. /\ TypeOK /\ Lost
      /\ "reader" \notin interrupted => Encoder /\ Capture
      /\ interrupted = {} => Worker /\ Flag
      /\ interrupted = {} /\ ~ EncoderStops => Filled
  BY DEF IInv, Base
<1>3. Lost'
  BY <1>t, <1>s DEF Lost, Ending
<1>4. "reader" \notin interrupted' => Encoder'
  BY <1>t, <1>s, <1>0 DEF Encoder, Starting, Ended
<1>5. "reader" \notin interrupted' => Capture'
  BY <1>t, <1>s, <1>0 DEF Capture, Starting
<1>6. interrupted' = {} => Worker'
  BY <1>t, <1>s, <1>0 DEF Worker, Quiet, Working, Starting
<1>7. interrupted' = {} => Flag'
  BY <1>t, <1>s, <1>0 DEF Encoder, Flag, Quiet, Capturing, Starting
<1>8. interrupted' = {} /\ ~ EncoderStops => Filled'
  BY <1>t, <1>s, <1>0 DEF Filled, Capture, Worker, Working, Starting
<1> QED
  BY <1>b, <1>3, <1>4, <1>5, <1>6, <1>7, <1>8 DEF IInv

LEMMA EncNewCaptureStep == ASSUME Base, EncNewCapture PROVE Base' /\ (IInv => IInv')
<1>s. UNCHANGED <<captureRunning, yuvSeqNO, active, pNextJob, io, cmd, capBuf, inFrameCount, wrk, left,
                 wrkBuf, session, chan, got, raced, interrupted>>
  BY DEF EncNewCapture, encRest, svcVars, ioVars, capVars, encVars, wrkVars, ring
<1>0. /\ enc = "create" /\ cap' = "loop" /\ crashed' = (cap # "none") /\ enc' = "read"
  BY DEF EncNewCapture, NewCaptureThread, Joinable
<1>n. /\ inFrameCount \in Nat /\ Len(chan) \in Nat /\ yuvSeqNO \in Nat /\ session \in Nat
      /\ MaxSeq \in Nat
  BY Types, Bounds DEF Base
<1>1. Counted' /\ Handled'
  BY <1>s, <1>0, <1>n DEF Base, Counted, Counting, Handled, Ending
<1>2. TypeOK'
  BY <1>s, <1>0 DEF Base, TypeOK
<1>b. Base'
  BY <1>1, <1>2 DEF Base
<1> SUFFICES ASSUME IInv PROVE IInv'
  BY <1>b
<1>t. /\ TypeOK /\ Lost
      /\ "reader" \notin interrupted => Encoder /\ Capture
      /\ interrupted = {} => Worker /\ Flag
      /\ interrupted = {} /\ ~ EncoderStops => Filled
  BY DEF IInv, Base
<1>3. Lost'
  BY <1>t, <1>s DEF Lost, Ending
<1>4. "reader" \notin interrupted' => Encoder'
  BY <1>t, <1>s, <1>0 DEF Encoder, Starting, Ended
<1>5. "reader" \notin interrupted' => Capture'
  BY <1>t, <1>s, <1>0 DEF Encoder, Capture, Starting, Ending, Ended
<1>6. interrupted' = {} => Worker'
  BY <1>t, <1>s, <1>0 DEF Worker, Quiet, Starting
<1>7. interrupted' = {} => Flag'
  BY <1>t, <1>s, <1>0 DEF Encoder, Worker, Flag, Quiet, Capturing, Starting
<1>8. interrupted' = {} /\ ~ EncoderStops => Filled'
  BY <1>t, <1>s, <1>0 DEF Filled, Pushing, Encoder, Worker, Working, Starting
<1> QED
  BY <1>b, <1>3, <1>4, <1>5, <1>6, <1>7, <1>8 DEF IInv

LEMMA EncoderQuitsStep == ASSUME Base, EncoderQuits PROVE Base' /\ (IInv => IInv')
<1>s. UNCHANGED <<captureRunning, yuvSeqNO, active, pNextJob, io, cmd, cap, capBuf, inFrameCount, wrk,
                 left, wrkBuf, session, chan, got, crashed, raced, interrupted>>
  BY DEF EncoderQuits, encRest, svcVars, ioVars, capVars, encVars, wrkVars, ring
<1>0. /\ enc = "read" /\ EncoderStops /\ enc' = "ended"
  BY DEF EncoderQuits
<1>n. /\ inFrameCount \in Nat /\ Len(chan) \in Nat /\ yuvSeqNO \in Nat /\ session \in Nat
      /\ MaxSeq \in Nat
  BY Types, Bounds DEF Base
<1>1. Counted' /\ Handled'
  BY <1>s DEF Base, Counted, Handled, Ending
<1>2. TypeOK'
  BY <1>s, <1>0 DEF Base, TypeOK
<1>b. Base'
  BY <1>1, <1>2 DEF Base
<1> SUFFICES ASSUME IInv PROVE IInv'
  BY <1>b
<1>t. /\ TypeOK /\ Lost
      /\ "reader" \notin interrupted => Encoder /\ Capture
      /\ interrupted = {} => Worker /\ Flag
      /\ interrupted = {} /\ ~ EncoderStops => Filled
  BY DEF IInv, Base
<1>3. Lost'
  BY <1>t, <1>s DEF Lost, Ending
<1>4. "reader" \notin interrupted' => Encoder'
  BY <1>t, <1>s, <1>0 DEF Encoder, Starting, Ended
<1>5. "reader" \notin interrupted' => Capture'
  BY <1>t, <1>s, <1>0 DEF Capture, Starting, Ending, Ended
<1>6. interrupted' = {} => Worker'
  BY <1>t, <1>s, <1>0 DEF Worker, Quiet, Starting
<1>7. interrupted' = {} => Flag'
  BY <1>t, <1>s, <1>0 DEF Flag, Quiet, Capturing
<1>8. interrupted' = {} /\ ~ EncoderStops => Filled'
  BY <1>t, <1>s, <1>0
<1> QED
  BY <1>b, <1>3, <1>4, <1>5, <1>6, <1>7, <1>8 DEF IInv

-----------------------------------------------------------------------------
(* The worker *)

LEMMA CheckJobStep == ASSUME Base, CheckJob PROVE Base' /\ (IInv => IInv')
<1>s. UNCHANGED <<captureRunning, yuvSeqNO, active, io, cmd, cap, capBuf, enc, inFrameCount, wrkBuf,
                 session, chan, got, crashed, raced, interrupted>>
  BY DEF CheckJob, wrkRest, svcVars, ioVars, capVars, encVars, wrkVars, ring
<1>0. /\ wrk = "check"
      /\ \/ ~ active /\ wrk' = "exited" /\ left' = left /\ pNextJob' = pNextJob
         \/ active /\ pNextJob = 0 /\ wrk' = "wait" /\ left' = left /\ pNextJob' = pNextJob
         \/ active /\ pNextJob # 0 /\ wrk' = "job" /\ left' = pNextJob /\ pNextJob' = 0
  BY DEF CheckJob
<1>n. /\ inFrameCount \in Nat /\ Len(chan) \in Nat /\ yuvSeqNO \in Nat /\ session \in Nat
      /\ MaxSeq \in Nat
  BY Types, Bounds DEF Base
<1>1. Counted' /\ Handled'
  BY <1>s, <1>0 DEF Base, Counted, Counting, Handled, Ending
<1>2. TypeOK'
  BY <1>s, <1>0, Bounds DEF Base, TypeOK
<1>b. Base'
  BY <1>1, <1>2 DEF Base
<1> SUFFICES ASSUME IInv PROVE IInv'
  BY <1>b
<1>t. /\ TypeOK /\ Lost
      /\ "reader" \notin interrupted => Encoder /\ Capture
      /\ interrupted = {} => Worker /\ Flag
      /\ interrupted = {} /\ ~ EncoderStops => Filled
  BY DEF IInv, Base
<1>3. Lost'
  BY <1>t, <1>s DEF Lost, Ending
<1>4. "reader" \notin interrupted' => Encoder'
  BY <1>t, <1>s DEF Encoder, Starting, Ended
<1>5. "reader" \notin interrupted' => Capture'
  BY <1>t, <1>s DEF Capture, Starting, Ending, Ended
<1>6. interrupted' = {} => Worker'
  BY <1>t, <1>s, <1>0 DEF Worker, Quiet, Working, Starting
<1>7. interrupted' = {} => Flag'
  BY <1>t, <1>s, <1>0 DEF Flag, Quiet, Capturing
<1>8. interrupted' = {} /\ ~ EncoderStops => Filled'
  BY <1>t, <1>s, <1>0 DEF Filled, Pushing, IsNth, Starting
<1> QED
  BY <1>b, <1>3, <1>4, <1>5, <1>6, <1>7, <1>8 DEF IInv

LEMMA SleepStep == ASSUME Base, Sleep PROVE Base' /\ (IInv => IInv')
<1>s. UNCHANGED <<captureRunning, yuvSeqNO, active, pNextJob, io, cmd, cap, capBuf, enc, inFrameCount,
                 left, wrkBuf, session, chan, got, crashed, raced, interrupted>>
  BY DEF Sleep, wrkRest, svcVars, ioVars, capVars, encVars, wrkVars, ring
<1>0. /\ wrk = "wait" /\ wrk' = "asleep"
  BY DEF Sleep
<1>n. /\ inFrameCount \in Nat /\ Len(chan) \in Nat /\ yuvSeqNO \in Nat /\ session \in Nat
      /\ MaxSeq \in Nat
  BY Types, Bounds DEF Base
<1>1. Counted' /\ Handled'
  BY <1>s, <1>0 DEF Base, Counted, Counting, Handled, Ending
<1>2. TypeOK'
  BY <1>s, <1>0 DEF Base, TypeOK
<1>b. Base'
  BY <1>1, <1>2 DEF Base
<1> SUFFICES ASSUME IInv PROVE IInv'
  BY <1>b
<1>t. /\ TypeOK /\ Lost
      /\ "reader" \notin interrupted => Encoder /\ Capture
      /\ interrupted = {} => Worker /\ Flag
      /\ interrupted = {} /\ ~ EncoderStops => Filled
  BY DEF IInv, Base
<1>3. Lost'
  BY <1>t, <1>s DEF Lost, Ending
<1>4. "reader" \notin interrupted' => Encoder'
  BY <1>t, <1>s DEF Encoder, Starting, Ended
<1>5. "reader" \notin interrupted' => Capture'
  BY <1>t, <1>s DEF Capture, Starting, Ending, Ended
<1>6. interrupted' = {} => Worker'
  BY <1>t, <1>s, <1>0 DEF Worker, Quiet, Working
<1>7. interrupted' = {} => Flag'
  BY <1>t, <1>s, <1>0 DEF Flag, Quiet, Capturing
<1>8. interrupted' = {} /\ ~ EncoderStops => Filled'
  BY <1>t, <1>s, <1>0 DEF Filled, Pushing, IsNth, Starting
<1> QED
  BY <1>b, <1>3, <1>4, <1>5, <1>6, <1>7, <1>8 DEF IInv

LEMMA BeginJobStep == ASSUME Base, BeginJob PROVE Base' /\ (IInv => IInv')
<1>s. UNCHANGED <<yuvSeqNO, active, pNextJob, io, cmd, cap, capBuf, enc, inFrameCount, left, wrkBuf,
                 session, chan, got, crashed, raced, interrupted>>
  BY DEF BeginJob, wrkRest, svcVars, ioVars, capVars, encVars, wrkVars, ring
<1>0. /\ wrk = "job" /\ wrk' = "loop" /\ captureRunning' = TRUE
  BY DEF BeginJob
<1>n. /\ inFrameCount \in Nat /\ Len(chan) \in Nat /\ yuvSeqNO \in Nat /\ session \in Nat
      /\ MaxSeq \in Nat
  BY Types, Bounds DEF Base
<1>1. Counted' /\ Handled'
  BY <1>s, <1>0 DEF Base, Counted, Counting, Handled, Ending
<1>2. TypeOK'
  BY <1>s, <1>0 DEF Base, TypeOK
<1>b. Base'
  BY <1>1, <1>2 DEF Base
<1> SUFFICES ASSUME IInv PROVE IInv'
  BY <1>b
<1>t. /\ TypeOK /\ Lost
      /\ "reader" \notin interrupted => Encoder /\ Capture
      /\ interrupted = {} => Worker /\ Flag
      /\ interrupted = {} /\ ~ EncoderStops => Filled
  BY DEF IInv, Base
<1>3. Lost'
  BY <1>t, <1>s DEF Lost, Ending
<1>4. "reader" \notin interrupted' => Encoder'
  BY <1>t, <1>s DEF Encoder, Starting, Ended
<1>5. "reader" \notin interrupted' => Capture'
  BY <1>t, <1>s DEF Capture, Starting, Ending, Ended
<1>6. interrupted' = {} => Worker'
  BY <1>t, <1>s, <1>0 DEF Worker, Quiet, Working, Starting
<1>7. interrupted' = {} => Flag'
  BY <1>t, <1>s, <1>0 DEF Worker, Flag, Quiet, Capturing
<1>8. interrupted' = {} /\ ~ EncoderStops => Filled'
  BY <1>t, <1>s, <1>0 DEF Filled, Pushing, IsNth, Starting
<1> QED
  BY <1>b, <1>3, <1>4, <1>5, <1>6, <1>7, <1>8 DEF IInv

LEMMA CaptureNthStep == ASSUME Base, CaptureNth PROVE Base' /\ (IInv => IInv')
<1>s. UNCHANGED <<captureRunning, yuvSeqNO, active, pNextJob, io, cmd, cap, capBuf, enc, inFrameCount,
                 left, wrkBuf, session, chan, got, crashed, raced, interrupted>>
  BY DEF CaptureNth, wrkRest, svcVars, ioVars, capVars, encVars, wrkVars, ring
<1>0. /\ wrk = "loop" /\ left > 0 /\ captureRunning /\ yuvSeqNO < MaxSeq /\ wrk' = "captured"
  BY DEF CaptureNth, FramesLeft
<1>n. /\ inFrameCount \in Nat /\ Len(chan) \in Nat /\ yuvSeqNO \in Nat /\ session \in Nat
      /\ MaxSeq \in Nat
  BY Types, Bounds DEF Base
<1>1. Counted' /\ Handled'
  BY <1>s, <1>0, <1>n DEF Base, Counted, Counting, Handled, Ending
<1>2. TypeOK'
  BY <1>s, <1>0 DEF Base, TypeOK
<1>b. Base'
  BY <1>1, <1>2 DEF Base
<1> SUFFICES ASSUME IInv PROVE IInv'
  BY <1>b
<1>t. /\ TypeOK /\ Lost
      /\ "reader" \notin interrupted => Encoder /\ Capture
      /\ interrupted = {} => Worker /\ Flag
      /\ interrupted = {} /\ ~ EncoderStops => Filled
  BY DEF IInv, Base
<1>3. Lost'
  BY <1>t, <1>s DEF Lost, Ending
<1>4. "reader" \notin interrupted' => Encoder'
  BY <1>t, <1>s DEF Encoder, Starting, Ended
<1>5. "reader" \notin interrupted' => Capture'
  BY <1>t, <1>s DEF Capture, Starting, Ending, Ended
<1>6. interrupted' = {} => Worker'
  BY <1>t, <1>s, <1>0 DEF Worker, Quiet, Working, Starting
<1>7. interrupted' = {} => Flag'
  BY <1>t, <1>s, <1>0 DEF Flag, Quiet, Capturing
<1>8. interrupted' = {} /\ ~ EncoderStops => Filled'
  BY <1>t, <1>s, <1>0 DEF Filled, Pushing, IsNth, Starting
<1> QED
  BY <1>b, <1>3, <1>4, <1>5, <1>6, <1>7, <1>8 DEF IInv

LEMMA FillNthStep == ASSUME Base, FillNth PROVE Base' /\ (IInv => IInv')
<1>s. UNCHANGED <<captureRunning, active, pNextJob, io, cmd, cap, capBuf, enc, inFrameCount, left,
                 session, chan, got, crashed, interrupted>>
  BY DEF FillNth, wrkRest, svcVars, ioVars, capVars, encVars, wrkVars, ring
<1>0. /\ wrk = "captured" /\ wrk' = "push" /\ yuvSeqNO' = yuvSeqNO + 1
      /\ wrkBuf' = <<session, yuvSeqNO'>> /\ raced' = (cap = "push")
  BY DEF FillNth
<1>n. /\ inFrameCount \in Nat /\ Len(chan) \in Nat /\ yuvSeqNO \in Nat /\ session \in Nat
      /\ MaxSeq \in Nat
  BY Types, Bounds DEF Base
<1>1. Counted' /\ Handled'
  BY <1>s, <1>0, <1>n DEF Base, Counted, Counting, Handled, Ending
<1>2. TypeOK'
  BY <1>s, <1>0, Bounds DEF Base, TypeOK, Frame, Counted, Counting
<1>b. Base'
  BY <1>1, <1>2 DEF Base
<1> SUFFICES ASSUME IInv PROVE IInv'
  BY <1>b
<1>t. /\ TypeOK /\ Lost
      /\ "reader" \notin interrupted => Encoder /\ Capture
      /\ interrupted = {} => Worker /\ Flag
      /\ interrupted = {} /\ ~ EncoderStops => Filled
  BY DEF IInv, Base
<1>3. Lost'
  BY <1>t, <1>s DEF Lost, Ending
<1>4. "reader" \notin interrupted' => Encoder'
  BY <1>t, <1>s DEF Encoder, Starting, Ended
<1>5. "reader" \notin interrupted' => Capture'
  BY <1>t, <1>s DEF Capture, Starting, Ending, Ended
<1>6. interrupted' = {} => Worker'
  BY <1>t, <1>s, <1>0 DEF Worker, Quiet, Working, Starting
<1>7. interrupted' = {} => Flag'
  BY <1>t, <1>s, <1>0 DEF Flag, Quiet, Capturing
<1>e. interrupted = {} /\ ~ EncoderStops =>
        enc = "read" /\ cap # "push" /\ io \notin {"terminator", "joinEnc"}
  BY <1>t, <1>0 DEF Filled, Worker, Flag, Quiet, Working, Capturing
<1>8. interrupted' = {} /\ ~ EncoderStops => Filled'
  BY <1>t, <1>s, <1>0, <1>n, <1>e DEF Filled, Pushing, IsNth, Starting
<1> QED
  BY <1>b, <1>3, <1>4, <1>5, <1>6, <1>7, <1>8 DEF IInv

LEMMA LeaveJobStep == ASSUME Base, LeaveJob PROVE Base' /\ (IInv => IInv')
<1>s. UNCHANGED <<captureRunning, yuvSeqNO, active, pNextJob, io, cmd, cap, capBuf, enc, inFrameCount,
                 wrkBuf, session, chan, got, crashed, raced, interrupted>>
  BY DEF LeaveJob, wrkRest, svcVars, ioVars, capVars, encVars, wrkVars, ring
<1>0. /\ wrk = "loop" /\ wrk' = "done" /\ left' = 0
  BY DEF LeaveJob
<1>n. /\ inFrameCount \in Nat /\ Len(chan) \in Nat /\ yuvSeqNO \in Nat /\ session \in Nat
      /\ MaxSeq \in Nat
  BY Types, Bounds DEF Base
<1>1. Counted' /\ Handled'
  BY <1>s, <1>0 DEF Base, Counted, Counting, Handled, Ending
<1>2. TypeOK'
  BY <1>s, <1>0, Bounds DEF Base, TypeOK
<1>b. Base'
  BY <1>1, <1>2 DEF Base
<1> SUFFICES ASSUME IInv PROVE IInv'
  BY <1>b
<1>t. /\ TypeOK /\ Lost
      /\ "reader" \notin interrupted => Encoder /\ Capture
      /\ interrupted = {} => Worker /\ Flag
      /\ interrupted = {} /\ ~ EncoderStops => Filled
  BY DEF IInv, Base
<1>3. Lost'
  BY <1>t, <1>s DEF Lost, Ending
<1>4. "reader" \notin interrupted' => Encoder'
  BY <1>t, <1>s DEF Encoder, Starting, Ended
<1>5. "reader" \notin interrupted' => Capture'
  BY <1>t, <1>s DEF Capture, Starting, Ending, Ended
<1>6. interrupted' = {} => Worker'
  BY <1>t, <1>s, <1>0 DEF Worker, Quiet, Working, Starting
<1>7. interrupted' = {} => Flag'
  BY <1>t, <1>s, <1>0 DEF Flag, Quiet, Capturing
<1>8. interrupted' = {} /\ ~ EncoderStops => Filled'
  BY <1>t, <1>s, <1>0 DEF Filled, Pushing, IsNth, Starting
<1> QED
  BY <1>b, <1>3, <1>4, <1>5, <1>6, <1>7, <1>8 DEF IInv

LEMMA EndJobStep == ASSUME Base, EndJob PROVE Base' /\ (IInv => IInv')
<1>s. UNCHANGED <<yuvSeqNO, active, pNextJob, io, cmd, cap, capBuf, enc, inFrameCount, left, wrkBuf,
                 session, chan, got, crashed, raced, interrupted>>
  BY DEF EndJob, wrkRest, svcVars, ioVars, capVars, encVars, wrkVars, ring
<1>0. /\ wrk = "done" /\ wrk' = "check" /\ captureRunning' = FALSE
  BY DEF EndJob
<1>n. /\ inFrameCount \in Nat /\ Len(chan) \in Nat /\ yuvSeqNO \in Nat /\ session \in Nat
      /\ MaxSeq \in Nat
  BY Types, Bounds DEF Base
<1>1. Counted' /\ Handled'
  BY <1>s, <1>0 DEF Base, Counted, Counting, Handled, Ending
<1>c. captureRunning' \in BOOLEAN
  BY <1>0
<1>2. TypeOK'
  BY <1>s, <1>0, <1>c DEF Base, TypeOK
<1>b. Base'
  BY <1>1, <1>2 DEF Base
<1> SUFFICES ASSUME IInv PROVE IInv'
  BY <1>b
<1>t. /\ TypeOK /\ Lost
      /\ "reader" \notin interrupted => Encoder /\ Capture
      /\ interrupted = {} => Worker /\ Flag
      /\ interrupted = {} /\ ~ EncoderStops => Filled
  BY DEF IInv, Base
<1>3. Lost'
  BY <1>t, <1>s DEF Lost, Ending
<1>4. "reader" \notin interrupted' => Encoder'
  BY <1>t, <1>s DEF Encoder, Starting, Ended
<1>5. "reader" \notin interrupted' => Capture'
  BY <1>t, <1>s DEF Capture, Starting, Ending, Ended
<1>6. interrupted' = {} => Worker'
  BY <1>t, <1>s, <1>0 DEF Worker, Quiet, Working, Starting
<1>7. interrupted' = {} => Flag'
  BY <1>t, <1>s, <1>0 DEF Worker, Flag, Quiet, Capturing, Starting
<1>8. interrupted' = {} /\ ~ EncoderStops => Filled'
  BY <1>t, <1>s, <1>0 DEF Filled, Pushing, IsNth, Starting
<1> QED
  BY <1>b, <1>3, <1>4, <1>5, <1>6, <1>7, <1>8 DEF IInv

-----------------------------------------------------------------------------
(* The io thread *)

LEMMA PostJobStep == ASSUME Base, PostJob PROVE Base' /\ (IInv => IInv')
<1>s. UNCHANGED <<captureRunning, yuvSeqNO, active, cmd, cap, capBuf, enc, inFrameCount, left, wrkBuf,
                 session, chan, got, crashed, raced, interrupted>>
  BY DEF PostJob, threads, fate, svcVars, ioVars, capVars, encVars, wrkVars, ring
<1>0. /\ io = "post" /\ io' = "idle" /\ pNextJob' \in 1 .. MaxJob
      /\ wrk' = IF wrk = "asleep" THEN "check" ELSE wrk
  BY DEF PostJob, Notify
<1>n. /\ inFrameCount \in Nat /\ Len(chan) \in Nat /\ yuvSeqNO \in Nat /\ session \in Nat
      /\ MaxSeq \in Nat
  BY Types, Bounds DEF Base
<1>1. Counted' /\ Handled'
  BY <1>s, <1>0 DEF Base, Counted, Counting, Handled, Ending
<1>2. TypeOK'
  BY <1>s, <1>0 DEF Base, TypeOK
<1>b. Base'
  BY <1>1, <1>2 DEF Base
<1> SUFFICES ASSUME IInv PROVE IInv'
  BY <1>b
<1>t. /\ TypeOK /\ Lost
      /\ "reader" \notin interrupted => Encoder /\ Capture
      /\ interrupted = {} => Worker /\ Flag
      /\ interrupted = {} /\ ~ EncoderStops => Filled
  BY DEF IInv, Base
<1>3. Lost'
  BY <1>t, <1>s, <1>0 DEF Lost, Ending
<1>4. "reader" \notin interrupted' => Encoder'
  BY <1>t, <1>s, <1>0 DEF Encoder, Ended
<1>5. "reader" \notin interrupted' => Capture'
  BY <1>t, <1>s, <1>0 DEF Capture, Starting, Ending, Ended
<1>6. interrupted' = {} => Worker'
  BY <1>t, <1>s, <1>0 DEF Encoder, Worker, Quiet, Starting
<1>7. interrupted' = {} => Flag'
  BY <1>t, <1>s, <1>0 DEF Flag, Capturing
<1>8. interrupted' = {} /\ ~ EncoderStops => Filled'
  BY <1>t, <1>s, <1>0 DEF Filled, Pushing, IsNth, Starting
<1> QED
  BY <1>b, <1>3, <1>4, <1>5, <1>6, <1>7, <1>8 DEF IInv

LEMMA StopCaptureStep == ASSUME Base, StopCapture PROVE Base' /\ (IInv => IInv')
<1>s. UNCHANGED <<yuvSeqNO, active, pNextJob, cmd, cap, capBuf, enc, inFrameCount, wrk, left, wrkBuf,
                 session, chan, got, crashed, raced, interrupted>>
  BY DEF StopCapture, threads, fate, svcVars, ioVars, capVars, encVars, wrkVars, ring
<1>0. /\ io = "stop" /\ captureRunning' = FALSE /\ io' = "test"
  BY DEF StopCapture, ClearFlag
<1>n. /\ inFrameCount \in Nat /\ Len(chan) \in Nat /\ yuvSeqNO \in Nat /\ session \in Nat
      /\ MaxSeq \in Nat
  BY Types, Bounds DEF Base
<1>1. Counted' /\ Handled'
  BY <1>s, <1>0 DEF Base, Counted, Handled, Ending
<1>c. captureRunning' \in BOOLEAN
  BY <1>0
<1>2. TypeOK'
  BY <1>s, <1>0, <1>c DEF Base, TypeOK
<1>b. Base'
  BY <1>1, <1>2 DEF Base
<1> SUFFICES ASSUME IInv PROVE IInv'
  BY <1>b
<1>t. /\ TypeOK /\ Lost
      /\ "reader" \notin interrupted => Encoder /\ Capture
      /\ interrupted = {} => Worker /\ Flag
      /\ interrupted = {} /\ ~ EncoderStops => Filled
  BY DEF IInv, Base
<1>3. Lost'
  BY <1>t, <1>s, <1>0 DEF Lost
<1>4. "reader" \notin interrupted' => Encoder'
  BY <1>t, <1>s, <1>0 DEF Encoder, Starting, Ended
<1>5. "reader" \notin interrupted' => Capture'
  BY <1>t, <1>s, <1>0 DEF Capture, Starting, Ending, Ended
<1>6. interrupted' = {} => Worker'
  BY <1>t, <1>s, <1>0 DEF Worker, Quiet, Working
<1>7. interrupted' = {} => Flag'
  BY <1>t, <1>s, <1>0 DEF Flag, Quiet, Capturing
<1>8. interrupted' = {} /\ ~ EncoderStops => Filled'
  BY <1>t, <1>s, <1>0 DEF Filled, Pushing, IsNth, Starting
<1> QED
  BY <1>b, <1>3, <1>4, <1>5, <1>6, <1>7, <1>8 DEF IInv

LEMMA IoTestCaptureStep == ASSUME Base, IoTestCapture PROVE Base' /\ (IInv => IInv')
<1>s. UNCHANGED <<captureRunning, yuvSeqNO, active, pNextJob, cmd, cap, capBuf, enc, inFrameCount, wrk,
                 left, wrkBuf, session, chan, got, raced, interrupted>>
  BY DEF IoTestCapture, threads, fate, svcVars, ioVars, capVars, encVars, wrkVars, ring
<1>0. /\ io = "test" /\ io' = (IF cap # "none" THEN "join" ELSE "reset")
      /\ crashed' = (cap # "none" /\ enc = "join")
  BY DEF IoTestCapture, Joinable, JoinsTwice
<1>n. /\ inFrameCount \in Nat /\ Len(chan) \in Nat /\ yuvSeqNO \in Nat /\ session \in Nat
      /\ MaxSeq \in Nat
  BY Types, Bounds DEF Base
<1>1. Counted' /\ Handled'
  BY <1>s, <1>0 DEF Base, Counted, Handled, Ending
<1>2. TypeOK'
  BY <1>s, <1>0 DEF Base, TypeOK
<1>b. Base'
  BY <1>1, <1>2 DEF Base
<1> SUFFICES ASSUME IInv PROVE IInv'
  BY <1>b
<1>t. /\ TypeOK /\ Lost
      /\ "reader" \notin interrupted => Encoder /\ Capture
      /\ interrupted = {} => Worker /\ Flag
      /\ interrupted = {} /\ ~ EncoderStops => Filled
  BY DEF IInv, Base
<1>3. Lost'
  BY <1>t, <1>s, <1>0 DEF Lost
<1>4. "reader" \notin interrupted' => Encoder'
  BY <1>t, <1>s, <1>0 DEF Encoder, Starting, Ended
<1>5. "reader" \notin interrupted' => Capture'
  BY <1>t, <1>s, <1>0 DEF Encoder, Capture, Starting, Ending, Ended
<1>6. interrupted' = {} => Worker'
  BY <1>t, <1>s, <1>0 DEF Worker, Quiet, Working
<1>7. interrupted' = {} => Flag'
  BY <1>t, <1>s, <1>0 DEF Encoder, Worker, Flag, Quiet, Capturing, Starting
<1>8. interrupted' = {} /\ ~ EncoderStops => Filled'
  BY <1>t, <1>s, <1>0 DEF Filled, Pushing, IsNth, Starting
<1> QED
  BY <1>b, <1>3, <1>4, <1>5, <1>6, <1>7, <1>8 DEF IInv

LEMMA IoJoinCaptureStep == ASSUME Base, IoJoinCapture PROVE Base' /\ (IInv => IInv')
<1>s. UNCHANGED <<captureRunning, yuvSeqNO, active, pNextJob, cmd, capBuf, enc, inFrameCount, wrk, left,
                 wrkBuf, session, chan, got, crashed, raced, interrupted>>
  BY DEF IoJoinCapture, threads, fate, svcVars, ioVars, capVars, encVars, wrkVars, ring
<1>0. /\ io = "join" /\ cap = "ended" /\ cap' = "none" /\ io' = "reset"
  BY DEF IoJoinCapture, JoinCapture
<1>n. /\ inFrameCount \in Nat /\ Len(chan) \in Nat /\ yuvSeqNO \in Nat /\ session \in Nat
      /\ MaxSeq \in Nat
  BY Types, Bounds DEF Base
<1>1. Counted' /\ Handled'
  BY <1>s, <1>0 DEF Base, Counted, Counting, Handled, Ending
<1>2. TypeOK'
  BY <1>s, <1>0 DEF Base, TypeOK
<1>b. Base'
  BY <1>1, <1>2 DEF Base
<1> SUFFICES ASSUME IInv PROVE IInv'
  BY <1>b
<1>t. /\ TypeOK /\ Lost
      /\ "reader" \notin interrupted => Encoder /\ Capture
      /\ interrupted = {} => Worker /\ Flag
      /\ interrupted = {} /\ ~ EncoderStops => Filled
  BY DEF IInv, Base
<1>3. Lost'
  BY <1>t, <1>s, <1>0 DEF Lost
<1>4. "reader" \notin interrupted' => Encoder'
  BY <1>t, <1>s, <1>0 DEF Encoder, Starting, Ended
<1>5. "reader" \notin interrupted' => Capture'
  BY <1>t, <1>s, <1>0 DEF Capture
<1>6. interrupted' = {} => Worker'
  BY <1>t, <1>s, <1>0 DEF Worker, Quiet, Working
<1>7. interrupted' = {} => Flag'
  BY <1>t, <1>s, <1>0 DEF Capture, Worker, Flag, Quiet, Capturing, Starting
<1>8. interrupted' = {} /\ ~ EncoderStops => Filled'
  BY <1>t, <1>s, <1>0 DEF Filled, Pushing, IsNth, Starting
<1> QED
  BY <1>b, <1>3, <1>4, <1>5, <1>6, <1>7, <1>8 DEF IInv

LEMMA IoResetCaptureStep == ASSUME Base, IoResetCapture PROVE Base' /\ (IInv => IInv')
<1>s. UNCHANGED <<captureRunning, yuvSeqNO, active, pNextJob, cmd, cap, capBuf, enc, inFrameCount, wrk,
                 left, wrkBuf, session, chan, got, raced, interrupted>>
  BY DEF IoResetCapture, ResetCapture, threads, fate, svcVars, ioVars, capVars, encVars,
     wrkVars, ring
<1>0. /\ io = "reset" /\ crashed' = (cap # "none")
      /\ \/ cmd = "pause" /\ io' = "idle"
         \/ cmd = "start" /\ io' = "flag"
         \/ Ends(cmd) /\ io' = "seq"
  BY DEF IoResetCapture, ResetCapture, Joinable
<1>n. /\ inFrameCount \in Nat /\ Len(chan) \in Nat /\ yuvSeqNO \in Nat /\ session \in Nat
      /\ MaxSeq \in Nat
  BY Types, Bounds DEF Base
<1>1. Counted' /\ Handled'
  BY <1>s, <1>0 DEF Base, Counted, Handled, Ending
<1>2. TypeOK'
  BY <1>s, <1>0 DEF Base, TypeOK
<1>b. Base'
  BY <1>1, <1>2 DEF Base
<1> SUFFICES ASSUME IInv PROVE IInv'
  BY <1>b
<1>t. /\ TypeOK /\ Lost
      /\ "reader" \notin interrupted => Encoder /\ Capture
      /\ interrupted = {} => Worker /\ Flag
      /\ interrupted = {} /\ ~ EncoderStops => Filled
  BY DEF IInv, Base
<1>3. Lost'
  BY <1>t, <1>s, <1>0 DEF Lost, Ending
<1>4. "reader" \notin interrupted' => Encoder'
  BY <1>t, <1>s, <1>0 DEF Encoder, Starting, Ended
<1>5. "reader" \notin interrupted' => Capture'
  BY <1>t, <1>s, <1>0 DEF Capture
<1>6. interrupted' = {} => Worker'
  BY <1>t, <1>s, <1>0 DEF Worker, Quiet, Working
<1>7. interrupted' = {} => Flag'
  BY <1>t, <1>s, <1>0 DEF Capture, Flag, Capturing
<1>8. interrupted' = {} /\ ~ EncoderStops => Filled'
  BY <1>t, <1>s, <1>0 DEF Filled, Pushing, IsNth, Starting
<1> QED
  BY <1>b, <1>3, <1>4, <1>5, <1>6, <1>7, <1>8 DEF IInv

LEMMA ClearSeqNOStep == ASSUME Base, ClearSeqNO PROVE Base' /\ (IInv => IInv')
<1>s. UNCHANGED <<captureRunning, active, pNextJob, cmd, cap, capBuf, enc, inFrameCount, wrk, left,
                 wrkBuf, session, chan, got, crashed, raced, interrupted>>
  BY DEF ClearSeqNO, threads, fate, svcVars, ioVars, capVars, encVars, wrkVars, ring
<1>0. /\ io = "seq" /\ yuvSeqNO' = 0 /\ io' = "terminator"
  BY DEF ClearSeqNO
<1>n. /\ inFrameCount \in Nat /\ Len(chan) \in Nat /\ yuvSeqNO \in Nat /\ session \in Nat
      /\ MaxSeq \in Nat
  BY Types, Bounds DEF Base
<1>1. Counted' /\ Handled'
  BY <1>s, <1>0, <1>n DEF Base, Counted, Counting, Handled, Ending
<1>2. TypeOK'
  BY <1>s, <1>0, Bounds DEF Base, TypeOK
<1>b. Base'
  BY <1>1, <1>2 DEF Base
<1> SUFFICES ASSUME IInv PROVE IInv'
  BY <1>b
<1>t. /\ TypeOK /\ Lost
      /\ "reader" \notin interrupted => Encoder /\ Capture
      /\ interrupted = {} => Worker /\ Flag
      /\ interrupted = {} /\ ~ EncoderStops => Filled
  BY DEF IInv, Base
<1>3. Lost'
  BY <1>t, <1>s, <1>0 DEF Lost, Ending
<1>4. "reader" \notin interrupted' => Encoder'
  BY <1>t, <1>s, <1>0 DEF Encoder, Starting, Ended
<1>5. "reader" \notin interrupted' => Capture'
  BY <1>t, <1>s, <1>0 DEF Capture, Ending
<1>6. interrupted' = {} => Worker'
  BY <1>t, <1>s, <1>0 DEF Worker, Quiet, Working
<1>7. interrupted' = {} => Flag'
  BY <1>t, <1>s, <1>0 DEF Flag, Quiet, Capturing
<1>8. interrupted' = {} /\ ~ EncoderStops => Filled'
  BY <1>t, <1>s, <1>0 DEF Filled, IsNth, Capture, Worker, Quiet, Starting, Ending
<1> QED
  BY <1>b, <1>3, <1>4, <1>5, <1>6, <1>7, <1>8 DEF IInv

LEMMA JoinEncoderStep == ASSUME Base, JoinEncoder PROVE Base' /\ (IInv => IInv')
<1>s. UNCHANGED <<captureRunning, yuvSeqNO, active, pNextJob, cmd, cap, capBuf, inFrameCount, wrk, left,
                 wrkBuf, session, chan, got, raced, interrupted>>
  BY DEF JoinEncoder, threads, fate, svcVars, ioVars, capVars, encVars, wrkVars, ring
<1>0. /\ io = "joinEnc" /\ enc = "ended" /\ enc' = "none" /\ io' = AfterEnd
      /\ crashed' = (io' = "gone" /\ cap # "none")
  BY DEF JoinEncoder, Joinable
<1>n. /\ inFrameCount \in Nat /\ Len(chan) \in Nat /\ yuvSeqNO \in Nat /\ session \in Nat
      /\ MaxSeq \in Nat
  BY Types, Bounds DEF Base
<1>1. Counted' /\ Handled'
  BY <1>s, <1>0 DEF Base, Counted, Handled, Ending, Ends, AfterEnd
<1>2. TypeOK'
  BY <1>s, <1>0 DEF Base, TypeOK, Handled, Ending, Ends, AfterEnd
<1>b. Base'
  BY <1>1, <1>2 DEF Base
<1> SUFFICES ASSUME IInv PROVE IInv'
  BY <1>b
<1>t. /\ TypeOK /\ Lost
      /\ "reader" \notin interrupted => Encoder /\ Capture
      /\ interrupted = {} => Worker /\ Flag
      /\ interrupted = {} /\ ~ EncoderStops => Filled
  BY DEF IInv, Base
<1>3. Lost'
  BY <1>t, <1>s, <1>0 DEF Lost, AfterEnd
<1>4. "reader" \notin interrupted' => Encoder'
  BY <1>t, <1>s, <1>0 DEF Base, Encoder, Starting, Ending, Handled, Ends, AfterEnd
<1>5. "reader" \notin interrupted' => Capture'
  BY <1>t, <1>s, <1>0 DEF Capture, Ending
<1>6. interrupted' = {} => Worker'
  BY <1>t, <1>s, <1>0 DEF Base, Worker, Quiet, Working, Ending, Handled, Ends, AfterEnd
<1>7. interrupted' = {} => Flag'
  BY <1>t, <1>s, <1>0 DEF Base, Flag, Quiet, Capturing, Ending, Handled, Ends, AfterEnd
<1>8. interrupted' = {} /\ ~ EncoderStops => Filled'
  BY <1>t, <1>s, <1>0 DEF Filled, Capture, Worker, Quiet, Starting, Ending
<1> QED
  BY <1>b, <1>3, <1>4, <1>5, <1>6, <1>7, <1>8 DEF IInv

LEMMA LaunchStep == ASSUME Base, Launch PROVE Base' /\ (IInv => IInv')
<1>s. UNCHANGED <<captureRunning, active, pNextJob, cmd, cap, capBuf, wrk, left, wrkBuf, chan, got,
                 crashed, raced, interrupted>>
  BY DEF Launch, threads, fate, svcVars, ioVars, capVars, encVars, wrkVars, ring
<1>0. /\ io = "launch" /\ io' = "idle" /\ yuvSeqNO' = 0 /\ enc' = "parse" /\ inFrameCount' = 0
      /\ session' = session + 1
  BY DEF Launch, ResetSeqNO
<1>n. /\ inFrameCount \in Nat /\ Len(chan) \in Nat /\ yuvSeqNO \in Nat /\ session \in Nat
      /\ MaxSeq \in Nat
  BY Types, Bounds DEF Base
<1>1. Counted' /\ Handled'
  BY <1>s, <1>0, <1>n DEF Base, Counted, Counting, Handled, Ending
<1>2. TypeOK'
  BY <1>s, <1>0, Bounds DEF Base, TypeOK, Handled
<1>b. Base'
  BY <1>1, <1>2 DEF Base
<1> SUFFICES ASSUME IInv PROVE IInv'
  BY <1>b
<1>t. /\ TypeOK /\ Lost
      /\ "reader" \notin interrupted => Encoder /\ Capture
      /\ interrupted = {} => Worker /\ Flag
      /\ interrupted = {} /\ ~ EncoderStops => Filled
  BY DEF IInv, Base
<1>3. Lost'
  BY <1>t, <1>s, <1>0 DEF Base, Lost, Handled
<1>4. "reader" \notin interrupted' => Encoder'
  BY <1>t, <1>s, <1>0 DEF Encoder, Ended
<1>5. "reader" \notin interrupted' => Capture'
  BY <1>t, <1>s, <1>0 DEF Capture, Ended
<1>6. interrupted' = {} => Worker'
  BY <1>t, <1>s, <1>0 DEF Worker, Quiet, Working
<1>7. interrupted' = {} => Flag'
  BY <1>t, <1>s, <1>0 DEF Encoder, Flag, Quiet, Capturing, Ended
<1>8. interrupted' = {} /\ ~ EncoderStops => Filled'
  BY <1>t, <1>s, <1>0 DEF Filled, Encoder, Capture, Worker, Working, Ended
<1> QED
  BY <1>b, <1>3, <1>4, <1>5, <1>6, <1>7, <1>8 DEF IInv

LEMMA StartCaptureStep == ASSUME Base, StartCapture PROVE Base' /\ (IInv => IInv')
<1>s. UNCHANGED <<captureRunning, yuvSeqNO, active, pNextJob, cmd, cap, capBuf, enc, inFrameCount, wrk,
                 left, wrkBuf, session, chan, got, crashed, raced, interrupted>>
  BY DEF StartCapture, threads, fate, svcVars, ioVars, capVars, encVars, wrkVars, ring
<1>0. /\ io = "start" /\ io' = (IF captureRunning THEN "stop" ELSE "flag")
  BY DEF StartCapture
<1>n. /\ inFrameCount \in Nat /\ Len(chan) \in Nat /\ yuvSeqNO \in Nat /\ session \in Nat
      /\ MaxSeq \in Nat
  BY Types, Bounds DEF Base
<1>1. Counted' /\ Handled'
  BY <1>s, <1>0 DEF Base, Counted, Handled, Ending
<1>2. TypeOK'
  BY <1>s, <1>0 DEF Base, TypeOK
<1>b. Base'
  BY <1>1, <1>2 DEF Base
<1> SUFFICES ASSUME IInv PROVE IInv'
  BY <1>b
<1>t. /\ TypeOK /\ Lost
      /\ "reader" \notin interrupted => Encoder /\ Capture
      /\ interrupted = {} => Worker /\ Flag
      /\ interrupted = {} /\ ~ EncoderStops => Filled
  BY DEF IInv, Base
<1>3. Lost'
  BY <1>t, <1>s, <1>0 DEF Lost, Ending
<1>4. "reader" \notin interrupted' => Encoder'
  BY <1>t, <1>s, <1>0 DEF Encoder, Starting, Ended
<1>5. "reader" \notin interrupted' => Capture'
  BY <1>t, <1>s, <1>0 DEF Capture, Starting, Ending, Ended
<1>6. interrupted' = {} => Worker'
  BY <1>t, <1>s, <1>0 DEF Worker, Quiet, Working
<1>7. interrupted' = {} => Flag'
  BY <1>t, <1>s, <1>0 DEF Flag, Capturing
<1>8. interrupted' = {} /\ ~ EncoderStops => Filled'
  BY <1>t, <1>s, <1>0 DEF Filled, Pushing, IsNth, Starting
<1> QED
  BY <1>b, <1>3, <1>4, <1>5, <1>6, <1>7, <1>8 DEF IInv

LEMMA IoSetFlagStep == ASSUME Base, IoSetFlag PROVE Base' /\ (IInv => IInv')
<1>s. UNCHANGED <<yuvSeqNO, active, pNextJob, cmd, cap, capBuf, enc, inFrameCount, wrk, left, wrkBuf,
                 session, chan, got, crashed, raced, interrupted>>
  BY DEF IoSetFlag, threads, fate, svcVars, ioVars, capVars, encVars, wrkVars, ring
<1>0. /\ io = "flag" /\ captureRunning' = TRUE /\ io' = "create"
  BY DEF IoSetFlag
<1>n. /\ inFrameCount \in Nat /\ Len(chan) \in Nat /\ yuvSeqNO \in Nat /\ session \in Nat
      /\ MaxSeq \in Nat
  BY Types, Bounds DEF Base
<1>1. Counted' /\ Handled'
  BY <1>s, <1>0 DEF Base, Counted, Handled, Ending
<1>2. TypeOK'
  BY <1>s, <1>0 DEF Base, TypeOK
<1>b. Base'
  BY <1>1, <1>2 DEF Base
<1> SUFFICES ASSUME IInv PROVE IInv'
  BY <1>b
<1>t. /\ TypeOK /\ Lost
      /\ "reader" \notin interrupted => Encoder /\ Capture
      /\ interrupted = {} => Worker /\ Flag
      /\ interrupted = {} /\ ~ EncoderStops => Filled
  BY DEF IInv, Base
<1>3. Lost'
  BY <1>t, <1>s, <1>0 DEF Lost, Ending
<1>4. "reader" \notin interrupted' => Encoder'
  BY <1>t, <1>s, <1>0 DEF Encoder, Starting, Ended
<1>5. "reader" \notin interrupted' => Capture'
  BY <1>t, <1>s, <1>0 DEF Capture, Starting, Ending, Ended
<1>6. interrupted' = {} => Worker'
  BY <1>t, <1>s, <1>0 DEF Worker, Quiet, Working
<1>7. interrupted' = {} => Flag'
  BY <1>t, <1>s, <1>0 DEF Flag, Capturing
<1>8. interrupted' = {} /\ ~ EncoderStops => Filled'
  BY <1>t, <1>s, <1>0 DEF Filled, Pushing, IsNth, Starting
<1> QED
  BY <1>b, <1>3, <1>4, <1>5, <1>6, <1>7, <1>8 DEF IInv

LEMMA IoNewCaptureStep == ASSUME Base, IoNewCapture PROVE Base' /\ (IInv => IInv')
<1>s. UNCHANGED <<captureRunning, yuvSeqNO, active, pNextJob, cmd, capBuf, enc, inFrameCount, wrk, left,
                 wrkBuf, session, chan, got, raced, interrupted>>
  BY DEF IoNewCapture, threads, fate, svcVars, ioVars, capVars, encVars, wrkVars, ring
<1>0. /\ io = "create" /\ cap' = "loop" /\ crashed' = (cap # "none") /\ io' = "idle"
  BY DEF IoNewCapture, NewCaptureThread, Joinable
<1>n. /\ inFrameCount \in Nat /\ Len(chan) \in Nat /\ yuvSeqNO \in Nat /\ session \in Nat
      /\ MaxSeq \in Nat
  BY Types, Bounds DEF Base
<1>1. Counted' /\ Handled'
  BY <1>s, <1>0, <1>n DEF Base, Counted, Counting, Handled, Ending
<1>2. TypeOK'
  BY <1>s, <1>0 DEF Base, TypeOK
<1>b. Base'
  BY <1>1, <1>2 DEF Base
<1> SUFFICES ASSUME IInv PROVE IInv'
  BY <1>b
<1>t. /\ TypeOK /\ Lost
      /\ "reader" \notin interrupted => Encoder /\ Capture
      /\ interrupted = {} => Worker /\ Flag
      /\ interrupted = {} /\ ~ EncoderStops => Filled
  BY DEF IInv, Base
<1>3. Lost'
  BY <1>t, <1>s, <1>0 DEF Lost, Ending
<1>4. "reader" \notin interrupted' => Encoder'
  BY <1>t, <1>s, <1>0 DEF Encoder, Ended
<1>5. "reader" \notin interrupted' => Capture'
  BY <1>t, <1>s, <1>0 DEF TypeOK, Lost, Encoder, Capture, Flag, Capturing, Starting, Ending,
     Ended
<1>6. interrupted' = {} => Worker'
  BY <1>t, <1>s, <1>0 DEF Worker, Quiet, Working
<1>7. interrupted' = {} => Flag'
  BY <1>t, <1>s, <1>0 DEF Worker, Flag, Quiet, Capturing
<1>8. interrupted' = {} /\ ~ EncoderStops => Filled'
  BY <1>t, <1>s, <1>0 DEF Filled, Pushing, IsNth, Flag, Capturing, Starting
<1> QED
  BY <1>b, <1>3, <1>4, <1>5, <1>6, <1>7, <1>8 DEF IInv

LEMMA TerminateStep == ASSUME Base, Terminate PROVE Base' /\ (IInv => IInv')
<1>s. UNCHANGED <<captureRunning, yuvSeqNO, pNextJob, cmd, cap, capBuf, enc, inFrameCount, left, wrkBuf,
                 session, chan, got, crashed, raced, interrupted>>
  BY DEF Terminate, threads, fate, svcVars, ioVars, capVars, encVars, wrkVars, ring
<1>0. /\ io = "terminate" /\ active' = FALSE /\ io' = "joinWrk"
      /\ wrk' = IF wrk = "asleep" THEN "check" ELSE wrk
  BY DEF Terminate, Notify
<1>n. /\ inFrameCount \in Nat /\ Len(chan) \in Nat /\ yuvSeqNO \in Nat /\ session \in Nat
      /\ MaxSeq \in Nat
  BY Types, Bounds DEF Base
<1>1. Counted' /\ Handled'
  BY <1>s, <1>0 DEF Base, Counted, Counting, Handled, Ends
<1>2. TypeOK'
  BY <1>s, <1>0 DEF Base, TypeOK
<1>b. Base'
  BY <1>1, <1>2 DEF Base
<1> SUFFICES ASSUME IInv PROVE IInv'
  BY <1>b
<1>t. /\ TypeOK /\ Lost
      /\ "reader" \notin interrupted => Encoder /\ Capture
      /\ interrupted = {} => Worker /\ Flag
      /\ interrupted = {} /\ ~ EncoderStops => Filled
  BY DEF IInv, Base
<1>3. Lost'
  BY <1>t, <1>s, <1>0 DEF Lost
<1>4. "reader" \notin interrupted' => Encoder'
  BY <1>t, <1>s, <1>0 DEF Encoder, Starting, Ended
<1>5. "reader" \notin interrupted' => Capture'
  BY <1>t, <1>s, <1>0 DEF Capture, Ended
<1>6. interrupted' = {} => Worker'
  BY <1>t, <1>s, <1>0 DEF Encoder, Worker, Quiet, Working, Starting
<1>7. interrupted' = {} => Flag'
  BY <1>t, <1>s, <1>0 DEF Capture, Flag, Capturing, Ended
<1>8. interrupted' = {} /\ ~ EncoderStops => Filled'
  BY <1>t, <1>s, <1>0 DEF Filled, Encoder, Capture, Worker, Working, Starting, Ended
<1> QED
  BY <1>b, <1>3, <1>4, <1>5, <1>6, <1>7, <1>8 DEF IInv

LEMMA JoinWorkerStep == ASSUME Base, JoinWorker PROVE Base' /\ (IInv => IInv')
<1>s. UNCHANGED <<captureRunning, yuvSeqNO, active, pNextJob, cap, capBuf, enc, inFrameCount, left,
                 wrkBuf, session, chan, got, crashed, raced, interrupted>>
  BY DEF JoinWorker, threads, fate, svcVars, ioVars, capVars, encVars, wrkVars, ring
<1>0. /\ io = "joinWrk" /\ wrk \in {"exited", "off"} /\ wrk' = "off"
      /\ \/ cmd = "quit" /\ io' = "idle" /\ cmd' = cmd
         \/ cmd = "hangup" /\ io' = "stop" /\ cmd' = "destroy"
  BY DEF JoinWorker
<1>n. /\ inFrameCount \in Nat /\ Len(chan) \in Nat /\ yuvSeqNO \in Nat /\ session \in Nat
      /\ MaxSeq \in Nat
  BY Types, Bounds DEF Base
<1>1. Counted' /\ Handled'
  BY <1>s, <1>0 DEF Base, Counted, Counting, Handled, Ends
<1>2. TypeOK'
  BY <1>s, <1>0 DEF Base, TypeOK
<1>b. Base'
  BY <1>1, <1>2 DEF Base
<1> SUFFICES ASSUME IInv PROVE IInv'
  BY <1>b
<1>t. /\ TypeOK /\ Lost
      /\ "reader" \notin interrupted => Encoder /\ Capture
      /\ interrupted = {} => Worker /\ Flag
      /\ interrupted = {} /\ ~ EncoderStops => Filled
  BY DEF IInv, Base
<1>3. Lost'
  BY <1>t, <1>s, <1>0 DEF Lost
<1>4. "reader" \notin interrupted' => Encoder'
  BY <1>t, <1>s, <1>0 DEF Encoder, Starting, Ended
<1>5. "reader" \notin interrupted' => Capture'
  BY <1>t, <1>s, <1>0 DEF Capture, Ended
<1>6. interrupted' = {} => Worker'
  BY <1>t, <1>s, <1>0 DEF Worker, Quiet, Working
<1>7. interrupted' = {} => Flag'
  BY <1>t, <1>s, <1>0 DEF Flag, Quiet, Capturing
<1>8. interrupted' = {} /\ ~ EncoderStops => Filled'
  BY <1>t, <1>s, <1>0 DEF Filled, Encoder, Capture, Starting, Ended
<1> QED
  BY <1>b, <1>3, <1>4, <1>5, <1>6, <1>7, <1>8 DEF IInv

-----------------------------------------------------------------------------
(* The ring *)

LEMMA SendFacts ==
    ASSUME TypeOK, NEW f \in Frame \cup {EmptyBuf}, Ring!Send(f)
    PROVE  /\ chan' \in Seq(Frame \cup {EmptyBuf}) /\ Len(chan') = Len(chan) + 1
           /\ Len(chan') <= YUV_BUFSIZE /\ DOMAIN chan' = 1 .. Len(chan) + 1 /\ chan' # <<>>
           /\ \A i \in 1 .. Len(chan) : chan'[i] = chan[i]
           /\ chan'[Len(chan) + 1] = f
           /\ got' = got
           /\ \A i \in DOMAIN chan' : i \in DOMAIN chan \/ i = Len(chan) + 1
<1>1. chan' = Append(chan, f) /\ Len(chan) < YUV_BUFSIZE /\ got' = got
  BY DEF Ring!Send
<1>2. Len(chan) \in Nat /\ DOMAIN chan = 1 .. Len(chan) /\ chan \in Seq(Frame \cup {EmptyBuf})
  BY Types
<1>3. /\ chan' \in Seq(Frame \cup {EmptyBuf}) /\ Len(chan') = Len(chan) + 1
      /\ \A i \in 1 .. Len(chan) : chan'[i] = chan[i]
      /\ chan'[Len(chan) + 1] = f
  BY <1>1, <1>2, AppendProperties
<1>4. DOMAIN chan' = 1 .. Len(chan) + 1 /\ chan' # <<>>
  BY <1>2, <1>3, LenProperties, EmptySeq
<1>5. Len(chan) + 1 <= YUV_BUFSIZE
  BY <1>1, <1>2, Bounds
<1> QED
  BY <1>1, <1>2, <1>3, <1>4, <1>5

LEMMA ReceiveFacts ==
    ASSUME TypeOK, Ring!Receive("enc")
    PROVE  /\ chan # <<>> /\ chan' \in Seq(Frame \cup {EmptyBuf}) /\ Len(chan') = Len(chan) - 1
           /\ Len(chan) >= 1 /\ Len(chan') <= YUV_BUFSIZE
           /\ \A i \in DOMAIN chan' : i \in Nat /\ i + 1 \in DOMAIN chan /\ chan'[i] = chan[i + 1]
           /\ 1 \in DOMAIN chan /\ got'["enc"] = chan[1]
           /\ got' \in [{"enc"} -> Frame \cup {EmptyBuf}]
           /\ Len(chan) = 1 => chan' = <<>>
<1>1. chan # <<>> /\ chan' = Tail(chan) /\ got' = [got EXCEPT !["enc"] = Head(chan)]
  BY DEF Ring!Receive
<1>2. /\ Len(chan) \in Nat /\ DOMAIN chan = 1 .. Len(chan) /\ chan \in Seq(Frame \cup {EmptyBuf})
      /\ Len(chan) <= YUV_BUFSIZE /\ got \in [{"enc"} -> Frame \cup {EmptyBuf}]
  BY Types DEF TypeOK
<1>3. /\ chan' \in Seq(Frame \cup {EmptyBuf}) /\ Len(chan') = Len(chan) - 1
      /\ \A i \in 1 .. Len(chan) - 1 : chan'[i] = chan[i + 1]
      /\ Head(chan) = chan[1] /\ Len(chan) >= 1
  BY <1>1, <1>2, HeadTailProperties, EmptySeq
<1>4. DOMAIN chan' = 1 .. Len(chan) - 1
  BY <1>3, LenProperties
<1>5. 1 \in DOMAIN chan /\ chan[1] \in Frame \cup {EmptyBuf}
  BY <1>2, <1>3, ElementOfSeq
<1>6. Len(chan') <= YUV_BUFSIZE
  BY <1>2, <1>3, Bounds
<1>7. Len(chan) = 1 => chan' = <<>>
  BY <1>3, EmptySeq
<1>8. \A i \in DOMAIN chan' : i \in Nat /\ i + 1 \in DOMAIN chan /\ chan'[i] = chan[i + 1]
  BY <1>2, <1>3, <1>4
<1>9. got'["enc"] = chan[1] /\ got' \in [{"enc"} -> Frame \cup {EmptyBuf}]
  BY <1>1, <1>2, <1>3, <1>5
<1> QED
  BY <1>1, <1>3, <1>5, <1>6, <1>7, <1>8, <1>9

\* No captured frame is taken for the empty buffer.
LEMMA FrameIsNotEmpty == \A s, n : n \in Nat /\ n > 0 => <<s, n>> # EmptyBuf
BY DEF EmptyBuf

LEMMA PushFrameStep == ASSUME Base, PushFrame PROVE Base' /\ (IInv => IInv')
<1>s. UNCHANGED <<captureRunning, yuvSeqNO, active, pNextJob, io, cmd, capBuf, enc, inFrameCount,
                 wrk, left, wrkBuf, session, crashed, raced, interrupted>>
  BY DEF PushFrame, capRest, svcVars, ioVars, encVars, wrkVars
<1>0. cap = "push" /\ cap' = "loop" /\ Ring!Send(capBuf)
  BY DEF PushFrame
<1>c. capBuf \in Frame \cup {EmptyBuf}
  BY DEF Base, TypeOK
<1>f. /\ chan' \in Seq(Frame \cup {EmptyBuf}) /\ Len(chan') = Len(chan) + 1
      /\ Len(chan') <= YUV_BUFSIZE /\ chan' # <<>>
      /\ \A i \in 1 .. Len(chan) : chan'[i] = chan[i]
      /\ chan'[Len(chan) + 1] = capBuf
      /\ got' = got
      /\ \A i \in DOMAIN chan' : i \in DOMAIN chan \/ i = Len(chan) + 1
  BY <1>c, <1>0, SendFacts DEF Base
<1>n. /\ inFrameCount \in Nat /\ Len(chan) \in Nat /\ yuvSeqNO \in Nat /\ left \in Nat
      /\ MaxJob \in Nat
  BY Types, Bounds DEF Base
<1>1. Counted' /\ Handled'
  BY <1>s, <1>0 DEF Base, Counted, Counting, Handled, Ending
<1>2. TypeOK'
  BY <1>s, <1>0, <1>f DEF Base, TypeOK
<1>b. Base'
  BY <1>1, <1>2 DEF Base
<1> SUFFICES ASSUME IInv PROVE IInv'
  BY <1>b
<1>t. /\ TypeOK /\ Lost
      /\ "reader" \notin interrupted => Encoder /\ Capture
      /\ interrupted = {} => Worker /\ Flag
      /\ interrupted = {} /\ ~ EncoderStops => Filled
  BY DEF IInv, Base
<1>3. Lost'
  BY <1>t, <1>s DEF Lost, Ending
<1>4. "reader" \notin interrupted' => Encoder'
  BY <1>t, <1>s DEF Encoder, Starting, Ended
<1>5. "reader" \notin interrupted' => Capture'
  BY <1>t, <1>s, <1>0 DEF Capture, Starting, Ending, Ended
<1>6. interrupted' = {} => Worker'
  BY <1>t, <1>s DEF Worker, Quiet, Working, Starting
<1>7. interrupted' = {} => Flag'
  BY <1>t, <1>s, <1>0 DEF Flag, Quiet, Capturing
<1>8. interrupted' = {} /\ ~ EncoderStops => Filled'
  <2> SUFFICES ASSUME interrupted = {}, ~ EncoderStops PROVE Filled'
    BY <1>s
  <2>1. Filled /\ wrk # "push" /\ io \notin {"terminator", "joinEnc"} /\ ~ Starting /\ enc # "none"
    BY <1>t, <1>0 DEF Lost, Encoder, Capture, Worker, Flag, Quiet, Working, Capturing,
       Starting, Ending, Ended
  <2>2. enc = "read"
    BY <1>t, <2>1 DEF Filled, TypeOK, Starting, Encoder
  <2>3. IsNth(capBuf, yuvSeqNO) /\ yuvSeqNO = inFrameCount + Len(chan) + 1
    BY <1>0, <2>1, <2>2 DEF Filled, Pushing
  <2>4. inFrameCount \in Nat /\ Len(chan) \in Nat /\ DOMAIN chan = 1 .. Len(chan)
    BY <1>t, Types
  <2>5. yuvSeqNO = inFrameCount + (Len(chan) + 1) /\ yuvSeqNO' = inFrameCount' + Len(chan') + 0
    BY <1>s, <1>f, <2>3, <2>4
  <2>6. \A i \in DOMAIN chan' : chan'[i] = <<session, inFrameCount + i>>
    BY <1>f, <2>1, <2>2, <2>3, <2>4, <2>5 DEF Filled, IsNth
  <2>7. Pushing' = 0
    BY <1>s, <1>0, <2>1 DEF Pushing
  <2> QED
    BY <1>s, <1>0, <1>f, <2>1, <2>2, <2>5, <2>6, <2>7 DEF Filled, IsNth, Starting
<1> QED
  BY <1>b, <1>3, <1>4, <1>5, <1>6, <1>7, <1>8 DEF IInv

LEMMA PushNthStep == ASSUME Base, PushNth PROVE Base' /\ (IInv => IInv')
<1>s. UNCHANGED <<captureRunning, yuvSeqNO, active, pNextJob, io, cmd, cap, capBuf, enc,
                 inFrameCount, wrkBuf, session, crashed, raced, interrupted>>
  BY DEF PushNth, wrkRest, svcVars, ioVars, capVars, encVars
<1>0. wrk = "push" /\ wrk' = "loop" /\ Ring!Send(wrkBuf) /\ left' = left - 1
  BY DEF PushNth
<1>c. wrkBuf \in Frame \cup {EmptyBuf}
  BY DEF Base, TypeOK
<1>f. /\ chan' \in Seq(Frame \cup {EmptyBuf}) /\ Len(chan') = Len(chan) + 1
      /\ Len(chan') <= YUV_BUFSIZE /\ chan' # <<>>
      /\ \A i \in 1 .. Len(chan) : chan'[i] = chan[i]
      /\ chan'[Len(chan) + 1] = wrkBuf
      /\ got' = got
      /\ \A i \in DOMAIN chan' : i \in DOMAIN chan \/ i = Len(chan) + 1
  BY <1>c, <1>0, SendFacts DEF Base
<1>n. /\ inFrameCount \in Nat /\ Len(chan) \in Nat /\ yuvSeqNO \in Nat /\ left \in Nat
      /\ MaxJob \in Nat
  BY Types, Bounds DEF Base
<1>1. Counted' /\ Handled'
  BY <1>s, <1>0 DEF Base, Counted, Counting, Handled, Ending
<1>2. TypeOK'
  BY <1>s, <1>0, <1>f, <1>n DEF Base, TypeOK, Counted
<1>b. Base'
  BY <1>1, <1>2 DEF Base
<1> SUFFICES ASSUME IInv PROVE IInv'
  BY <1>b
<1>t. /\ TypeOK /\ Lost
      /\ "reader" \notin interrupted => Encoder /\ Capture
      /\ interrupted = {} => Worker /\ Flag
      /\ interrupted = {} /\ ~ EncoderStops => Filled
  BY DEF IInv, Base
<1>3. Lost'
  BY <1>t, <1>s DEF Lost, Ending
<1>4. "reader" \notin interrupted' => Encoder'
  BY <1>t, <1>s DEF Encoder, Starting, Ended
<1>5. "reader" \notin interrupted' => Capture'
  BY <1>t, <1>s DEF Capture, Starting, Ending, Ended
<1>6. interrupted' = {} => Worker'
  BY <1>t, <1>s, <1>0 DEF Worker, Quiet, Working, Starting
<1>7. interrupted' = {} => Flag'
  BY <1>t, <1>s, <1>0 DEF Flag, Quiet, Capturing
<1>8. interrupted' = {} /\ ~ EncoderStops => Filled'
  <2> SUFFICES ASSUME interrupted = {}, ~ EncoderStops PROVE Filled'
    BY <1>s
  <2>1. Filled /\ cap # "push" /\ io \notin {"terminator", "joinEnc"} /\ ~ Starting /\ enc # "none"
    BY <1>t, <1>0 DEF Lost, Encoder, Capture, Worker, Flag, Quiet, Working, Capturing,
       Starting, Ending, Ended
  <2>2. enc = "read"
    BY <1>t, <2>1 DEF Filled, TypeOK, Starting, Encoder
  <2>3. IsNth(wrkBuf, yuvSeqNO) /\ yuvSeqNO = inFrameCount + Len(chan) + 1
    BY <1>0, <2>1, <2>2 DEF Filled, Pushing
  <2>4. inFrameCount \in Nat /\ Len(chan) \in Nat /\ DOMAIN chan = 1 .. Len(chan)
    BY <1>t, Types
  <2>5. yuvSeqNO = inFrameCount + (Len(chan) + 1) /\ yuvSeqNO' = inFrameCount' + Len(chan') + 0
    BY <1>s, <1>f, <2>3, <2>4
  <2>6. \A i \in DOMAIN chan' : chan'[i] = <<session, inFrameCount + i>>
    BY <1>f, <2>1, <2>2, <2>3, <2>4, <2>5 DEF Filled, IsNth
  <2>7. Pushing' = 0
    BY <1>s, <1>0, <2>1 DEF Pushing
  <2> QED
    BY <1>s, <1>0, <1>f, <2>1, <2>2, <2>5, <2>6, <2>7 DEF Filled, IsNth, Starting
<1> QED
  BY <1>b, <1>3, <1>4, <1>5, <1>6, <1>7, <1>8 DEF IInv

LEMMA PushTerminatorStep == ASSUME Base, PushTerminator PROVE Base' /\ (IInv => IInv')
<1>s. UNCHANGED <<captureRunning, yuvSeqNO, active, pNextJob, cmd, cap, capBuf, enc,
                 inFrameCount, wrk, left, wrkBuf, session, interrupted>>
  BY DEF PushTerminator, threads, svcVars, capVars, encVars, wrkVars
<1>0. io = "terminator" /\ Ends(cmd)
  BY DEF PushTerminator, Base, Handled, Ending
<1>i. \/ enc = "none" /\ io' = AfterEnd /\ chan' = chan /\ got' = got /\ raced' = raced
      \/ /\ enc # "none" /\ io' = "joinEnc" /\ Ring!Send(EmptyBuf)
         /\ raced' = ("push" \in {cap, wrk})
  BY DEF PushTerminator, SendEmpty, ring
<1>c. crashed' = (io' = "gone" /\ cap # "none")
  BY DEF PushTerminator, Joinable
<1>r. crashed' \in BOOLEAN /\ raced' \in BOOLEAN
  <2>1. raced \in BOOLEAN
    BY DEF Base, TypeOK
  <2>2. raced' \in BOOLEAN
    <3>1. CASE raced' = raced
      BY <2>1, <3>1
    <3>2. CASE raced' = ("push" \in {cap, wrk})
      BY <3>2
    <3> QED
      BY <1>i, <3>1, <3>2
  <2>3. crashed' \in BOOLEAN
    BY <1>c
  <2> QED
    BY <2>2, <2>3
<1>a. AfterEnd \in {"launch", "terminate", "gone"} /\ (AfterEnd = "launch" <=> cmd = "x265")
      /\ (AfterEnd = "terminate" <=> cmd \in {"quit", "hangup"})
  BY <1>0 DEF AfterEnd, Ends
<1>f. enc # "none" =>
        /\ chan' \in Seq(Frame \cup {EmptyBuf}) /\ Len(chan') = Len(chan) + 1
        /\ Len(chan') <= YUV_BUFSIZE /\ chan' # <<>>
        /\ \A i \in 1 .. Len(chan) : chan'[i] = chan[i]
        /\ chan'[Len(chan) + 1] = EmptyBuf
        /\ got' = got
        /\ \A i \in DOMAIN chan' : i \in DOMAIN chan \/ i = Len(chan) + 1
  <2>1. EmptyBuf \in Frame \cup {EmptyBuf}
    OBVIOUS
  <2> QED
    BY <1>i, <2>1, SendFacts DEF Base
<1>j. \/ io' = "joinEnc" /\ enc # "none"
      \/ io' \in {"launch", "terminate", "gone"} /\ enc = "none"
  BY <1>i, <1>a
<1>1. Counted' /\ Handled'
  BY <1>s, <1>0, <1>i, <1>a DEF Base, Counted, Handled, Ending
<1>2. TypeOK'
  BY <1>s, <1>r, <1>i, <1>j, <1>f DEF Base, TypeOK
<1>b. Base'
  BY <1>1, <1>2 DEF Base
<1> SUFFICES ASSUME IInv PROVE IInv'
  BY <1>b
<1>t. /\ TypeOK /\ Lost
      /\ "reader" \notin interrupted => Encoder /\ Capture
      /\ interrupted = {} => Worker /\ Flag
      /\ interrupted = {} /\ ~ EncoderStops => Filled
  BY DEF IInv, Base
<1>3. Lost'
  BY <1>t, <1>s, <1>a, <1>i DEF Lost, Ending
<1>4. "reader" \notin interrupted' => Encoder'
  BY <1>t, <1>s, <1>0, <1>j DEF TypeOK, Encoder, Starting, Ended
<1>5. "reader" \notin interrupted' => Capture'
  BY <1>t, <1>s, <1>0, <1>c DEF Capture, Ending
<1>6. interrupted' = {} => Worker'
  BY <1>t, <1>s, <1>0, <1>j DEF Worker, Quiet, Working
<1>7. interrupted' = {} => Flag'
  BY <1>t, <1>s, <1>0, <1>i, <1>j DEF Capture, Worker, Flag, Quiet, Capturing, Ending
<1>8. interrupted' = {} /\ ~ EncoderStops => Filled'
  <2> SUFFICES ASSUME interrupted = {}, ~ EncoderStops PROVE Filled'
    BY <1>s
  <2>1. Filled /\ enc # "ended" /\ wrk # "push" /\ cap = "none" /\ ~ Starting
    BY <1>t, <1>0 DEF Filled, Encoder, Capture, Worker, Quiet, Ending
  <2>2. CASE enc = "none"
    BY <1>s, <1>0, <1>i, <2>1, <2>2 DEF Filled, IsNth, Starting
  <2>3. CASE enc = "read"
    <3>1. Len(chan) \in Nat /\ DOMAIN chan = 1 .. Len(chan)
      BY <1>t, Types
    <3>2. \A i \in DOMAIN chan : IsNth(chan[i], inFrameCount + i) /\ i # Len(chan) + 1
      BY <1>0, <2>1, <2>3, <3>1 DEF Filled
    <3>3. \A i \in DOMAIN chan' :
            IF i = Len(chan') THEN chan'[i] = EmptyBuf ELSE IsNth(chan'[i], inFrameCount + i)
      BY <1>f, <2>3, <3>1, <3>2
    <3>4. io' = "joinEnc" /\ chan' # <<>>
      BY <1>i, <1>f, <2>3
    <3> QED
      BY <1>s, <1>0, <1>f, <2>1, <2>3, <3>3, <3>4 DEF Filled, IsNth, Starting
  <2>4. enc \in {"none", "read"}
    BY <1>t, <2>1 DEF Encoder, Starting, TypeOK
  <2> QED
    BY <2>2, <2>3, <2>4
<1> QED
  BY <1>b, <1>3, <1>4, <1>5, <1>6, <1>7, <1>8 DEF IInv

\* What the encoder reads: the next frame of its session, or the empty buffer
\* that the io thread waits for.
LEMMA ReadFacts ==
    ASSUME TypeOK, Filled, enc = "read", Ring!Receive("enc")
    PROVE  \/ /\ got'["enc"] = <<session, inFrameCount + 1>> /\ got'["enc"] # EmptyBuf
              /\ ~ (io = "joinEnc" /\ Len(chan) = 1)
           \/ /\ got'["enc"] = EmptyBuf
              /\ io = "joinEnc" /\ Len(chan) = 1 /\ chan' = <<>>
<1>1. 1 \in DOMAIN chan /\ got'["enc"] = chan[1] /\ (Len(chan) = 1 => chan' = <<>>)
  BY ReceiveFacts
<1>2. inFrameCount \in Nat
  BY DEF TypeOK
<1>3. <<session, inFrameCount + 1>> # EmptyBuf
  BY <1>2, FrameIsNotEmpty
<1>4. IF io = "joinEnc" /\ 1 = Len(chan) THEN chan[1] = EmptyBuf
      ELSE chan[1] = <<session, inFrameCount + 1>>
  BY <1>1 DEF Filled, IsNth
<1> QED
  BY <1>1, <1>3, <1>4

LEMMA ReadPictureStep == ASSUME Base, ReadPicture PROVE Base' /\ (IInv => IInv')
<1>s. UNCHANGED <<captureRunning, yuvSeqNO, active, pNextJob, io, cmd, cap, capBuf,
                 wrk, left, wrkBuf, session, crashed, raced, interrupted>>
  BY DEF ReadPicture, encRest, svcVars, ioVars, capVars, wrkVars
<1>0. /\ enc = "read" /\ Ring!Receive("enc")
      /\ \/ got'["enc"] # EmptyBuf /\ inFrameCount' = inFrameCount + 1 /\ enc' = enc
         \/ got'["enc"] = EmptyBuf /\ enc' = "ended" /\ inFrameCount' = inFrameCount
  BY DEF ReadPicture
<1>f. /\ chan # <<>> /\ chan' \in Seq(Frame \cup {EmptyBuf}) /\ Len(chan') = Len(chan) - 1
      /\ Len(chan) >= 1 /\ Len(chan') <= YUV_BUFSIZE
      /\ \A i \in DOMAIN chan' : i \in Nat /\ i + 1 \in DOMAIN chan /\ chan'[i] = chan[i + 1]
      /\ got' \in [{"enc"} -> Frame \cup {EmptyBuf}]
  BY <1>0, ReceiveFacts DEF Base
<1>n. inFrameCount \in Nat /\ inFrameCount' \in Nat
  BY <1>0 DEF Base, TypeOK
<1>1. Counted' /\ Handled'
  BY <1>s DEF Base, Counted, Handled, Ending
<1>2. TypeOK'
  BY <1>s, <1>0, <1>f DEF Base, TypeOK
<1>b. Base'
  BY <1>1, <1>2 DEF Base
<1> SUFFICES ASSUME IInv PROVE IInv'
  BY <1>b
<1>t. /\ TypeOK /\ Lost
      /\ "reader" \notin interrupted => Encoder /\ Capture
      /\ interrupted = {} => Worker /\ Flag
      /\ interrupted = {} /\ ~ EncoderStops => Filled
  BY DEF IInv, Base
<1>3. Lost'
  BY <1>t, <1>s DEF Lost, Ending
<1>4. "reader" \notin interrupted' => Encoder'
  BY <1>t, <1>s, <1>0 DEF Encoder, Starting, Ended
<1>5. "reader" \notin interrupted' => Capture'
  BY <1>t, <1>s, <1>0 DEF Capture, Starting, Ending, Ended
<1>6. interrupted' = {} => Worker'
  BY <1>t, <1>s, <1>0 DEF Worker, Quiet, Starting
<1>7. interrupted' = {} => Flag'
  BY <1>t, <1>s, <1>0 DEF Flag, Quiet, Capturing
<1>8. interrupted' = {} /\ ~ EncoderStops => Filled'
  <2> SUFFICES ASSUME interrupted = {}, ~ EncoderStops PROVE Filled'
    BY <1>s
  <2>0. Filled
    BY <1>t
  <2>1. CASE got'["enc"] = EmptyBuf
    <3>1. io = "joinEnc" /\ chan' = <<>> /\ enc' = "ended"
      BY <1>t, <1>0, <2>0, <2>1, ReadFacts
    <3> QED
      BY <1>s, <2>0, <3>1 DEF Filled, IsNth, Starting
  <2>2. CASE got'["enc"] # EmptyBuf
    <3>1. /\ got'["enc"] = <<session, inFrameCount + 1>> /\ ~ (io = "joinEnc" /\ Len(chan) = 1)
          /\ inFrameCount' = inFrameCount + 1 /\ enc' = "read"
      BY <1>t, <1>0, <2>0, <2>2, ReadFacts
    <3>2. inFrameCount \in Nat /\ Len(chan) \in Nat
      BY <1>t, Types
    <3>3. io = "joinEnc" => chan' # <<>>
      <4>1. io = "joinEnc" => Len(chan') # 0
        BY <1>f, <3>1, <3>2
      <4> QED
        BY <1>f, <4>1, EmptySeq
    <3>4. \A i \in DOMAIN chan' :
            IF io = "joinEnc" /\ i = Len(chan') THEN chan'[i] = EmptyBuf
                                               ELSE chan'[i] = <<session, inFrameCount' + i>>
      <4>1. \A i \in DOMAIN chan' : (i = Len(chan') <=> i + 1 = Len(chan))
                                     /\ inFrameCount + (i + 1) = inFrameCount' + i
        <5> SUFFICES ASSUME NEW i \in DOMAIN chan'
                     PROVE  /\ i = Len(chan') <=> i + 1 = Len(chan)
                            /\ inFrameCount + (i + 1) = inFrameCount' + i
          OBVIOUS
        <5>1. i \in Nat
          BY <1>f
        <5>2. Len(chan') = Len(chan) - 1 /\ inFrameCount' = inFrameCount + 1
          BY <1>f, <3>1
        <5> QED
          BY <3>2, <5>1, <5>2
      <4> QED
        BY <1>0, <1>f, <2>0, <4>1 DEF Filled, IsNth
    <3>5. io \notin {"terminator", "joinEnc"} => yuvSeqNO = inFrameCount' + Len(chan') + Pushing
      <4>1. io \notin {"terminator", "joinEnc"} => yuvSeqNO = inFrameCount + Len(chan) + Pushing
        BY <1>0, <2>0 DEF Filled
      <4>2. Pushing \in Nat
        BY DEF Pushing
      <4> QED
        BY <1>f, <3>1, <3>2, <4>1, <4>2
    <3>6. Pushing' = Pushing
      BY <1>s DEF Pushing
    <3> QED
      BY <1>s, <1>0, <2>0, <3>1, <3>3, <3>4, <3>5, <3>6 DEF Filled, IsNth, Starting
  <2> QED
    BY <2>1, <2>2
<1> QED
  BY <1>b, <1>3, <1>4, <1>5, <1>6, <1>7, <1>8 DEF IInv

-----------------------------------------------------------------------------
(* A command that is typed at rest, and a lost connection *)

LEMMA CommandTypes == ASSUME Base, NEW c \in Commands, Command(c) PROVE Base'
<1>s. UNCHANGED <<captureRunning, yuvSeqNO, active, pNextJob, cap, capBuf, enc, inFrameCount,
                 wrk, left, wrkBuf, session, chan, got, crashed, raced, interrupted>>
  BY DEF Command, threads, fate, svcVars, capVars, encVars, wrkVars, ring
<1>0. /\ io = "idle" /\ cmd' = c /\ (c = "x265" => session < MaxSessions)
      /\ io' \in {"idle", "stop", "launch", "start", "post"}
      /\ io' = "stop" => c \in {"pause", "quit", "x265"}
      /\ io' = "launch" => c = "x265"
      /\ io' = "start" => c = "start"
  BY DEF Command
<1>1. Counted' /\ Handled'
  BY <1>s, <1>0 DEF Base, Counted, Handled, Ending, Ends
<1>2. TypeOK'
  BY <1>s, <1>0 DEF Base, TypeOK
<1> QED
  BY <1>1, <1>2 DEF Base

LEMMA CommandStep ==
    ASSUME IInv, Disciplined, NEW c \in Commands, Command(c)
    PROVE  IInv'
<1>s. UNCHANGED <<captureRunning, yuvSeqNO, active, pNextJob, cap, capBuf, enc, inFrameCount,
                 wrk, left, wrkBuf, session, chan, got, crashed, raced, interrupted>>
  BY DEF Command, threads, fate, svcVars, capVars, encVars, wrkVars, ring
<1>g. GoingOn = {}
  BY DEF Command, Documented
<1>0. /\ io = "idle" /\ Quiet /\ enc \in {"none", "read", "ended"}
      /\ c \in {"pause", "start", "n", "quit"} => enc \in {"read", "ended"}
  BY <1>g DEF Command, Documented, GoingOn, Quiet
<1>i. /\ cmd' = c
      /\ \/ c \in {"pause", "quit"} /\ io' = "stop"
         \/ c = "x265" /\ io' = IF enc # "none" THEN "stop" ELSE "launch"
         \/ c = "start" /\ io' = IF captureRunning THEN "idle" ELSE "start"
         \/ c = "n" /\ io' = IF captureRunning THEN "idle" ELSE "post"
  BY DEF Command, Refused, Encoding
<1>j. /\ io' \in {"idle", "stop", "launch", "start", "post"}
      /\ io' = "stop" => c \in {"pause", "quit", "x265"}
      /\ io' = "launch" => c = "x265" /\ enc = "none"
      /\ io' \in {"start", "post"} => ~ captureRunning /\ enc \in {"read", "ended"}
  BY <1>0, <1>i
<1>b. Base'
  BY CommandTypes DEF IInv
<1>t. /\ TypeOK /\ Lost
      /\ "reader" \notin interrupted => Encoder /\ Capture
      /\ interrupted = {} => Worker /\ Flag
      /\ interrupted = {} /\ ~ EncoderStops => Filled
  BY DEF IInv, Base
<1>l. interrupted = {}
  BY <1>t, <1>0 DEF Lost, Ending
<1>c. ~ captureRunning => ~ Capturing
  BY <1>t, <1>l, <1>0 DEF Flag
<1>3. Lost'
  BY <1>t, <1>l, <1>s DEF Lost
<1>4. Encoder'
  BY <1>t, <1>s, <1>0, <1>i DEF Encoder, Starting, Ended
<1>5. Capture'
  BY <1>t, <1>l, <1>s, <1>j DEF Capture, Starting, Ending, Ended
<1>6. Worker'
  BY <1>t, <1>l, <1>s, <1>0, <1>j DEF Worker, Quiet, Working
<1>7. Flag'
  BY <1>t, <1>l, <1>s, <1>0, <1>j DEF Flag, Quiet, Capturing
<1>8. ~ EncoderStops => Filled'
  BY <1>t, <1>l, <1>s, <1>0, <1>j DEF Filled, Starting, IsNth, Pushing
<1> QED
  BY <1>b, <1>3, <1>4, <1>5, <1>6, <1>7, <1>8 DEF IInv

LEMMA HangupStep == ASSUME Base, Hangup PROVE Base' /\ (IInv => IInv')
<1>s. UNCHANGED <<captureRunning, yuvSeqNO, active, pNextJob, cap, capBuf, enc, inFrameCount,
                 wrk, left, wrkBuf, session, chan, got, crashed, raced>>
  BY DEF Hangup, threads, svcVars, capVars, encVars, wrkVars, ring
<1>0. io = "idle" /\ io' = "stop" /\ cmd' = "hangup" /\ interrupted' = GoingOn
  BY DEF Hangup
<1>g. /\ GoingOn \subseteq {"reader", "job"}
      /\ "reader" \notin GoingOn => enc \in {"none", "read", "ended"}
      /\ GoingOn = {} => enc \in {"none", "read", "ended"} /\ Quiet
  BY DEF GoingOn, Quiet
<1>1. Counted' /\ Handled'
  BY <1>s, <1>0 DEF Base, Counted, Handled, Ends
<1>2. TypeOK'
  BY <1>s, <1>0, <1>g DEF Base, TypeOK
<1>b. Base'
  BY <1>1, <1>2 DEF Base
<1> SUFFICES ASSUME IInv PROVE IInv'
  BY <1>b
<1>t. /\ TypeOK /\ Lost
      /\ "reader" \notin interrupted => Encoder /\ Capture
      /\ interrupted = {} => Worker /\ Flag
      /\ interrupted = {} /\ ~ EncoderStops => Filled
  BY DEF IInv, Base
<1>l. interrupted = {}
  BY <1>t, <1>0 DEF Lost, Ending
<1>3. Lost'
  BY <1>t, <1>s, <1>0 DEF Lost
<1>4. "reader" \notin interrupted' => Encoder'
  BY <1>t, <1>s, <1>0, <1>g DEF Encoder, Starting, Ended
<1>5. "reader" \notin interrupted' => Capture'
  BY <1>t, <1>l, <1>s, <1>0 DEF Capture, Starting, Ending, Ended
<1>6. interrupted' = {} => Worker'
  BY <1>t, <1>l, <1>s, <1>0, <1>g DEF Worker, Quiet, Working
<1>7. interrupted' = {} => Flag'
  BY <1>t, <1>l, <1>s, <1>0 DEF Flag, Quiet, Capturing
<1>8. interrupted' = {} /\ ~ EncoderStops => Filled'
  BY <1>t, <1>l, <1>s, <1>0 DEF Filled, Starting, IsNth, Pushing
<1> QED
  BY <1>b, <1>3, <1>4, <1>5, <1>6, <1>7, <1>8 DEF IInv

-----------------------------------------------------------------------------
(* The invariant holds, and with it what the runs check *)

LEMMA InvInit == Init => IInv /\ Meant
<1> SUFFICES ASSUME Init PROVE IInv /\ Meant
  OBVIOUS
<1>0. /\ captureRunning = FALSE /\ yuvSeqNO \in 0 .. MaxSeq /\ active = TRUE /\ pNextJob = 0
      /\ io = "idle" /\ cmd = "none" /\ cap = "none" /\ capBuf = EmptyBuf /\ enc = "none"
      /\ inFrameCount = 0 /\ wrk = "check" /\ left = 0 /\ wrkBuf = EmptyBuf /\ session = 0
      /\ crashed = FALSE /\ raced = FALSE /\ interrupted = {}
  BY DEF Init
<1>1. chan = <<>> /\ got = [r \in {"enc"} |-> EmptyBuf]
  BY DEF Init, Ring!Init
<1>2. TypeOK
  <2>1. chan \in Seq(Frame \cup {EmptyBuf}) /\ Len(chan) <= YUV_BUFSIZE
    BY <1>1, EmptySeq, Bounds
  <2>2. got \in [{"enc"} -> Frame \cup {EmptyBuf}]
    BY <1>1
  <2>3. captureRunning \in BOOLEAN /\ active \in BOOLEAN /\ {crashed, raced} \subseteq BOOLEAN
    BY <1>0
  <2> QED
    BY <1>0, <2>1, <2>2, <2>3, Bounds DEF TypeOK
<1>3. Counted
  BY <1>0, Bounds DEF Counted, Counting
<1>4. Handled
  BY <1>0 DEF Handled, Ending
<1>5. Lost
  BY <1>0 DEF Lost
<1>6. Encoder
  BY <1>0 DEF Encoder, Starting, Ended
<1>7. Capture
  BY <1>0 DEF Capture, Starting, Ending, Ended
<1>8. Worker
  BY <1>0 DEF Worker, Starting, Working
<1>9. Flag
  BY <1>0 DEF Flag, Capturing
<1>10. Filled
  BY <1>0, <1>1 DEF Filled, Starting
<1>11. Meant
  BY <1>0, <1>1 DEF Meant
<1> QED
  BY <1>2, <1>3, <1>4, <1>5, <1>6, <1>7, <1>8, <1>9, <1>10, <1>11 DEF IInv, Base

LEMMA StutterStep == ASSUME UNCHANGED vars PROVE /\ Base => Base'
                                                 /\ IInv => IInv'
                                                 /\ Meant => Meant'
<1>s. UNCHANGED <<captureRunning, yuvSeqNO, active, pNextJob, io, cmd, cap, capBuf, enc,
                 inFrameCount, wrk, left, wrkBuf, session, chan, got, crashed, raced, interrupted>>
  BY DEF vars, svcVars, ioVars, capVars, encVars, wrkVars, ring
<1>1. Base => Base'
  BY <1>s DEF Base, TypeOK, Counted, Counting, Handled, Ending, Ends
<1>2. /\ Lost => Lost' /\ (Encoder => Encoder') /\ (Capture => Capture')
      /\ Worker => Worker' /\ (Flag => Flag')
  BY <1>s DEF Lost, Encoder, Capture, Worker, Flag, Quiet, Working, Capturing, Starting, Ending,
     Ended
<1>3. Filled => Filled'
  BY <1>s DEF Filled, Starting, IsNth, Pushing
<1>4. IInv => IInv'
  BY <1>s, <1>1, <1>2, <1>3 DEF IInv
<1>5. Meant => Meant'
  BY <1>s DEF Meant
<1> QED
  BY <1>1, <1>4, <1>5

LEMMA TypesKept == Base /\ [Next]_vars => Base'
<1> SUFFICES ASSUME Base, [Next]_vars PROVE Base'
  OBVIOUS
<1>1. CASE CapNext
  BY <1>1, CaptureFrameStep, FillFrameStep, PushFrameStep, LeaveLoopStep, EndCaptureStep
     DEF CapNext
<1>2. CASE EncNext
  BY <1>2, ParseStep, EncStopCaptureStep, EncTestCaptureStep, EncJoinCaptureStep,
     EncResetCaptureStep, EncSetFlagStep, EncNewCaptureStep, ReadPictureStep, EncoderQuitsStep
  DEF EncNext
<1>3. CASE WrkNext
  BY <1>3, CheckJobStep, SleepStep, BeginJobStep, CaptureNthStep, FillNthStep, PushNthStep,
     LeaveJobStep, EndJobStep DEF WrkNext
<1>4. CASE IoNext
  BY <1>4, PostJobStep, StopCaptureStep, IoTestCaptureStep, IoJoinCaptureStep,
     IoResetCaptureStep,
     ClearSeqNOStep, PushTerminatorStep, JoinEncoderStep, LaunchStep, StartCaptureStep,
     IoSetFlagStep, IoNewCaptureStep, TerminateStep, JoinWorkerStep DEF IoNext
<1>5. ASSUME NEW c \in Commands, Command(c) PROVE Base'
  BY <1>5, CommandTypes
<1>6. CASE Hangup
  BY <1>6, HangupStep
<1>7. CASE UNCHANGED vars
  BY <1>7, StutterStep
<1> QED
  BY <1>1, <1>2, <1>3, <1>4, <1>5, <1>6, <1>7 DEF Next, Finished

LEMMA InvKept == Disciplined /\ IInv /\ [Next]_vars => IInv'
<1> SUFFICES ASSUME Disciplined, IInv, [Next]_vars PROVE IInv'
  OBVIOUS
<1>0. Base
  BY DEF IInv
<1>1. CASE CapNext
  BY <1>0, <1>1, CaptureFrameStep, FillFrameStep, PushFrameStep, LeaveLoopStep, EndCaptureStep
  DEF CapNext
<1>2. CASE EncNext
  BY <1>0, <1>2, ParseStep, EncStopCaptureStep, EncTestCaptureStep, EncJoinCaptureStep,
     EncResetCaptureStep, EncSetFlagStep, EncNewCaptureStep, ReadPictureStep, EncoderQuitsStep
  DEF EncNext
<1>3. CASE WrkNext
  BY <1>0, <1>3, CheckJobStep, SleepStep, BeginJobStep, CaptureNthStep, FillNthStep,
     PushNthStep,
     LeaveJobStep, EndJobStep DEF WrkNext
<1>4. CASE IoNext
  BY <1>0, <1>4, PostJobStep, StopCaptureStep, IoTestCaptureStep, IoJoinCaptureStep,
     IoResetCaptureStep, ClearSeqNOStep, PushTerminatorStep, JoinEncoderStep, LaunchStep,
     StartCaptureStep, IoSetFlagStep, IoNewCaptureStep, TerminateStep, JoinWorkerStep DEF IoNext
<1>5. ASSUME NEW c \in Commands, Command(c) PROVE IInv'
  BY <1>5, CommandStep
<1>6. CASE Hangup
  BY <1>0, <1>6, HangupStep
<1>7. CASE UNCHANGED vars
  BY <1>7, StutterStep
<1> QED
  BY <1>1, <1>2, <1>3, <1>4, <1>5, <1>6, <1>7 DEF Next, Finished

LEMMA InvHolds == ASSUME Disciplined PROVE Spec => []IInv
<1>1. Init => IInv
  BY InvInit
<1>2. IInv /\ [Next]_vars => IInv'
  BY InvKept
<1> QED
  BY <1>1, <1>2, PTL DEF Spec

\* If the client types as the README says and the connection is not lost during
\* a job or the start of a reader, two threads never write the ring at the same
\* time, though three of them call writeBuf() or push() and none of them locks.
THEOREM WritersTakeTurns == ASSUME Disciplined PROVE Spec => []SingleWriterRule
<1>1. IInv => SingleWriterRule
  BY DEF IInv, Flag, SingleWriterRule, OneWriter
<1> QED
  BY <1>1, InvHolds, PTL

\* If the client types as the README says, EndStreaming() leaves no capture
\* thread and no encoder behind, whichever of them failed, even if the connection
\* is lost during a job; but not if it is lost during the start of a reader.
THEOREM EndStreamingEndsAll == ASSUME Disciplined PROVE Spec => []EndAllRule
<1>1. IInv => EndAllRule
  BY DEF IInv, Capture, Encoder, Ended, EndAll, EndAllRule
<1> QED
  BY <1>1, InvHolds, PTL

\* Under the same conditions, if GetDIBits does not fail, no joinable thread is
\* destroyed and none is joined twice.
THEOREM NoThreadIsLost == ASSUME Disciplined, ~ CaptureFails PROVE Spec => []StreamingInv
<1>1. IInv => StreamingInv
  BY DEF IInv, Base, Capture, StreamingInv, NoCrash
<1> QED
  BY <1>1, InvHolds, PTL

\* If the client types as the README says, the connection is not lost during a
\* job or the start of a reader and no encoder ends by itself, an encoder reads
\* all frames of its session in order and no frame of another one.
THEOREM SessionIsInOrder == ASSUME Disciplined, ~ EncoderStops PROVE Spec => []FramesInOrder
<1>1. IInv => FramesInOrder
  BY DEF IInv, Filled, FramesInOrder, IsNth
<1> QED
  BY <1>1, InvHolds, PTL

-----------------------------------------------------------------------------
(* The empty buffer, whatever is typed and whenever the connection is lost *)

LEMMA SendMeant ==
    ASSUME Base, Meant, NEW f \in Frame \cup {EmptyBuf}, f # EmptyBuf, Ring!Send(f),
           io' = io, enc' = enc
    PROVE  \A i \in DOMAIN chan' :
              chan'[i] = EmptyBuf => /\ io' = "joinEnc" /\ enc' # "ended"
                                     /\ \A j \in DOMAIN chan' : chan'[j] = EmptyBuf => i = j
<1>1. /\ \A i \in 1 .. Len(chan) : chan'[i] = chan[i]
      /\ chan'[Len(chan) + 1] = f
      /\ \A i \in DOMAIN chan' : i \in DOMAIN chan \/ i = Len(chan) + 1
      /\ DOMAIN chan = 1 .. Len(chan)
  BY SendFacts, Types DEF Base
<1>2. \A i \in DOMAIN chan' : chan'[i] = EmptyBuf => i \in DOMAIN chan /\ chan[i] = EmptyBuf
  BY <1>1
<1> QED
  BY <1>2 DEF Meant

\* A step that leaves the ring alone, ends no encoder and does not move io away
\* from waiting for one.
LEMMA MeantKept ==
    ASSUME Meant, chan' = chan,
           enc' = "ended" => io' = "joinEnc",
           io = "joinEnc" /\ enc # "ended" => io' = "joinEnc" /\ enc' # "ended",
           cap' = "push" => capBuf' # EmptyBuf, wrk' = "push" => wrkBuf' # EmptyBuf
    PROVE  Meant'
BY DEF Meant

LEMMA MeantNext == ~ EncoderStops /\ Base /\ Meant /\ [Next]_vars => Meant'
<1> SUFFICES ASSUME ~ EncoderStops, Base, Meant, [Next]_vars PROVE Meant'
  OBVIOUS
<1>m. /\ enc = "ended" => io = "joinEnc"
      /\ cap = "push" => capBuf # EmptyBuf
      /\ wrk = "push" => wrkBuf # EmptyBuf
  BY DEF Meant
<1>n. yuvSeqNO + 1 \in Nat /\ yuvSeqNO + 1 > 0
  BY Types DEF Base
<1>1. CASE CapNext
  <2>1. CASE PushFrame
    <3>1. /\ cap = "push" /\ cap' = "loop" /\ Ring!Send(capBuf)
          /\ UNCHANGED <<io, enc, capBuf, wrk, wrkBuf>>
      BY <2>1 DEF PushFrame, capRest, ioVars, encVars, wrkVars
    <3>2. capBuf \in Frame \cup {EmptyBuf}
      BY DEF Base, TypeOK
    <3> QED
      BY <1>m, <3>1, <3>2, SendMeant DEF Meant
  <2>2. CASE FillFrame
    <3>1. UNCHANGED <<io, enc, wrk, wrkBuf, chan>> /\ capBuf' = <<session, yuvSeqNO + 1>>
      BY <2>2 DEF FillFrame, capRest, ioVars, encVars, wrkVars, ring
    <3>2. capBuf' # EmptyBuf
      BY <1>n, <3>1, FrameIsNotEmpty
    <3> QED
      BY <1>m, <3>1, <3>2, MeantKept
  <2>3. CASE CaptureFrame \/ LeaveLoop \/ EndCapture
    BY <1>m, <2>3, MeantKept DEF CaptureFrame, LeaveLoop, EndCapture, capRest, ioVars, encVars,
       wrkVars, ring
  <2> QED
    BY <1>1, <2>1, <2>2, <2>3 DEF CapNext
<1>2. CASE EncNext
  <2>1. CASE ReadPicture
    <3>0. /\ enc = "read" /\ Ring!Receive("enc") /\ UNCHANGED <<io, cap, capBuf, wrk, wrkBuf>>
          /\ \/ got'["enc"] # EmptyBuf /\ enc' = enc
             \/ got'["enc"] = EmptyBuf /\ enc' = "ended"
      BY <2>1 DEF ReadPicture, encRest, ioVars, capVars, wrkVars
    <3>1. /\ \A i \in DOMAIN chan' : i \in Nat /\ i + 1 \in DOMAIN chan /\ chan'[i] = chan[i + 1]
          /\ 1 \in DOMAIN chan /\ got'["enc"] = chan[1]
          /\ DOMAIN chan' \subseteq Nat \ {0}
      <4>1. TypeOK
        BY DEF Base
      <4>2. chan' \in Seq(Frame \cup {EmptyBuf})
        BY <3>0, <4>1, ReceiveFacts
      <4>3. DOMAIN chan' = 1 .. Len(chan') /\ Len(chan') \in Nat
        BY <4>2, LenProperties
      <4> QED
        BY <3>0, <4>1, <4>3, ReceiveFacts
    <3>2. CASE got'["enc"] = EmptyBuf
      <4>1. io = "joinEnc" /\ \A j \in DOMAIN chan : chan[j] = EmptyBuf => 1 = j
        BY <3>1, <3>2 DEF Meant
      <4>2. \A i \in DOMAIN chan' : chan'[i] # EmptyBuf
        BY <3>1, <4>1
      <4> QED
        BY <1>m, <3>0, <4>1, <4>2 DEF Meant
    <3>3. CASE got'["enc"] # EmptyBuf
      <4>1. \A i, j \in DOMAIN chan' :
               chan'[i] = EmptyBuf /\ chan'[j] = EmptyBuf => io = "joinEnc" /\ i + 1 = j + 1
        BY <3>1 DEF Meant
      <4>2. \A i, j \in DOMAIN chan' : i + 1 = j + 1 => i = j
        BY <3>1
      <4> QED
        BY <1>m, <3>0, <3>3, <4>1, <4>2 DEF Meant
    <3> QED
      BY <3>2, <3>3
  <2>2. CASE EncoderQuits
    BY <2>2 DEF EncoderQuits
  <2>3. CASE Parse
    BY <1>m, <2>3, MeantKept DEF Parse, encRest, svcVars, ioVars, capVars, wrkVars, ring
  <2>4. CASE \/ EncStopCapture \/ EncTestCapture \/ EncJoinCapture \/ EncResetCapture
             \/ EncSetFlag \/ EncNewCapture
    <3>1. /\ UNCHANGED <<io, capBuf, wrk, wrkBuf, chan>> /\ enc # "ended" /\ enc' # "ended"
          /\ cap' = "push" => cap = "push"
      BY <2>4 DEF EncStopCapture, EncTestCapture, EncJoinCapture, EncResetCapture, EncSetFlag,
         EncNewCapture, JoinCapture, ResetCapture, NewCaptureThread, encRest, ioVars, capVars,
         wrkVars, ring
    <3> QED
      BY <1>m, <3>1, MeantKept
  <2> QED
    BY <1>2, <2>1, <2>2, <2>3, <2>4 DEF EncNext
<1>3. CASE WrkNext
  <2>1. CASE PushNth
    <3>1. /\ wrk = "push" /\ wrk' = "loop" /\ Ring!Send(wrkBuf)
          /\ UNCHANGED <<io, enc, cap, capBuf, wrkBuf>>
      BY <2>1 DEF PushNth, wrkRest, ioVars, encVars, capVars
    <3>2. wrkBuf \in Frame \cup {EmptyBuf}
      BY DEF Base, TypeOK
    <3> QED
      BY <1>m, <3>1, <3>2, SendMeant DEF Meant
  <2>2. CASE FillNth
    <3>1. UNCHANGED <<io, enc, cap, capBuf, chan>> /\ wrkBuf' = <<session, yuvSeqNO + 1>>
      BY <2>2 DEF FillNth, wrkRest, ioVars, encVars, capVars, ring
    <3>2. wrkBuf' # EmptyBuf
      BY <1>n, <3>1, FrameIsNotEmpty
    <3> QED
      BY <1>m, <3>1, <3>2, MeantKept
  <2>3. CASE CheckJob \/ Sleep \/ BeginJob \/ CaptureNth \/ LeaveJob \/ EndJob
    <3>1. UNCHANGED <<io, enc, cap, capBuf, chan>> /\ wrk' # "push"
      BY <2>3 DEF CheckJob, Sleep, BeginJob, CaptureNth, LeaveJob, EndJob, wrkRest, ioVars,
         encVars, capVars, ring
    <3> QED
      BY <1>m, <3>1, MeantKept
  <2> QED
    BY <1>3, <2>1, <2>2, <2>3 DEF WrkNext
<1>4. CASE IoNext
  <2>1. CASE PushTerminator
    <3>0. /\ io = "terminator" /\ UNCHANGED <<enc, cap, capBuf, wrk, wrkBuf>>
          /\ \/ enc = "none" /\ chan' = chan
             \/ io' = "joinEnc" /\ Ring!Send(EmptyBuf)
      BY <2>1 DEF PushTerminator, SendEmpty, threads, encVars, capVars, wrkVars, ring
    <3>1. enc # "ended" /\ \A i \in DOMAIN chan : chan[i] # EmptyBuf
      BY <3>0 DEF Meant
    <3>2. CASE enc = "none" /\ chan' = chan
      BY <1>m, <3>0, <3>1, <3>2 DEF Meant
    <3>3. CASE io' = "joinEnc" /\ Ring!Send(EmptyBuf)
      <4>1. EmptyBuf \in Frame \cup {EmptyBuf} /\ TypeOK
        BY DEF Base
      <4>2. /\ \A i \in 1 .. Len(chan) : chan'[i] = chan[i]
            /\ \A i \in DOMAIN chan' : i \in DOMAIN chan \/ i = Len(chan) + 1
            /\ DOMAIN chan = 1 .. Len(chan)
        BY <3>3, <4>1, SendFacts, Types
      <4>3. \A i \in DOMAIN chan' : chan'[i] = EmptyBuf => i = Len(chan) + 1
        BY <3>1, <4>2
      <4> QED
        BY <1>m, <3>0, <3>1, <3>3, <4>3 DEF Meant
    <3> QED
      BY <3>0, <3>2, <3>3
  <2>2. CASE JoinEncoder
    <3>1. /\ io = "joinEnc" /\ enc = "ended" /\ enc' = "none"
          /\ UNCHANGED <<cap, capBuf, wrk, wrkBuf, chan>>
      BY <2>2 DEF JoinEncoder, capVars, wrkVars, ring
    <3> QED
      BY <1>m, <3>1, MeantKept
  <2>3. CASE Launch
    <3>1. io = "launch" /\ enc' = "parse" /\ UNCHANGED <<cap, capBuf, wrk, wrkBuf, chan>>
      BY <2>3 DEF Launch, capVars, wrkVars, ring
    <3> QED
      BY <1>m, <3>1, MeantKept
  <2>4. CASE PostJob \/ Terminate \/ JoinWorker
    <3>1. /\ io # "joinEnc" /\ UNCHANGED <<enc, cap, capBuf, wrkBuf, chan>>
          /\ wrk' = "push" => wrk = "push"
      BY <2>4 DEF PostJob, Terminate, JoinWorker, Notify, encVars, capVars, ring
    <3> QED
      BY <1>m, <3>1, MeantKept
  <2>5. CASE \/ StopCapture \/ IoTestCapture \/ IoJoinCapture \/ IoResetCapture \/ ClearSeqNO
             \/ StartCapture \/ IoSetFlag \/ IoNewCapture
    <3>1. /\ io # "joinEnc" /\ UNCHANGED <<enc, capBuf, wrk, wrkBuf, chan>>
          /\ cap' = "push" => cap = "push"
      BY <2>5 DEF StopCapture, IoTestCapture, IoJoinCapture, IoResetCapture, ClearSeqNO,
         StartCapture, IoSetFlag, IoNewCapture, JoinCapture, ResetCapture, NewCaptureThread,
         threads, encVars, capVars, wrkVars, ring
    <3> QED
      BY <1>m, <3>1, MeantKept
  <2> QED
    BY <1>4, <2>1, <2>2, <2>3, <2>4, <2>5 DEF IoNext
<1>5. ASSUME NEW c \in Commands, Command(c) PROVE Meant'
  <2>1. io = "idle" /\ UNCHANGED <<enc, cap, capBuf, wrk, wrkBuf, chan>>
    BY <1>5 DEF Command, threads, encVars, capVars, wrkVars, ring
  <2> QED
    BY <1>m, <2>1, MeantKept
<1>6. CASE Hangup
  <2>1. io = "idle" /\ UNCHANGED <<enc, cap, capBuf, wrk, wrkBuf, chan>>
    BY <1>6 DEF Hangup, threads, encVars, capVars, wrkVars, ring
  <2> QED
    BY <1>m, <2>1, MeantKept
<1>7. CASE UNCHANGED vars
  BY <1>7, StutterStep
<1> QED
  BY <1>1, <1>2, <1>3, <1>4, <1>5, <1>6, <1>7 DEF Next, Finished

\* Unless an encoder ends by itself, an empty buffer ends the encoder that the io
\* thread waits for and no later one, whatever is typed, in whatever order, and
\* whenever the connection is lost.
THEOREM TerminatorFindsItsEncoder == ASSUME ~ EncoderStops PROVE Spec => TerminatorIsMeant
<1>1. Init => Base /\ Meant
  BY InvInit DEF IInv
<1>2. Base /\ Meant /\ [Next]_vars => Base' /\ Meant'
  BY TypesKept, MeantNext
<1>3. Base /\ Meant /\ [Next]_vars => [ReadPicture /\ got'["enc"] = EmptyBuf => io = "joinEnc"]_vars
  <2> SUFFICES ASSUME Base, Meant, ReadPicture, got'["enc"] = EmptyBuf PROVE io = "joinEnc"
    OBVIOUS
  <2>1. 1 \in DOMAIN chan /\ got'["enc"] = chan[1]
    BY ReceiveFacts DEF ReadPicture, Base
  <2> QED
    BY <2>1 DEF Meant
<1> QED
  BY <1>1, <1>2, <1>3, PTL DEF Spec, TerminatorIsMeant
=============================================================================
