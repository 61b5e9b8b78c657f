-------------------------- MODULE DesktopStreaming --------------------------
(***************************************************************************)
(* One DesktopStreamingService and the four threads that run its methods   *)
(* (desktop_streaming_service.hpp, service.hpp, input/yuv.cpp, x265.cpp):  *)
(*                                                                         *)
(*   io   the io_service thread: handle_msg(), terminate(), destructors    *)
(*   enc  pEncodeThread: x265_main(), which calls startReader() and then   *)
(*        reads the ring until it pops an empty buffer                     *)
(*   cap  pCaptureThread: DoStartCapture()                                 *)
(*   wrk  pWorkThread: Service::DoWork() and Capture_n_frames()            *)
(*                                                                         *)
(* They share captureRunning, yuvSeqNO, pCaptureThread and the ring with   *)
(* no lock but the ring's own.  A step ends where another thread can       *)
(* observe a half-done call: after each test and write of captureRunning,  *)
(* before and after ++yuvSeqNO, between the test of pCaptureThread, its    *)
(* join() and its reset(), between writeBuf() and push().                  *)
(*                                                                         *)
(* The ring is the BoundedChannel which SharedBuffer implements for one    *)
(* writer; that there is one writer is a property here (SingleWriterRule). *)
(* Once two threads wrote one slot (raced) the code's behaviour is         *)
(* undefined, and the model ends there, as it does at std::terminate().    *)
(***************************************************************************)
EXTENDS Integers, Sequences

CONSTANTS YUV_BUFSIZE,    \* frames the ring holds
          MaxSeq,         \* bound: frames captured in one session
          MaxJob,         \* bound: the largest n of the command "n"
          MaxSessions,    \* bound: x265 commands accepted
          Disciplined,    \* commands are typed as the README says (see Documented)
          CaptureFails,   \* GetDIBits may fail: CaptureOneFrame() returns NULL
          EncoderStops    \* the encoder may end before it popped an empty buffer

ASSUME BoundsAssumption == /\ {YUV_BUFSIZE, MaxSeq, MaxJob, MaxSessions} \subseteq Nat \ {0}
                           /\ {Disciplined, CaptureFails, EncoderStops} \subseteq BOOLEAN

\* What goes through the ring: YuvFrameInfo's seqNO with the session it was
\* captured in, or an empty buffer.
\* (Two threads that have both seen yuvSeqNO < MaxSeq count to MaxSeq + 1.)
Frame    == (0 .. MaxSessions) \X (1 .. MaxSeq + 1)
EmptyBuf == <<0, 0>>

VARIABLES
    captureRunning, yuvSeqNO,   \* members of DesktopStreamingService
    active, pNextJob,           \* members of Service; pNextJob = 0: no job
    io, cmd,                    \* where io is, the command it is handling
    cap, capBuf,                \* pCaptureThread and the slot it is filling
    enc, inFrameCount,          \* pEncodeThread and the loop counter of x265_main
    wrk, left, wrkBuf,          \* pWorkThread, frames left of its job, its slot
    session,                    \* x265 commands started so far
    chan, got,                  \* the ring; got["enc"]: the buffer of readPicture
    crashed,                    \* std::terminate() was called
    raced,                      \* two threads wrote one slot of the ring
    interrupted                 \* history: what was going on when the
                                \* connection was lost

capVars == <<cap, capBuf>>
encVars == <<enc, inFrameCount, session>>
wrkVars == <<wrk, left, wrkBuf>>
svcVars == <<active, pNextJob>>
ioVars  == <<io, cmd>>
ring    == <<chan, got>>
vars    == <<captureRunning, yuvSeqNO, svcVars, ioVars, capVars, encVars, wrkVars,
             ring, crashed, raced, interrupted>>

\* what no step of cap, of enc or of wrk changes
capRest == <<svcVars, ioVars, encVars, wrkVars, crashed, interrupted>>
encRest == <<yuvSeqNO, svcVars, ioVars, capBuf, wrkVars, raced, interrupted>>
wrkRest == <<active, ioVars, capVars, encVars, crashed, interrupted>>
threads == <<capVars, encVars, wrkVars>>
fate    == <<crashed, raced, interrupted>>

Ring == INSTANCE BoundedChannel WITH
           Capacity <- YUV_BUFSIZE, Receivers <- {"enc"},
           Frames <- Frame \cup {EmptyBuf}, NoFrame <- EmptyBuf

Commands == {"x265", "pause", "start", "n", "quit"}

Init == /\ captureRunning = FALSE
        /\ yuvSeqNO \in 0 .. MaxSeq \* the constructor leaves it uninitialized
        /\ active = TRUE            \* TcpServer::handle_msg called start()
        /\ pNextJob = 0
        /\ io = "idle" /\ cmd = "none"
        /\ cap = "none" /\ capBuf = EmptyBuf
        /\ enc = "none" /\ inFrameCount = 0
        /\ wrk = "check" /\ left = 0 /\ wrkBuf = EmptyBuf
        /\ session = 0
        /\ Ring!Init
        /\ crashed = FALSE /\ raced = FALSE
        /\ interrupted = {}

-----------------------------------------------------------------------------
(* cap: DoStartCapture() *)

\* captureRunning holds, and CaptureOneFrame() returned a frame
CaptureFrame ==
    /\ cap = "loop"
    /\ captureRunning /\ yuvSeqNO < MaxSeq
    /\ cap' = "captured"
    /\ UNCHANGED <<capRest, captureRunning, yuvSeqNO, capBuf, ring, raced>>

\* writeBuf(), and YuvFrameInfo( ++yuvSeqNO ) into the slot
FillFrame ==
    /\ cap = "captured"
    /\ cap' = "push"
    /\ yuvSeqNO' = yuvSeqNO + 1
    /\ capBuf' = <<session, yuvSeqNO'>>
    /\ raced' = (wrk = "push")
    /\ UNCHANGED <<capRest, captureRunning, ring>>

PushFrame ==
    /\ cap = "push"
    /\ Ring!Send(capBuf)
    /\ cap' = "loop"
    /\ UNCHANGED <<capRest, captureRunning, yuvSeqNO, capBuf, raced>>

LeaveLoop ==
    /\ cap = "loop"
    /\ ~captureRunning \/ CaptureFails
    /\ cap' = "done"
    /\ UNCHANGED <<capRest, captureRunning, yuvSeqNO, capBuf, ring, raced>>

\* mutant: the capture thread pushes an empty buffer to mark its end
EndCaptureEof ==
    /\ cap = "done"
    /\ Ring!Send(EmptyBuf)
    /\ cap' = "ended"
    /\ captureRunning' = FALSE
    /\ UNCHANGED <<capRest, yuvSeqNO, capBuf, raced>>

\* the thread ends; pCaptureThread stays joinable
EndCapture ==
    /\ cap = "done"
    /\ cap' = "ended"
    /\ captureRunning' = FALSE
    /\ UNCHANGED <<capRest, yuvSeqNO, capBuf, ring, raced>>

CapNext == CaptureFrame \/ FillFrame \/ PushFrame \/ LeaveLoop \/ EndCapture

-----------------------------------------------------------------------------
(* StartCapture() and StopCapture(), called by io and by enc.  A            *)
(* pCaptureThread that is null and one that was joined act alike: cap is    *)
(* "none".                                                                  *)

\* captureRunning = false
ClearFlag == captureRunning' = FALSE

\* if( pCaptureThread && pCaptureThread->joinable() ); to join() a thread that
\* other is joining ends in std::terminate at best
Joinable         == cap # "none"
JoinsTwice(other) == Joinable /\ other = "join"

\* mutant: join() returns at once
NoJoin == UNCHANGED cap

\* pCaptureThread->join()
JoinCapture == cap = "ended" /\ cap' = "none"

\* pCaptureThread.reset() and reset( new std::thread ): destroying a joinable
\* std::thread calls std::terminate
ResetCapture     == UNCHANGED cap /\ crashed' = Joinable
NewCaptureThread == cap' = "loop" /\ crashed' = Joinable

-----------------------------------------------------------------------------
(* enc: x265_main() *)

\* CLIOptions::parse() reached startReader(), hence StartCapture(); or failed
Parse ==
    /\ enc = "parse"
    /\ \/ enc' = IF captureRunning THEN "stop" ELSE "flag"
       \/ EncoderStops /\ enc' = "ended"
    /\ UNCHANGED <<encRest, captureRunning, cap, inFrameCount, session, ring, crashed>>

EncStopCapture ==
    /\ enc = "stop"
    /\ ClearFlag
    /\ enc' = "test"
    /\ UNCHANGED <<encRest, cap, inFrameCount, session, ring, crashed>>

EncTestCapture ==
    /\ enc = "test"
    /\ enc' = IF Joinable THEN "join" ELSE "reset"
    /\ crashed' = JoinsTwice(io)
    /\ UNCHANGED <<encRest, captureRunning, cap, inFrameCount, session, ring>>

EncJoinCapture ==
    /\ enc = "join"
    /\ JoinCapture
    /\ enc' = "reset"
    /\ UNCHANGED <<encRest, captureRunning, inFrameCount, session, ring, crashed>>

EncResetCapture ==
    /\ enc = "reset"
    /\ ResetCapture
    /\ enc' = "flag"
    /\ UNCHANGED <<encRest, captureRunning, inFrameCount, session, ring>>

EncSetFlag ==
    /\ enc = "flag"
    /\ captureRunning' = TRUE
    /\ enc' = "create"
    /\ UNCHANGED <<encRest, cap, inFrameCount, session, ring, crashed>>

EncNewCapture ==
    /\ enc = "create"
    /\ NewCaptureThread
    /\ enc' = "read"
    /\ UNCHANGED <<encRest, captureRunning, inFrameCount, session, ring>>

\* readPicture(): a frame is encoded and sent, an empty buffer ends the loop
ReadPicture ==
    /\ enc = "read"
    /\ Ring!Receive("enc")
    /\ \/ /\ got'["enc"] # EmptyBuf
          /\ inFrameCount' = inFrameCount + 1
          /\ UNCHANGED enc
       \/ /\ got'["enc"] = EmptyBuf
          /\ enc' = "ended"
          /\ UNCHANGED inFrameCount
    /\ UNCHANGED <<encRest, captureRunning, cap, session, crashed>>

\* encoder_open() or encoder_encode() failed, b_ctrl_c is set, or
\* framesToBeEncoded pictures were read
EncoderQuits ==
    /\ enc = "read" /\ EncoderStops
    /\ enc' = "ended"
    /\ UNCHANGED <<encRest, captureRunning, cap, inFrameCount, session, ring, crashed>>

EncNext == \/ Parse \/ EncStopCapture \/ EncTestCapture \/ EncJoinCapture \/ EncResetCapture
           \/ EncSetFlag \/ EncNewCapture \/ ReadPicture \/ EncoderQuits

-----------------------------------------------------------------------------
(* wrk: Service::DoWork() and Capture_n_frames() *)

\* with the lock: while( active && !pNextJob ) cond.wait(lk)
CheckJob ==
    /\ wrk = "check"
    /\ \/ /\ ~active
          /\ wrk' = "exited"
          /\ UNCHANGED <<left, pNextJob>>
       \/ /\ active /\ pNextJob = 0
          /\ wrk' = "wait"          \* the condition was read; the lock is held
          /\ UNCHANGED <<left, pNextJob>>
       \/ /\ active /\ pNextJob # 0
          /\ wrk' = "job"
          /\ left' = pNextJob
          /\ pNextJob' = 0
    /\ UNCHANGED <<wrkRest, captureRunning, yuvSeqNO, wrkBuf, ring, raced>>

\* cond.wait(lk) enters the queue of the condition and releases the lock
Sleep ==
    /\ wrk = "wait"
    /\ wrk' = "asleep"
    /\ UNCHANGED <<wrkRest, captureRunning, yuvSeqNO, pNextJob, left, wrkBuf, ring, raced>>

BeginJob ==
    /\ wrk = "job"
    /\ wrk' = "loop"
    /\ captureRunning' = TRUE
    /\ UNCHANGED <<wrkRest, yuvSeqNO, pNextJob, left, wrkBuf, ring, raced>>

\* for( i = 1; i <= n && captureRunning; ++i )
FramesLeft == left > 0

CaptureNth ==
    /\ wrk = "loop"
    /\ FramesLeft /\ captureRunning /\ yuvSeqNO < MaxSeq
    /\ wrk' = "captured"
    /\ UNCHANGED <<wrkRest, captureRunning, yuvSeqNO, pNextJob, left, wrkBuf, ring, raced>>

FillNth ==
    /\ wrk = "captured"
    /\ wrk' = "push"
    /\ yuvSeqNO' = yuvSeqNO + 1
    /\ wrkBuf' = <<session, yuvSeqNO'>>
    /\ raced' = (cap = "push")
    /\ UNCHANGED <<wrkRest, captureRunning, pNextJob, left, ring>>

PushNth ==
    /\ wrk = "push"
    /\ Ring!Send(wrkBuf)
    /\ wrk' = "loop"
    /\ left' = left - 1
    /\ UNCHANGED <<wrkRest, captureRunning, yuvSeqNO, pNextJob, wrkBuf, raced>>

LeaveJob ==
    /\ wrk = "loop"
    /\ ~FramesLeft \/ ~captureRunning \/ CaptureFails \/ yuvSeqNO >= MaxSeq
    /\ wrk' = "done"
    /\ left' = 0
    /\ UNCHANGED <<wrkRest, captureRunning, yuvSeqNO, pNextJob, wrkBuf, ring, raced>>

EndJob ==
    /\ wrk = "done"
    /\ wrk' = "check"
    /\ captureRunning' = FALSE
    /\ UNCHANGED <<wrkRest, yuvSeqNO, pNextJob, left, wrkBuf, ring, raced>>

WrkNext == \/ CheckJob \/ Sleep \/ BeginJob \/ CaptureNth \/ FillNth \/ PushNth
           \/ LeaveJob \/ EndJob

\* cond.notify_one(): reaches the worker only while it sleeps
Notify == wrk' = IF wrk = "asleep" THEN "check" ELSE wrk

-----------------------------------------------------------------------------
(* io: handle_msg(), terminate(), ~DesktopStreamingService() *)

\* What may be going on besides the capture of the running session: x265_main()
\* is on its way to the end of startReader(), the worker to or from a job.
GoingOn == {w \in {"reader", "job"} :
               \/ w = "reader" /\ enc \notin {"none", "read", "ended"}
               \/ w = "job" /\ wrk \notin {"asleep", "off"}}

\* README.docx: the commands that control the streaming are typed after it has
\* begun; and a user waits for the effect of one before typing the next.
Documented(c) == /\ GoingOn = {}
                 /\ c \in {"pause", "start", "n", "quit"} => enc \in {"read", "ended"}

Ends(c) == c \in {"x265", "quit", "hangup", "destroy"}     \* calls EndStreaming()

\* "Capture running! you have to pause first.", and a mutant that never says so
NeverRefused == FALSE
Refused      == captureRunning

\* if( pEncodeThread ) of StartStreaming(), and a mutant that forgets it
NeverEncoding == FALSE
Encoding      == enc # "none"

\* handle_msg() dispatches a command the client typed
Command(c) ==
    /\ io = "idle"
    /\ Disciplined => Documented(c)
    /\ c = "x265" => session < MaxSessions
    /\ cmd' = c
    /\ \/ c \in {"pause", "quit"} /\ io' = "stop"
       \/ c = "x265" /\ io' = IF Encoding THEN "stop" ELSE "launch"
       \/ c = "start" /\ io' = IF captureRunning THEN "idle" ELSE "start"
       \/ c = "n" /\ io' = IF Refused THEN "idle" ELSE "post"
    /\ UNCHANGED <<threads, fate, captureRunning, yuvSeqNO, svcVars, ring>>

\* The connection is lost, whatever is going on: OnError(), ~ClientInfo(),
\* terminate().
Hangup ==
    /\ io = "idle"
    /\ cmd' = "hangup"
    /\ io' = "stop"
    /\ interrupted' = GoingOn
    /\ UNCHANGED <<threads, captureRunning, yuvSeqNO, svcVars, ring, crashed, raced>>

\* pNextJob.reset() under the lock, then cond.notify_one()
PostJob ==
    /\ io = "post"
    /\ wrk # "wait"
    /\ io' = "idle"
    /\ \E n \in 1 .. MaxJob : pNextJob' = n
    /\ Notify
    /\ UNCHANGED <<fate, captureRunning, yuvSeqNO, active, cmd, capVars, encVars, left, wrkBuf,
                   ring>>

StopCapture ==
    /\ io = "stop"
    /\ ClearFlag
    /\ io' = "test"
    /\ UNCHANGED <<threads, fate, yuvSeqNO, svcVars, cmd, ring>>

IoTestCapture ==
    /\ io = "test"
    /\ io' = IF Joinable THEN "join" ELSE "reset"
    /\ crashed' = JoinsTwice(enc)
    /\ UNCHANGED <<threads, captureRunning, yuvSeqNO, svcVars, cmd, ring, raced, interrupted>>

IoJoinCapture ==
    /\ io = "join"
    /\ JoinCapture
    /\ io' = "reset"
    /\ UNCHANGED <<fate, captureRunning, yuvSeqNO, svcVars, cmd, capBuf, encVars, wrkVars,
                   ring>>

\* StopCapture() returns
IoResetCapture ==
    /\ io = "reset"
    /\ ResetCapture
    /\ \/ cmd = "pause" /\ io' = "idle"
       \/ cmd = "start" /\ io' = "flag"
       \/ Ends(cmd) /\ io' = "seq"
    /\ UNCHANGED <<captureRunning, yuvSeqNO, svcVars, cmd, capBuf, encVars, wrkVars, ring,
                   raced, interrupted>>

\* EndStreaming() goes on
ClearSeqNO ==
    /\ io = "seq"
    /\ yuvSeqNO' = 0
    /\ io' = "terminator"
    /\ UNCHANGED <<threads, fate, captureRunning, svcVars, cmd, ring>>

\* where EndStreaming() returns to
AfterEnd == CASE cmd = "x265" -> "launch"
              [] cmd \in {"quit", "hangup"} -> "terminate"
              [] cmd = "destroy" -> "gone"

\* mutant: no empty buffer is pushed
NoEmptyBuf == UNCHANGED ring
SendEmpty  == Ring!Send(EmptyBuf)

\* if( pEncodeThread ) yuvBuf.push( emptyBuf )
PushTerminator ==
    /\ io = "terminator"
    /\ \/ /\ enc = "none"
          /\ io' = AfterEnd
          /\ UNCHANGED ring
          /\ UNCHANGED raced
       \/ /\ enc # "none"
          /\ SendEmpty
          /\ io' = "joinEnc"
          /\ raced' = ("push" \in {cap, wrk})
    /\ crashed' = (io' = "gone" /\ Joinable)         \* ~unique_ptr<std::thread>
    /\ UNCHANGED <<threads, captureRunning, yuvSeqNO, svcVars, cmd, interrupted>>

\* pEncodeThread->join(), reset()
JoinEncoder ==
    /\ io = "joinEnc"
    /\ enc = "ended"
    /\ enc' = "none"
    /\ io' = AfterEnd
    /\ crashed' = (io' = "gone" /\ Joinable)
    /\ UNCHANGED <<captureRunning, yuvSeqNO, svcVars, cmd, capVars, inFrameCount, session,
                   wrkVars, ring, raced, interrupted>>

\* yuvSeqNO = 0; mutant: left as it is
KeepSeqNO  == UNCHANGED yuvSeqNO
ResetSeqNO == yuvSeqNO' = 0

\* the rest of StartStreaming(): yuvSeqNO = 0 and a new pEncodeThread
Launch ==
    /\ io = "launch"
    /\ io' = "idle"
    /\ ResetSeqNO
    /\ enc' = "parse"
    /\ inFrameCount' = 0
    /\ session' = session + 1
    /\ UNCHANGED <<fate, captureRunning, svcVars, cmd, capVars, wrkVars, ring>>

\* StartCapture() for the command "start" tests captureRunning once more
StartCapture ==
    /\ io = "start"
    /\ io' = IF captureRunning THEN "stop" ELSE "flag"
    /\ UNCHANGED <<threads, fate, captureRunning, yuvSeqNO, svcVars, cmd, ring>>

IoSetFlag ==
    /\ io = "flag"
    /\ captureRunning' = TRUE
    /\ io' = "create"
    /\ UNCHANGED <<threads, fate, yuvSeqNO, svcVars, cmd, ring>>

IoNewCapture ==
    /\ io = "create"
    /\ NewCaptureThread
    /\ io' = "idle"
    /\ UNCHANGED <<captureRunning, yuvSeqNO, svcVars, cmd, capBuf, encVars, wrkVars, ring,
                   raced, interrupted>>

\* Service::terminate(): active = false without the lock, notify_one()
Terminate ==
    /\ io = "terminate"
    /\ active' = FALSE
    /\ Notify
    /\ io' = "joinWrk"
    /\ UNCHANGED <<fate, captureRunning, yuvSeqNO, pNextJob, cmd, capVars, encVars, left,
                   wrkBuf, ring>>

\* pWorkThread->join(), reset(); a hangup goes on to the destructor
JoinWorker ==
    /\ io = "joinWrk"
    /\ wrk \in {"exited", "off"}
    /\ wrk' = "off"
    /\ \/ cmd = "quit" /\ io' = "idle" /\ UNCHANGED cmd
       \/ cmd = "hangup" /\ io' = "stop" /\ cmd' = "destroy"
    /\ UNCHANGED <<fate, captureRunning, yuvSeqNO, svcVars, capVars, encVars, left, wrkBuf,
                   ring>>

IoNext == \/ PostJob \/ StopCapture \/ IoTestCapture \/ IoJoinCapture \/ IoResetCapture
          \/ ClearSeqNO \/ PushTerminator \/ JoinEncoder \/ Launch
          \/ StartCapture \/ IoSetFlag \/ IoNewCapture \/ Terminate \/ JoinWorker

-----------------------------------------------------------------------------
\* The service is destroyed, the process is dead, or undefined behaviour began.
Live     == ~crashed /\ ~raced
Finished == /\ io = "gone" \/ ~Live
            /\ UNCHANGED vars

Next == \/ Live /\ CapNext
        \/ Live /\ EncNext
        \/ Live /\ WrkNext
        \/ Live /\ IoNext
        \/ Live /\ \E c \in Commands : Command(c)
        \/ Live /\ Hangup
        \/ Finished

Spec == Init /\ [][Next]_vars

\* Every thread runs; nobody obliges the client to type or to stay.  The
\* encoder may go on reading for ever: only its own steps are fair, not its
\* failures.
Fairness == /\ WF_vars(Live /\ CapNext)
            /\ WF_vars(Live /\ EncNext)
            /\ WF_vars(Live /\ WrkNext)
            /\ WF_vars(Live /\ IoNext)

FairSpec == Spec /\ Fairness

-----------------------------------------------------------------------------
(* Properties *)

\* Every variable has its type.
TypeOK ==
    /\ captureRunning \in BOOLEAN
    /\ yuvSeqNO \in 0 .. MaxSeq + 1
    /\ active \in BOOLEAN
    /\ pNextJob \in 0 .. MaxJob
    /\ io \in {"idle", "post", "stop", "test", "join", "reset", "seq", "terminator", "joinEnc",
               "launch", "start", "flag", "create", "terminate", "joinWrk", "gone"}
    /\ cmd \in Commands \cup {"none", "hangup", "destroy"}
    /\ cap \in {"none", "loop", "captured", "push", "done", "ended"}
    /\ enc \in {"none", "parse", "stop", "test", "join", "reset", "flag", "create", "read",
                "ended"}
    /\ wrk \in {"check", "wait", "asleep", "job", "loop", "captured", "push", "done", "exited",
                "off"}
    /\ {capBuf, wrkBuf} \subseteq Frame \cup {EmptyBuf}
    /\ inFrameCount \in Nat
    /\ left \in 0 .. MaxJob
    /\ session \in 0 .. MaxSessions
    /\ chan \in Seq(Frame \cup {EmptyBuf}) /\ Len(chan) <= YUV_BUFSIZE
    /\ got \in [{"enc"} -> Frame \cup {EmptyBuf}]
    /\ {crashed, raced} \subseteq BOOLEAN
    /\ interrupted \subseteq {"reader", "job"}

\* The contract of SharedBuffer::writeBuf(), "only for single writer"
\* (common_utils.hpp:133): no thread writes or publishes the slot while another
\* one is between writeBuf() and push().
OneWriter == ~raced

\* There is one writer unless the connection is lost during a job or while an
\* encoder starts its reader.
SingleWriterRule == interrupted = {} => OneWriter

\* EndStreaming() "end all, capture and encoder" (desktop_streaming_service.hpp
\* line 83): when it has returned there is no capture thread and no encoder.
EndAll == io \in {"terminate", "joinWrk"} \/ (io = "launch" /\ session > 0) =>
             cap = "none" /\ enc = "none"

\* So it is, lost connections included, unless one is lost between the "x265"
\* command and the end of startReader().
EndAllRule == "reader" \notin interrupted => EndAll

\* The empty buffer EndStreaming() pushes to "make readPicture return false"
\* (line 90) ends the encoder that call is waiting for, and no other one,
\* whatever was going on when the connection was lost.
TerminatorIsMeant ==
    [][ReadPicture /\ got'["enc"] = EmptyBuf => io = "joinEnc"]_vars

\* The encoder reads the frames of its own session, each once and in order: the
\* seqNO of the frame it read is the number of frames it has read
\* (YuvFrameInfo( ++yuvSeqNO ) against pic_orig.poc = inFrameCount); unless the
\* connection is lost during a job or while the encoder starts its reader.
FramesInOrder == interrupted = {} /\ enc = "read" /\ inFrameCount > 0 =>
                    got["enc"] = <<session, inFrameCount>>

\* No std::thread is destroyed while it is joinable and none is joined twice,
\* though five paths of three threads create, join and reset them; unless the
\* connection is lost between the "x265" command and the end of startReader().
NoCrash == "reader" \notin interrupted => ~crashed

\* The types, and no thread handle is destroyed too early.
StreamingInv == TypeOK /\ NoCrash

\* After each command of the documented use, and after a connection lost when
\* no job and no start of a reader was going on, handle_msg() returns: no join
\* and no push of the io thread waits for ever.
CommandsReturn == io \notin {"idle", "gone"} ~> io \in {"idle", "gone"} \/ interrupted # {}
=============================================================================
