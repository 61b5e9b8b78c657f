# TLA+ models of HEVC desktop streaming

The program streams a desktop: a server captures the screen, encodes it with
x265 1.7 in the same process, and sends the frames over TCP to a client that
decodes and shows them. The modules model what the program adds to x265, a
server with several threads that share buffers, flags and thread handles and a
client that cuts its stream into frames, and the threads of the encoder itself:
its pool, the rows of a frame, the lookahead and the frames encoded at once.

Paths below are relative to `x265_1.7/source`.

## 1. The system

### Threads of the server process

| name | runs | created by |
|------|------|------------|
| io   | `io_service::run()`: acceptors, connections, `handle_msg`, errors, destructors (`server.cpp`) | `main` |
| wrk  | `Service::DoWork()` and the job it is given (`service.hpp:121`) | `Service::start()` |
| enc  | `x265_main()` (`x265.cpp:443`), with the encoder's own pool below it | `StartStreaming()` |
| cap  | `DoStartCapture()` (`input/yuv.cpp:86`) | `StartCapture()`, on io or on enc |

### Components, their state and their operations

| component | state | operations | talks to |
|-----------|-------|------------|----------|
| YUV frame ring, `SharedBuffer` (`common_utils.hpp:100`) | `queue`, `front`, `rear`, a mutex, `condRd`, `condWr` | `writeBuf`, `push()`, `push(arr)`, `pop` | cap, wrk and io push; enc pops |
| Streaming service (`desktop_streaming_service.hpp`, `service.hpp`, `input/yuv.cpp`) | `captureRunning`, `yuvSeqNO`, `pCaptureThread`, `pEncodeThread`; `active`, `pNextJob`, `pWorkThread` | commands `x265`, `pause`, `start`, `n`, `quit`; a lost connection; the destructor | the ring, the encoder, the client's connections |
| Encoder command, `x265_main()` (`x265.cpp`) | the loop counter, the encoder | parse the command line, start a capture, read, encode, end | the ring, the buffer pool, the data connection |
| Buffer pool, `BufferMgr` (`common_utils.hpp:199`) | `bufList` | `get`, `put` | `output/raw.cpp`, `server.cpp` |
| Connections (`connection.hpp`) | `outgoingQueue`, a strand, two maps of handlers | `sendData`, `sendMsg`, `recvData`, `recvMsg`, `OnError` | the socket; Services and server through the maps |
| Server (`server.cpp`) | `notReadyClients`, `connectedClients`, two acceptors | accept, pair, serve one client, create a Service, remove a client | all of the above |
| Client (`client.cpp`, `desktop_streaming_request.*`) | bytes expected next, packet queue, player thread | parse frame headers, queue packets, play | the server, by TCP |
| Encoder's pool (`common/threadpool.cpp`) | sleep bitmap, owners, `helpWanted`, task groups | acquire, poach, bond, sleep, stop | all below |
| Wavefront (`common/wavefront.cpp`, `encoder/frameencoder.cpp`, `framefilter.cpp`) | row bitmaps, `active`, `busy` and `completed` of a row | enable, queue, take, leave, restart, filter a row | the pool |
| Lookahead (`encoder/slicetype.cpp`) | input and output queue, `m_sliceTypeBusy`, `m_outputSignal` | add, flush, decide, get | the API thread, the pool |
| Frame encoders (`encoder/encoder.cpp`, `dpb.cpp`, `ratecontrol.cpp`) | lists and reference counts of pictures, `m_startEndOrder` | encode, recycle, start and end in rate control, stop | lookahead, wavefront |
| Screen capture (`input/capture.hpp`), pixel conversion, encoder analysis | none that outlives a call | numerical, or calls of Windows | the service |

How one frame travels: cap (or wrk) takes a slot with `writeBuf()`, converts the
screen into it, publishes it with `push()`; enc exchanges it for its old buffer
in `readPicture()`, encodes it, copies the result into a buffer of the pool and
posts it to the strand of the data connection; the strand writes one buffer at a
time; the completed write returns the buffer to the pool.

### What is hard

* The ring's slot is filled **without the lock**; only "one writer" protects it
  (`common_utils.hpp:133`), and three threads may be that writer.
* `captureRunning`, `yuvSeqNO`, `pCaptureThread` are shared by four threads and
  guarded by nothing.
* `StartCapture()` runs on io for the command "start" and on enc inside
  `CLIOptions::parse()`, while io may be inside `StopCapture()`.
* io **joins** cap, enc and wrk, each of which may be blocked on the ring.
* The ring outlives the session: what one encoder leaves the next one reads.
* `terminate()` writes `active` and notifies without the mutex of the condition.
* Connections outlive the `ClientInfo` that owned them as long as an
  asynchronous read or write is pending; errors are then attributed to whoever
  has that **IP address** now.
* All Services take the same slot, number 1, in the handler maps
  (`desktop_streaming_service.hpp:33`, `server.cpp:31`) and free it in their
  destructors, after a successor may have taken it.
* A failed write ends the chain of writes with buffers still queued.
* A connection may be lost at any moment of all this; io then ends the service.
* The client finds frames only by counting bytes, on a connection that a file
  transfer may write to as well.
* In the encoder's pool bits are read and cleared in two steps, and
  `m_helpWanted` is written by whoever looks for work and by whoever has some.
* A VBV restart takes rows out of the queue while other workers put them in.
* Frame encoders refer to pictures that others are encoding, and wait for each
  other in rate control by means of one counter.
* `poke()` wakes waiters without changing the value they wait for.

`PROJECT.json`, "hazards", lists each of these at its line, with the property
that watches over it.

### What makes each component correct

* Ring: FIFO, at most `queSize - 1` frames, never a half-written frame, no lost
  wakeup.
* Service: one writer at a time; when a session is ended neither its capture
  nor its encoder survives it; an encoder reads the frames of its own session,
  in order; each command returns. The code keeps these unless the connection is
  lost at two moments, which the properties name (`interrupted`).
* Outgoing queue and pool: one write at a time, one holder per buffer, each
  frame on the wire once and in order, no buffer left behind.
* Server: one client served, it is being read (otherwise its end would never be
  noticed and nobody else ever accepted), no handler of a destroyed Service.
* Client: header and payload lengths stay in step with the stream; the packet
  queue keeps its order and its bound.
* Encoder's pool: a sleeping worker is acquired once, no job stays undone, no
  group is destroyed under a peer, and the pool can be stopped.
* Wavefront: one worker per row, each CTU after those it depends on, filters
  behind, and the frame completed.
* Lookahead and frame encoders: no picture lost, references kept while used,
  the order of rate control fixed, the API thread never left waiting.

## 2. The modules

```
BoundedChannel   abstract: a FIFO channel of whole frames
   ^        ^
   |        +---- DesktopStreaming   uses it as the ring (INSTANCE Ring)
   | refines
SharedBuffer     the ring, its mutex, its two conditions
SendQueue        pool, strand, outgoing queue, socket
TcpServer        acceptors, pairs, Services, handler maps, errors
FrameReceiver    the client: framing, receive pool, packet queue, player
ThreadPool       workers, providers, task groups
RowWavefront     the rows of one frame, over a pool that only sleeps and wakes
Lookahead        input queue, decision, output queue
   ^ extends
FramePipeline    encode(), frame encoders, picture lists, rate control order
MCSharedBuffer, MCSendQueue, MCTcpServer, MCThreadPool, MCRowWavefront,
MCFramePipeline                                  instances for TLC
SharedBufferProofs, SendQueueProofs, TcpServerProofs, DesktopStreamingProofs,
FrameReceiverProofs, ThreadPoolProofs, RowWavefrontProofs,
FramePipelineProofs                              theorems
```

`DesktopStreaming` does not repeat the ring's conditions and slots: it uses
`BoundedChannel`, which `SharedBuffer` is shown to implement **when there is one
writer**, and states that condition as a property of its own
(`SingleWriterRule`). That is the composition of the two: the rule is what
`DesktopStreaming` guarantees to `SharedBuffer`, but for a connection lost at two
moments (section 3), and what `SharedBuffer` needs.
Both halves are proved (`RingIsChannel`, `WritersTakeTurns`).

### SharedBuffer

One action per critical section, since these exclude one another, and one for
each thing that happens outside them: the fill of a slot (`BeginFill`,
`EndFill`), the second evaluation of `writeBuf()` by `push()` (`CallPush`), the
notification after the unlock (`NotifyRd`, `NotifyWr`), a spurious wakeup.
`swap` really exchanges the two buffers: the old buffer of a reader becomes the
slot's contents, and pushing one's own slot exchanges nothing. A frame is an
element of `Data`; `Partial` is a frame that is being written.

### DesktopStreaming

`io`, `cap`, `enc`, `wrk` are program counters; `io = "join"` means "at
`pCaptureThread->join()`". A step ends where another thread can see a call half
done: `StopCapture()` is the write of `captureRunning` (`StopCapture`), the test
of `pCaptureThread` (`IoTestCapture`), `join()` and `reset()`, and the same four
on enc; `EndStreaming()` goes on with `yuvSeqNO = 0`, the empty buffer and the
join of the encoder; a frame is captured (`CaptureFrame`), filled with
`++yuvSeqNO` and pushed. A `std::thread` is joinable from its creation until
`join()` returns; `cap = "ended"` is a thread that has returned and was not
joined. `ResetCapture` and `NewCaptureThread` set `crashed` where the code would
destroy a joinable one (`std::terminate`), and so does a second `join()` while
another thread is in one.

`Command` is a command the client types, dispatched by io when it is idle.
`Hangup` is a lost connection: the path from a read error to `~ClientInfo`,
`terminate()`, and the destructor, whose second `EndStreaming()` is the command
`destroy`. Nothing restricts `Hangup`: io may find the error whatever the other
threads are doing. It records in `interrupted` what was going on: "reader", if
`x265_main()` was between its start and the end of `startReader()`, and "job", if
the worker was not asleep. A frame is its `seqNO` with a ghost, the session it
was captured in.

The threads share these members without locks or atomics. The model takes each
access as atomic and interleaves them; what a compiler may do with the data races
beyond that is left out. Where two threads write one slot of the ring (`raced`)
or `std::terminate` is called (`crashed`) the model ends, as nothing can be said
of what follows.

Three constants choose the environment. `Disciplined`: the client types the
commands in the documented order and waits for the effect of one before it types
the next (`Documented`); it says nothing of a lost connection. `CaptureFails`:
GDI may return no picture. `EncoderStops`: the encoder may end by itself (bad
command line, `encoder_open` failed, `--frames` reached).

### SendQueue

Senders are the encoder thread and the worker of a file transfer. `posted` is
what `strand.post` holds; `sendDataImpl` and `handle_sendData` are the two
handlers of the strand, each atomic because a strand runs one at a time.
`writing` and `completed` are the operating system's half, modelled from how the
code uses `async_write`: a write ends well or with an error, and after an error
the socket is `broken` for good. `MsgConnection` has the same queue
(`connection.hpp:301-333`) without the pool.

### TcpServer

Everything runs on io, so a handler is one action and what is interleaved is the
network and the client processes. A connection is `<<client, "msg">>` or
`<<client, "data">>`. `notReadyClients` and `connectedClients` are keyed by
address as in the code; `handler[conn]` is the Service in slot 1 of the maps of
`conn`; `reading` and `writing` are the pending asynchronous operations, which
keep a connection alive after its `ClientInfo` has gone. `RequestService` has
the code's order: the constructor of the new Service takes the slot and then the
destructor of the Service it replaces frees it.

### FrameReceiver

Bytes are units: a header is the marker and one unit with the length, a body as
many units as its size, a file any number of units between whole frames, of any
content. Where the client looks for a header and finds another unit, it may stop
(`RefuseHeader`), or take it for a header, since its first byte may be 0xFE
(`OnFrameHeader`, with any length of `Lengths`); from then on (`strayed`) files,
headers and frames are read as anything. Units are read whole: that a header is
read from the last bytes of a file and the first of a frame is seen, that one of
its fields is cut is not. Lengths of 0, and those above the buffer of the player,
end the client in an `assert`, and are left out. `reads` holds the pending
`async_read`s with their exact lengths, `content` what is in each buffer, and the
io thread takes one step of a handler at a time, so that the player can act
between the request of the next header and the push of
`nextFrame` (`desktop_streaming_request.hpp:115`). The wire is what `SendQueue`
promises: whole buffers, in order. A buffer is held by whoever has a pointer to
it (`Held`), and only then may the heap not give it out again.

### ThreadPool

`sleep`, `owner`, `helpWanted`, `wake` are the bitmaps, flags and events. The
two halves of `tryAcquireSleepingThread()` are separate steps: `Look` reads the
bitmap, `Grab` clears the bit and looks at its old value; `mask` is the first
bitmap as it was when the call began (`Call`), which is passed by value. A worker that does a
job opens a task group as `slicetypeDecide()` does (`slicetype.cpp:846`), bonds
sleeping workers and waits for them. `StopPool` comes when the frame encoders
are done, as in `Encoder::stopJobs()`.

### RowWavefront

One frame: `EnableRow`, `Retry` and `Complete` are the frame thread in
`compressFrame()`, everything else is a worker. A step ends where the code takes
or gives up a lock or writes an atomic: `LookBelow` reads `m_bAllRowsStop` and
`ActivateBelow` holds the lock of the row below. A restart takes a row out of the
queue (`HaltRow`), waits until nobody is in it (`DrainRow`), and resets it without
a lock (`ResetRow`), the row itself last. Rate control may ask for a
restart at each diagonal (`Diagonal`), at most `MaxRestarts` times; two at once
cannot happen, since a row that has been stopped does not reach its diagonal.
The early returns for a row that is not active or busy (`frameencoder.cpp:802`,
`:805`) are in `StartRow`, and `OneWorkerPerRow` says they are never taken. The
pool is reduced to workers that sleep and `helpWanted`.

### Lookahead and FramePipeline

`api` is the program counter of the thread that calls `x265_encoder_encode()`:
`call` adds a picture or flushes, `get` waits for the frame encoder whose turn
it is, `decide` to `pop` are `getDecidedPicture()`, `start` hands the picture
over, and `close` to `closed` are `stopJobs()`. A frame encoder encodes its rows
in sequence, each as soon as its references have enough rows: what happens
within a row is `RowWavefront`. Reference sets and lists are computed as in
`dpb.cpp` and `slice.cpp`; key frames come every `KeyInt` pictures, and how
many B pictures precede the next P picture is free. `param` is the command line,
one of `Params`. The pop at `slicetype.cpp:683` takes no lock: if a second
decision is pushing at that moment, two threads are in the list at once, which
is undefined, and the model ends there (`crashed`). That can happen with
any command line, the client's (`desktop_streaming_request.hpp:56`) included.

`RcStart` waits for `m_startEndOrder` as a guard. In the code (`ratecontrol.cpp:939`)
the look and the wait are two steps, and the poke of `terminate()` may be lost
between them as it may in `rateControlEnd()`, whose two steps are modelled
(`RcEnd`, `WaitForChange`). For safety the guard is the same, since the order only
grows and `terminated` stays set; what can be lost is progress, and that the
encoder may not close for this reason is finding 4 already.

## 3. The runs

| run | asks | bounds | result |
|-----|------|--------|--------|
| SharedBuffer | is the ring a channel, private while filled, without lost wakeups? | 1 writer, 2 readers, 2 frames, `QueSize = 2` (the service's `YUV_BUFSIZE`) | holds, 568134 states |
| DesktopStreaming_Disciplined | which contracts does documented use keep, whenever the connection is lost? | 2 sessions, 4 frames each, n <= 2, ring of 2 | holds, 98666 states |
| DesktopStreaming_TwoWriters | is there one writer whatever is typed? | 3 frames | violated |
| DesktopStreaming_StaleEnd | does the empty buffer end the encoder it is meant for, if one may end by itself? | 3 frames | violated |
| SendQueue | one write, one holder, all frames in order, all sent? | 2 senders of 3 frames, 4 buffers, a pool of 2 | holds, 357141 states |
| TcpServer | one client, read and noticed, no stale handler? | 3 processes on 2 hosts, 2 names, 2 Services | holds, 141987 states |
| FrameReceiver | does the player get the frames that were sent before a file? | 3 frames of 1 or 2 units, 2 units of files read as a length of 1 or 3, 6 buffers, a pool of 1 | holds, 352889 states |
| ThreadPool | are jobs done and groups and bits exclusive, and does the pool stop? | 2 workers, 2 providers of one job, 2 tasks, 1 peer | holds, 201730 states |
| RowWavefront | are rows encoded once, in order, all of them? | 4 rows of 4 CTUs, 2 workers, 1 restart | holds, 56178 states |
| RowWavefront_Restart | does a restart stop all rows below? | 5 rows of 3 CTUs | violated |
| FramePipeline | are pictures, references, signals and the order of rate control kept? | 7 pictures, 2 frame encoders, 1 worker; no lookahead, and 1 B picture with a lookahead of 2 | holds, 1410822 states |
| FramePipeline_Closes | can the encoder always be closed? | 3 pictures, the client's command line | violated |

Why the bounds are enough for what is asked:

* A ring of two frames has three slots, so it wraps, is full and is empty in all
  positions; two readers are the least that can steal a wakeup from each other.
  The program has one reader; the class is written for several.
* Two sessions are the least in which one can leave something to the next; four
  frames fill the ring of two, leave one in the hands of the blocked writer and
  one to go. `MaxSeq` caps `yuvSeqNO`: a capture thread at the cap waits as a
  slow capture would. In the Disciplined run `n <= 2` gives jobs that end in the
  middle and at the end. `SingleWriterRule` and `EndAllRule` also hold with
  `CaptureFails` and `EncoderStops` (426642 states). Two threads that have both
  seen `yuvSeqNO < MaxSeq` count to `MaxSeq + 1`, as the code without a bound
  would count on. With commands at any time
  (`Disciplined = FALSE`) `TerminatorIsMeant` holds as well: 3491938 states for a
  ring of one, two frames and n = 1, and proved in section 4.
* Two senders with four buffers can hold two, have one written and one waiting;
  a pool of two is smaller than that, so `put` keeps some and drops others.
  `Bufs` bounds the heap: a sender that needs a fifth buffer waits.
* Two processes on one host are what makes addresses ambiguous, the third, on
  another host, is who waits for the server to be free. Two Services replace
  each other under one name or coexist under two.
* Three frames and a receive pool of one make `put` keep a buffer and drop
  others and `get` reuse it; files may come before, between and after frames, two
  in a row. A header is two units: lengths of 1 and 3 read less and more than
  that. `Buffers` bounds the heap: a `get` that needs a seventh buffer waits.
* Two workers are the least that can be acquired by two callers at once, one as
  a peer and one for a provider of higher priority; a second peer would need a
  third. One job per provider is enough for a wish for help to be overwritten.
* Four rows of four CTUs are the least in which a row is left by its worker, is
  queued again, and has rows on both sides that a restart stops. Four rows of
  four CTUs with three workers (1496311 states) keep the invariants as well.
* Seven pictures are past the first key frame distance of 4 and the fill of the
  lookahead; with the client's command line Frames are recycled and reused from
  the fifth picture on. With B pictures that takes eleven pictures: nine
  (5285723 states) hold. Two rows and a lag of one make a reference late at its
  beginning and at its end.

Deadlock is checked in every run in which the system never stops by itself
(`SharedBuffer`). In `DesktopStreaming` io may hang after a connection was lost
during a job (observation 2); that it does not otherwise is `CommandsReturn`.
SendQueue, TcpServer, FrameReceiver, ThreadPool, RowWavefront and FramePipeline stop when all frames
are sent, played or encoded, all clients have left, or the threads have ended:
that they stop only there is what their liveness properties say, but for
FramePipeline, whose end is the question of `FramePipeline_Closes`.
The other runs look for one violation.

Five invariants put the types and a property about the component together
(`StreamingInv`, `ReceiverInv`, `PoolInv`, `WaveInv`, `PipeInv`): their parts
are defined and commented one by one. None of the five is inductive; section 4
says what makes them so.

### Fairness

Weak fairness of the steps a running thread takes, because the operating system
schedules threads and `io_service::run()` dispatches what has completed. No
fairness of what nobody is obliged to do: a writer need not begin a frame, a
client need not type, connect or leave, an encoder need not fail, a sender need
not send. A wait on a condition is enabled again only by a notification or by a
spurious wakeup, and no fairness is given to spurious wakeups, so that they
cannot rescue a lost one. A pending write completes, well or with an error, and
a broken connection fails its pending read.

In the encoder, threads run; whether a worker of the pool ever looks at the
lookahead is not assumed, since its provider may not be the one it works for.
The timed wait of a frame encoder times out again and again (`Retry`), which is
what makes `FrameCompletes` and `JobsAreDone` true: wakeups do get lost, as
`findJob()` overwrites `m_helpWanted` (`wavefront.cpp:108`), and the mutants
without the timeout show it. In `ThreadPool` 250 ms are assumed to be longer
than a call of `tryAcquireSleepingThread()`.

### Findings

Reproduced by a run; the trace TLC prints is the scenario.

1. **Two writers** (`DesktopStreaming_TwoWriters`, `input/yuv.cpp:123`). "n" is
   queued, "start" arrives before the worker has set `captureRunning`, and cap
   and wrk fill one slot.
2. **The empty buffer ends the next session** (`DesktopStreaming_StaleEnd`,
   `desktop_streaming_service.hpp:90`). The encoder had ended by itself; nobody
   pops the buffer pushed for it.
3. **A restart does not stop all rows** (`RowWavefront_Restart`,
   `frameencoder.cpp:1020`). The worker of row r + 1 has seen `m_bAllRowsStop`
   clear, the worker of row r starts a restart and passes row r + 2, and the
   first one then queues row r + 2 on CTUs that are thrown away. Only with VBV,
   which the client's command line does not ask for.
4. **The encoder does not close** (`FramePipeline_Closes`,
   `ratecontrol.cpp:2160`). A frame encoder has looked at `m_finalFrameCount`
   and `m_bTerminated` and is about to wait; both pokes come now; it sleeps, and
   `getEncodedPicture()` waits for it for ever.

### Observations

Each is the violation of the formula it names, a property of this project without
its premise on `interrupted` where none is given, when TLC checks it with a kept
configuration, with the constants changed as it says.

1. **A connection lost while an encoder starts its reader**, all commands typed
   as documented (`desktop_streaming_service.hpp:70`, `:76`-`:78`). io
   finds no capture to stop and enc creates one afterwards, which survives
   `EndStreaming()`, "end all, capture and encoder" (`EndAll`); or enc stores it
   between the test of io and its `reset()`, which destroys it joinable
   (`~crashed`); the empty buffer of io and a frame of the new capture are written
   to one slot (`OneWriter`); and `yuvSeqNO = 0` comes between two frames of that
   capture, so that frame 1 is read twice (`FramesInOrder`).
2. **A connection lost during a job**, all commands typed as documented. The worker
   has unlocked but not yet set `captureRunning` (`service.hpp:135`,
   `yuv.cpp:119`): it captures while io ends the session, both write one slot
   (`OneWriter`), or the old encoder reads frame 1 again (`FramesInOrder`). The
   worker has looked at the condition but does not wait yet (`service.hpp:128`):
   `terminate()` notifies without the mutex, the wakeup is lost, and io joins the
   worker for ever (`CommandsReturn`). The same happens, without a lost
   connection, with commands that are not waited for (`Disciplined = FALSE`).
3. **A joinable thread is destroyed** (`NoCrash`, with `CaptureFails = TRUE`;
   `desktop_streaming_service.hpp:70`). A capture that failed clears
   `captureRunning` itself and is never joined.
4. **io waits for ever on a full ring** (`CommandsReturn`, with `EncoderStops =
   TRUE`; `desktop_streaming_service.hpp:77`, `:90`). The encoder has ended by
   itself and nobody pops: "pause" joins a capture that is blocked in `push()`, or
   the empty buffer finds no place.
5. **A restart that never ends** (`FrameCompletes`, `RowWavefront` with
   `NumCols = 3`; `frameencoder.cpp:971`). A row below the restarted one has
   finished, and `active` is not cleared by that, so the loop waits for a bit
   that is never set. With two rows and a filter delay of two the filter of row
   0 is never queued: hence `DelayAssumption`.
6. **The output queue is popped during a push** (`crashed` of `FramePipeline`,
   reached with the client's command line as well; `slicetype.cpp:683`). The
   decision the API thread was to wait for had ended, and the next one is
   appending to the list when the API thread pops it without the lock. The
   properties of `FramePipeline` say nothing of what follows.
7. **The final frame count is not final** (`final > 0 => encoded = final`, also
   with the client's command line; `encoder.cpp:732`). A decider that has put out
   its pictures has not yet cleared `m_sliceTypeBusy`: `findJob()` of the API
   thread decides nothing, and `getDecidedPicture()` returns nothing although
   pictures remain in the input queue. `encode()` takes the count so far for the
   final one, which is "unambiguously known" (`ratecontrol.cpp:2330`), and from
   then on `rateControlEnd()` does not wait for its turn: `SameRateControl` fails
   without its premise `final = 0`.
8. **Frames after a file are lost or replaced** (`FrameReceiver`;
   `server.cpp:93`). A file goes over the connection of the framed stream. If it
   does not begin with 0xFE the client stops reading; if it does, any length is
   read from it. `PlayedInOrder` speaks only of what was sent before.

Beyond these, from the sources: `removeClient()` erases by address, so a late
error of one connection removes another client of the same host whose own
connection is still read (`server.cpp:264`), and the connections of two processes
of one host are paired with each other; after a broken connection the
player waits in `pop()` for ever, and nothing tells it; the comment at
`slicetype.cpp:805`, "called ... with inputQueueLock acquired", is not true.

Read, and part of the models, but contradicting no sentence of the sources:
`jobRunning` is read by no job, and a job that begins just after `terminate()`
runs to its end (`BeginJob`); after a write error whatever was queued stays
queued (`QueueIsServedUntilBroken` and `AllSent` have a premise for that
reason); one slot for all Services means that a second Service silences the
first, and that replacing a Service leaves its successor without a handler
(`RequestService` shows both; `HandlersAlive` says only that no handler outlives
its Service).

## 4. The proofs

TLC checks the instances above; these theorems hold for every value of the
constants that satisfies the named assumptions.

| theorems of | states | assumes |
|-------------|--------|---------|
| `SharedBufferProofs` | | `QueSizeAssumption`, `ThreadsAssumption` |
| `TypeCorrect` | `[]TypeOK` | |
| `WakeupsAreKept` | `[]NoLostWakeup` | `FiniteAssumption` |
| `FillIsPrivate`, `FramesAreWhole` | `[]FillOutsideQueue`, `[]NoTornFrame` | `ContentsAssumption`, `OwnAssumption`, and `SingleWriter` |
| `RingIsChannel` | `ImplementsChannel` (refinement) | the same |
| `SendQueueProofs` | | `ListSizeAssumption`, `MaxFramesAssumption`, `NoneAssumption` |
| `QueueCorrect`, `TypeCorrect`, `WritesDoNotOverlap`, `BuffersAreNotShared`, `QueueIsNotStuck` | `[]QueueInv` and its parts | |
| `FramesArriveInOrder` | `[]WireInOrder` | |
| `TcpServerProofs` | | `MaxServicesAssumption` |
| `TypeCorrect`, `OneClientAtATime`, `ServedClientIsRead`, `NoStaleHandler` | `[]TypeOK`, `[]ServesOne`, `[]ServedIsRead`, `[]HandlersAlive` | |
| `DesktopStreamingProofs` | | `BoundsAssumption`, and `Disciplined` |
| `WritersTakeTurns`, `EndStreamingEndsAll` | `[]SingleWriterRule`, `[]EndAllRule` | |
| `NoThreadIsLost` | `[]StreamingInv` | and `~CaptureFails` |
| `SessionIsInOrder` | `[]FramesInOrder` | and `~EncoderStops` |
| `TerminatorFindsItsEncoder` | `TerminatorIsMeant` (of steps) | `~EncoderStops`, but not `Disciplined` |
| `FrameReceiverProofs` | | the four assumptions of `FrameReceiver` |
| `ReceiverIsInStep`, `WholeFramesArePlayed` | `[]ReceiverInv`, `[]PlayedInOrder` | |
| `ThreadPoolProofs` | | the five assumptions of `ThreadPool` |
| `PoolIsSafe`, `PeersAreOut` | `[]PoolInv`, `[]NoPeerLeftBehind` | |
| `RowWavefrontProofs` | | the four assumptions of `RowWavefront`, and `MaxRestarts = 0` |
| `RowsAreNotShared`, `CtusAreReady`, `FiltersStayBehind`, `FrameIsDone` | `[]WaveInv`, `[]CtuReady`, `[]FilterBehind`, `[]DoneIsDone` | |
| `FramePipelineProofs` | | the assumptions of `Lookahead` and `FramePipeline` |
| `WaitersAreSignalled` | `[]WaitIsSignalled` | |
| `ReferencesAreHeld` | `[]RefsHeld` | |
| `RateControlIsInOrder` | `SameRateControl` (of steps) | |
| `PicturesAreCounted` | `[]PipeInv` | |
| `ReferencesAreRight` | `[]RightReferences` | |

The assumptions say that sizes and bounds are naturals, that the threads of a
program are finitely many, and that two kinds of names do not overlap
(`FiniteAssumption`, `PoolAssumption`, `NamesAssumption`, ...); TLC evaluates
them in every run. What is a contract of the code rather than a fact is a
hypothesis of the theorem that needs it:

* `Disciplined` is the order of commands in the repository's README; without it
  there are two writers (finding 1). It holds nothing back but commands.
* The first four theorems of the service are about properties with a premise on
  `interrupted`: the connection was not lost during a job or the start of a
  reader, or for `EndAllRule` and `StreamingInv` not during the latter. Observations
  1 and 2 are what happens otherwise.
* `~CaptureFails` and `~EncoderStops` are needed: observation 3 and finding 2
  are what happens otherwise. The other theorems about the service hold with
  both, and they are stated without them.
* `WholeFramesArePlayed` is about the frames sent before the first file, and
  `ReceiverIsInStep` about the time until something else is taken for a header;
  that buffers are private holds after that as well.
* `MaxRestarts = 0` says that rate control has no VBV, as with the client's
  command line. Finding 3 shows that with a restart the rows are not ordered any
  more. The run `RowWavefront` checks the same invariants with one restart in a
  frame too small for that finding.

* `SingleWriter` is the comment at `common_utils.hpp:133`. `TypeCorrect` and
  `WakeupsAreKept` do without, and `WritersTakeTurns` proves when the program
  keeps it.

**FillInv.** That a slot being filled is not occupied is not inductive: nothing
in it says which slot that is once `rear` has moved. `InPlaceAtRear` says that a
writer which fills in place, up to its `push`, holds the slot at `rear`; one
writer keeps that, since only `Push` moves `rear`. `PartialOnlyInFill` says that
half-written contents are only in such a slot. With `rear` outside `Occupied` by
arithmetic, both properties follow.

**The ring as a channel.** The refinement mapping rebuilds the channel from the
slots: `Published` is the sequence of the contents from `front` to `rear`, and a
reader has got what is in its own buffer. Under `FillInv` a `Push` appends one
whole frame, a `Pop` takes the head and hands back a buffer that lands outside
`Published`, and every other step, the filling of a slot included, leaves both
unchanged. The lemmas are about `%`: where slot `front + i - 1` is, and that no
two positions share one.

**WakeInv.** `NoLostWakeup` compares the frames in the ring with the threads at
two labels. It is inductive once the labels are known to be those of writers or
of readers: each step moves one thread from one label to another, and changes
the number of frames by one at most (`Many` counts the threads at a label).

**QueueInv.** Whether `sendDataImpl` starts a write depends on the length of the
queue, so "at most one write" needs "a queue that is not empty has a write" (the
served property) and the other way round. `OneHolder` needs that the completed
buffer is the front of the queue, which `OneWrite` says. `ErrorBreaks` connects
an error on its way to `broken`, so that the handler that does not start the
next write is covered by the premise. Facts on `Append`, `Tail` and
`IsInjective` are lemmas (`AppendFacts`, `TailFacts`, ...) used in all steps.

**WireInv.** That the wire is in order says nothing of what comes next. The
frames of a sender are in order along the queue and what the strand will put
there (`InOrder`), and none is there or on the wire that was not sent
(`Counted`); what is on the wire is not queued again (`NotRepeated`) and what was
sent is on the wire or on its way (`NotLost`), the last two until the socket
breaks, after which the wire does not change. It rests on `QueueInv`: a buffer in two places could
be overwritten in one of them.

**ServerInv.** `ServesOne` is stated with `Cardinality`; its inductive form is
`OneServed`. `ServedIsRead` needs that what is stored under an address comes from
there (`Tracked`): otherwise the error of another connection, which removes the
client at *its* address and ends *its* read, could end the read of a client that
stays. `PairsComplete` and `HandlersAlive` then go through each action.

**The streaming service.** `captureRunning` and the program counters of four
threads say together who writes the ring. The inductive invariant has one part
for each thing that a lost connection may destroy. What io may be doing holds
always (`Handled`), and so does that after an interruption it is closing the
service (`Lost`). When an encoder starts or lives (`Encoder`) and when a capture
may exist (`Capture`) need that no start of a reader was interrupted. When the
worker has a job and what io waits for then (`Worker`), and what `captureRunning`
says (`Flag`), need that nothing was. `SingleWriterRule`, `EndAllRule` and
`NoCrash` are consequences. `Filled` says what is in the ring: the frames of this
session in order, then at most one empty buffer, which io is waiting to see
taken; it is the part that an encoder which ends by itself breaks.
`TerminatorIsMeant` has a small invariant of its own, `Meant`, which survives any
command and any interruption: the ring holds one empty buffer at most, and then io
is in the join of the encoder that will read it.

**The client.** Until something else is taken for a header (`Straight`), a frame
that was read is next, in the queue, in the hand of the player or played, and the
numbers of these follow one another (`Numbers`); the units in the socket are such
that each is followed by the right one (`Stream`), and they go on where the read
that is pending or done stopped. After that (`Astray`) nothing is said of what is
read, but the frames sent before the file are all read by then, and are played,
queued or in the hand of the player. The frames that are queued are whole
(`WholeFrames`), which needs that nobody reads into their buffers (`Owned`).

**The pool.** `Exclusive` counts the hands a worker is in; the inductive form
speaks of each: who acquired a worker has it alone (`Hands`), and acquiring ends
before the pool is stopped since only a master of a group acquires peers
(`Acquirers`) and all jobs are accounted for (`JobsAccounted`). A bonded worker
is on its way to its group or in it, and the master is still there (`Bonds`),
because `count`, `exited`, `acquired` and `finished` are the numbers of peers and
of tasks (`Counts`): `waitForExit()` returns when they agree.

**The rows.** A row that is active is queued, or one worker has it, or neither
(`Tokens`). The rows form a stair, and one that is queued or starts has its
neighbour two ahead (`Columns`), hence `CtuReady`, with `References` for the rows
of other frames. The filter rows are one token passed on from row to row
(`Filters`), each behind the row that covers it, and the counter that ends the
frame is the number of rows encoded and filtered (`Counted`).

**The frame encoders.** `WaitInv`: one thread decides at most, and the API thread
waits exactly while the signal is asked for or given. `ListInv`: a Frame is in
one place, on its way from the input queue to an encoder, in the picture list or
in the free list (`WayApart`, `ListsApart`), and its count of references is at
least the number of encoders that hold it (`Counts`), so that
`recycleUnreferenced()` does not take it (`InDPB`). `RateInv`: with *s* pictures
started and *n* ended, `m_startEndOrder` is `s + min(s, NumThreads - 1) + n`, and
*n* is at most `s - NumThreads + 1` (`InTurn`). Ends come in turn without being
ordered among themselves by the counter alone: at most `NumThreads` encoders are
at work, and their numbers are different and at least *n*. This needs the handshake of
`enable` and `done` of each encoder (`Handshake`).

`CountInv`, for `PipeInv`: a picture waits or has been given to an encoder, and
the delayed ones are those that wait or are still there (`Conserved`). What the
deciders hold is counted as a set of pairs; at most one of them holds pictures
(`Grouped`, `HeldByOne`), so that a picture that leaves its hands for the output
queue changes no sum. That `m_startEndOrder` stays within its bound follows from
`EventsBound`: it counts the starts and ends that have happened, and each encoder
says how many of its own are still to come.

`OrderInv`, for `RightReferences`. `Line` is the pictures in the order in which
they will be encoded: the one in the hand of the API thread, the output queue,
and those chosen but not put out. Each of them fits behind the pictures that may
be referred to now and those before it in the line (`InLine`): a P picture is
after all of these and at most a mini-GOP after the latest, a B picture between
the two that are latest. The input queue goes on where the line ends
(`Consecutive`, `Tip`), so that a new decision fits. That a picture which was
fitting still is when it starts needs that the DPB loses no reference too many:
the list of references is sorted latest first (`Sorted`), and the refresh after a
CRA picture and the limit of the reference set, which take from its other end,
keep the latest and, with B pictures, the two latest (`Keeps`, `StartKeeps`);
for the refresh because the CRA picture it waits for is the latest reference
(`CraTop`). The references given at the start are then the nearest on each side
(`NearestHas`), and are not touched while the encoder works (`Rights`).

`Select`, which copies the part of a list that is in a set, is a recursive
function; the facts about it, and that a nonempty set of naturals has a least
element, are proved from the well-foundedness of `<` (`NatLessThanWellFounded`,
`WFMin`) applied to the set of counterexamples, since the induction theorems of
the library take an operator.

**What stays with TLC.** The liveness properties (`CallsReturn`,
`CommandsReturn`, `AllSent`, `DeadClientLeaves`, `AllPlayed`, `JobsAreDone`,
`PoolStops`, `FrameCompletes`): fairness and ENABLED are outside what the
installed provers do. The invariants of `RowWavefront` when rows restart: the theorems have
`MaxRestarts = 0`. The runs that find violations have nothing to prove.

## 5. What is not modelled

* Pixels, bitstreams, the numbers of rate control, analysis, transforms, entropy
  coding: numerical code of the upstream encoder, and by far most of its lines.
  So are the costs from which the lookahead chooses types.
* The vendored headers of SDL and FFmpeg under `client`, the assembly, the build.
* The Windows calls of the capture: only whether a picture was obtained.
* Texts of messages and logs; the parsing of the `x265` command line, of which
  only success, failure and the call of `startReader()` matter here.
* The FPS counter (`server.cpp:340`, `fps_timer_counter`): its cancelled handler
  counts once more and two threads use the flag, but the count is only logged.
* Options of the encoder that the client's command line excludes: encoding
  without a wavefront, zero latency, B pyramids, scene cuts, exported
  reconstructions, two passes, parallel mode decision.
* Failed allocations and thread creations in the encoder.
* The dialogue of `client.cpp` and the decoder.
* `remote_endpoint()` may throw after a reset; depends on the system.

## 6. Plan

1. `RowWavefront` with restarts, for the frames of up to four rows in which the
   run finds nothing.
2. `RowWavefront` over `ThreadPool` instead of over its reduction, by refinement.
