--------------------------- MODULE FrameReceiver ---------------------------
(***************************************************************************)
(* The streaming client (common/network/desktop_streaming_request.hpp and  *)
(* .cpp, client.cpp) and the framing of the data connection it reads.      *)
(*                                                                         *)
(*   the server   sends frames, a header and a body each, in whole         *)
(*                buffers, and may send a raw file on the same connection  *)
(*   the io thread  reads in exact lengths: a header, then the body the    *)
(*                header announces, and queues the frame for the player    *)
(*   the player   takes a frame from the queue, copies it to the decoder   *)
(*                and gives its buffer back to the pool                    *)
(*                                                                         *)
(* Bytes are abstracted to units: a header is the marker byte 0xFE and one *)
(* unit with the length, a body is as many units as its size, and a file   *)
(* is any number of units of any content.  A frame is named by its         *)
(* position in the stream.  The client knows nothing of units: where it    *)
(* looks for a header and finds another unit, that unit may begin with the *)
(* marker as well, and what follows is then read as any length.            *)
(***************************************************************************)
EXTENDS Integers, Sequences, FiniteSets, FiniteSetsExt, SequencesExt

CONSTANTS MaxFrames,        \* bound: frames the server sends
          MaxFiles,         \* bound: units of files the server sends
          Sizes,            \* sizes of encoded frames
          Lengths,          \* bound: lengths found where there is no header
          Buffers,          \* bound: names of receive buffers
          ListSize          \* buffers the pool keeps (10)

\* recvData() asserts a length > 0, and read_packet() asserts that a frame fits
\* the buffer of the player: a length that fails one of them ends the client,
\* and is not modelled
ASSUME SizesAssumption == Sizes \subseteq Nat \ {0} /\ Lengths \subseteq Nat \ {0}
ASSUME BoundsAssumption == MaxFrames \in Nat /\ MaxFiles \in Nat /\ ListSize \in Nat

HeaderLen == 2
None   == "none"            \* a null pointer
Header == "header"          \* pHeaderBuf
ASSUME NamesAssumption == {None, Header} \cap Buffers = {}

Unit(part, f, n) == [part |-> part, frame |-> f, n |-> n]

\* SendEncodedFrame(): the buffer holds the header and the frame; the header
\* gets the length of the frame alone
FrameLenWhole(bufSize) == bufSize                         \* mutant
FrameLen(bufSize) == bufSize - HeaderLen
HeaderOf(f, s) ==
    <<Unit("mark", f, 0), Unit("len", f, FrameLen(HeaderLen + s))>>
Body(f, s) == [i \in 1 .. s |-> Unit("body", f, i)]

VARIABLES
    sent,       \* sizes of the frames sent so far
    files,      \* units of files sent so far
    before,     \* history: frames sent before the first file
    wire,       \* units in the socket
    broken,     \* the connection was lost
    reads,      \* pending async_reads: buffer and length
    content,    \* units in each buffer, pHeaderBuf included
    io,         \* step of the io thread
    next,       \* nextFrame
    strayed,    \* history: something else was taken for a header
    pool,       \* bufList of gRecvBufMgr
    queue,      \* frameQueue
    player,     \* step of the player, and the frame in its hand
    out         \* what the decoder was given

server == <<sent, files, before, broken>>
client == <<reads, content, io, next, strayed>>
vars   == <<server, wire, client, pool, queue, player, out>>

NoFrame == [seq |-> 0, buf |-> None]

\* Start(): the header is requested before the command is sent
Init == /\ sent = <<>> /\ files = 0 /\ before = 0 /\ wire = <<>> /\ broken = FALSE
        /\ reads = <<[buf |-> Header, len |-> HeaderLen]>>
        /\ content = [b \in Buffers \cup {Header} |-> <<>>]
        /\ io = "idle" /\ next = NoFrame /\ strayed = FALSE
        /\ pool = <<>> /\ queue = <<>>
        /\ player = [pc |-> "pop", frame |-> NoFrame]
        /\ out = <<>>

-----------------------------------------------------------------------------
(* The server.  Buffers are written whole and in order (SendQueue).        *)

\* writeHeaders() and writeFrame(), SendEncodedFrame()
SendFrame(s) ==
    /\ Len(sent) < MaxFrames /\ ~ broken
    /\ sent' = Append(sent, s)
    /\ before' = IF files = 0 THEN Len(sent') ELSE before
    /\ wire' = wire \o HeaderOf(Len(sent'), s) \o Body(Len(sent'), s)
    /\ UNCHANGED <<files, broken, client, pool, queue, player, out>>

\* SendFile(): the file as it is, in chunks; frames may come between them
SendFile ==
    /\ files < MaxFiles /\ ~ broken
    /\ files' = files + 1
    /\ wire' = Append(wire, Unit("file", 0, 1))
    /\ UNCHANGED <<sent, before, broken, client, pool, queue, player, out>>

\* the connection breaks, and loses what it carries
Break ==
    /\ ~ broken /\ broken' = TRUE
    /\ wire' = <<>>
    /\ UNCHANGED <<sent, files, before, client, pool, queue, player, out>>

-----------------------------------------------------------------------------
(* The connection: recvData() and handle_recvData().                       *)

\* transfer_exactly(len)
Complete(r) == Len(content[r.buf]) = r.len

\* async_read() obtains some more of what it was asked for
ReadSome ==
    /\ io = "idle" /\ reads # <<>> /\ wire # <<>>
    /\ LET r == Head(reads) IN
        /\ ~ Complete(r)
        /\ content' = [content EXCEPT ![r.buf] = Append(@, Head(wire))]
    /\ wire' = Tail(wire)
    /\ UNCHANGED <<server, reads, io, next, strayed, pool, queue, player, out>>

\* the handler of a complete read runs; the io thread is one
HandleRead ==
    /\ io = "idle" /\ reads # <<>>
    /\ Complete(Head(reads))
    /\ io' = IF Head(reads).buf = Header THEN "header" ELSE "body"
    /\ reads' = Tail(reads)
    /\ UNCHANGED <<server, wire, content, next, strayed, pool, queue, player, out>>

\* a read that fails: handle_error() logs it, and nothing is read any more
HandleError ==
    /\ io = "idle" /\ broken /\ reads # <<>>
    /\ ~ Complete(Head(reads))
    /\ reads' = Tail(reads)
    /\ UNCHANGED <<server, wire, content, io, next, strayed, pool, queue, player, out>>

NoRequest(b, n) == UNCHANGED <<reads, content>>           \* mutant
\* recvData() of n units into buffer b
Request(b, n) ==
    /\ reads' = Append(reads, [buf |-> b, len |-> n])
    /\ content' = [content EXCEPT ![b] = <<>>]

RequestFrameHeader == Request(Header, HeaderLen)

-----------------------------------------------------------------------------
(* BufferMgr.  A buffer exists as long as somebody holds it.               *)

Held == {next.buf, player.frame.buf} \cup Range(pool)
        \cup {queue[i].buf : i \in DOMAIN queue}

GetKept(b) ==                                             \* mutant
    b = (IF pool # <<>> THEN Head(pool) ELSE CHOOSE x \in Buffers : x \notin Held)
      /\ pool' = pool
\* get(): the front of the pool, or a new buffer while Buffers lasts (bound)
Get(b) ==
    IF pool # <<>>
    THEN b = Head(pool) /\ pool' = Tail(pool)
    ELSE /\ Buffers \ Held # {}
         /\ b = (CHOOSE x \in Buffers : x \notin Held) /\ pool' = pool
\* put()
Put(b) == pool' = IF Len(pool) < ListSize THEN Append(pool, b) ELSE pool

-----------------------------------------------------------------------------
(* The io thread.                                                          *)

Marked(header) == header[1].part = "mark"
\* the length a header gives, or what the bytes in its place may give
Announced(header) == IF Marked(header) THEN {header[2].n} ELSE Lengths

\* OnFrameHeader(): without the marker the reading ends
RefuseHeader ==
    /\ io = "header" /\ ~ Marked(content[Header])
    /\ io' = "idle"
    /\ UNCHANGED <<server, wire, reads, content, next, strayed, pool, queue, player, out>>

\* and whatever begins with the marker is a header
OnFrameHeader ==
    /\ io = "header"
    /\ \E b \in Buffers, n \in Announced(content[Header]) :
        /\ Get(b)
        /\ next' = [seq |-> content[Header][1].frame, buf |-> b]
        /\ Request(b, n)
    /\ io' = "idle"
    /\ strayed' = (strayed \/ ~ Marked(content[Header]))
    /\ UNCHANGED <<server, wire, queue, player, out>>

\* OnFrameBody(): the next header is requested first; a wrong checksum is
\* only logged
OnFrameBody ==
    /\ io = "body"
    /\ RequestFrameHeader
    /\ io' = "push"
    /\ UNCHANGED <<server, wire, next, strayed, pool, queue, player, out>>

PushFrame ==
    /\ io = "push"
    /\ queue' = Append(queue, next)
    /\ io' = "idle"
    /\ UNCHANGED <<server, wire, reads, content, next, strayed, pool, player, out>>

-----------------------------------------------------------------------------
(* The player: read_packet(), called by the decoder over and over.         *)

PopFrame ==
    /\ player.pc = "pop" /\ queue # <<>>
    /\ player' = [pc |-> "copy", frame |-> Head(queue)]
    /\ queue' = Tail(queue)
    /\ UNCHANGED <<server, wire, client, pool, out>>

CopyFrame ==
    /\ player.pc = "copy"
    /\ out' = Append(out, content[player.frame.buf])
    /\ player' = [player EXCEPT !.pc = "clear"]
    /\ UNCHANGED <<server, wire, client, pool, queue>>

\* put() clears the buffer before it takes the lock of the pool
ClearBuffer ==
    /\ player.pc = "clear"
    /\ content' = [content EXCEPT ![player.frame.buf] = <<>>]
    /\ player' = [player EXCEPT !.pc = "put"]
    /\ UNCHANGED <<server, wire, reads, io, next, strayed, pool, queue, out>>

PutBuffer ==
    /\ player.pc = "put"
    /\ Put(player.frame.buf)
    /\ player' = [pc |-> "pop", frame |-> NoFrame]
    /\ UNCHANGED <<server, wire, client, queue, out>>

-----------------------------------------------------------------------------
Io == ReadSome \/ HandleRead \/ HandleError \/ RefuseHeader \/ OnFrameHeader
        \/ OnFrameBody \/ PushFrame
Player == PopFrame \/ CopyFrame \/ ClearBuffer \/ PutBuffer

Next == (\E s \in Sizes : SendFrame(s)) \/ SendFile \/ Break \/ Io \/ Player

Spec == Init /\ [][Next]_vars
FairSpec == Spec /\ WF_vars(Io) /\ WF_vars(Player)

-----------------------------------------------------------------------------
Units == [part : {"mark", "len", "body", "file"}, frame : 0 .. MaxFrames, n : Nat]
FrameType == [seq : 0 .. MaxFrames, buf : Buffers \cup {None}]

\* Every variable has its type, and the pool keeps no more than its limit.
TypeOK ==
    /\ sent \in Seq(Sizes) /\ Len(sent) <= MaxFrames
    /\ files \in 0 .. MaxFiles /\ before \in 0 .. MaxFrames
    /\ broken \in BOOLEAN /\ strayed \in BOOLEAN
    /\ wire \in Seq(Units)
    /\ reads \in Seq([buf : Buffers \cup {Header}, len : Nat])
    /\ DOMAIN content = Buffers \cup {Header}
    /\ \A b \in DOMAIN content : content[b] \in Seq(Units)
    /\ io \in {"idle", "header", "body", "push"}
    /\ next \in FrameType
    /\ pool \in Seq(Buffers) /\ Len(pool) <= ListSize
    /\ queue \in Seq(FrameType)
    /\ player \in [pc : {"pop", "copy", "clear", "put"}, frame : FrameType]
    /\ out \in Seq(Seq(Units))

\* The reader is in step with the stream: until the client takes another unit
\* for a header, where it looks for a header there is one, or a file, and what
\* it reads as the body of a frame is the body of that frame.  OnFrameHeader()
\* can only notice a wrong marker, and cannot find the next frame again.
InStep ==
    ~ strayed => \A i \in DOMAIN reads :
        LET r == reads[i]  c == content[r.buf] IN
        IF r.buf = Header
        THEN \/ c # <<>> /\ c[1].part = "file"
             \/ \A j \in DOMAIN c : c[j].part = <<"mark", "len">>[j]
        ELSE \A j \in DOMAIN c : c[j] = Unit("body", next.seq, j)

\* One read at most is pending, and the buffer it fills is not in the pool,
\* not queued and not in the hand of the player; no two of them share one
\* ("the caller must serialise read and handle_read", connection.hpp:158).
ReadIsPrivate ==
    LET queued == [i \in DOMAIN queue |-> queue[i].buf]
        taken  == IF player.pc = "pop" THEN <<>> ELSE <<player.frame.buf>>
        filled == [i \in DOMAIN reads |-> reads[i].buf]
    IN  /\ Len(reads) <= 1
        /\ IsInjective(filled \o pool \o queued \o taken)

\* The io thread keeps its place in the stream, and its buffers to itself.
ReceiverInv == TypeOK /\ InStep /\ ReadIsPrivate

\* The frames sent before the first file reach the decoder whole, each once and
\* in the order they were sent, whatever the client makes of the file and of
\* what follows it; and it is given nothing else, unless a unit that begins no
\* header was taken for one (desktop_streaming_request.hpp:77).
PlayedInOrder ==
    /\ \A i \in DOMAIN out : i <= before => out[i] = Body(i, sent[i])
    /\ ~ strayed => Len(out) <= before

\* Every frame sent before the first file is played, unless the connection
\* broke; and what was queued is played all the same.
AllPlayed ==
    /\ \A i \in 1 .. MaxFrames : (before >= i) ~> (Len(out) >= i \/ broken)
    /\ (queue # <<>>) ~> (queue = <<>>)
=============================================================================
