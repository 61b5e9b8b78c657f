------------------------ MODULE FrameReceiverProofs ------------------------
(***************************************************************************)
(* For any number of frames of any sizes, any files written on the same    *)
(* connection and a connection that may break: the client reads in step    *)
(* with the stream until it takes something else for a header, into        *)
(* buffers that nobody else uses, and the frames sent before the first     *)
(* file are played, whole, once and in order, whatever it reads later.     *)
(***************************************************************************)
EXTENDS FrameReceiver, SequenceTheorems, TLAPS

-----------------------------------------------------------------------------
(* The inductive invariant *)

HeaderRequest == [buf |-> Header, len |-> HeaderLen]
BodyRequest   == [buf |-> next.buf, len |-> reads[1].len]

\* The io thread is in one place, with at most one read pending.
Filling == io = "idle" /\ reads # <<>> /\ reads = <<BodyRequest>>
Waiting == io \in {"idle", "push"} /\ reads = <<HeaderRequest>>
Head1   == content[Header]
Reader  == /\ Filling \/ Waiting \/ (io \in {"idle", "header", "body"} /\ reads = <<>>)
           /\ io = "header" => Len(Head1) = HeaderLen

\* The frame next is not in the queue yet: its body is read or was read.
Holding == Filling \/ io \in {"body", "push"}

\* The units of a frame, one after the other; after the last one the next
\* frame begins, or a file, and the first file is where it was sent.
Mark(f)      == Unit("mark", f, 0)
Length(f)    == Unit("len", f, sent[f])
IsFile(u)    == u.part = "file"
Begins(u, f) == \/ IsFile(u) /\ f > before
                \/ f \in DOMAIN sent /\ f # before + 1 /\ u = Mark(f)
Follows(u, v) ==
    \/ IsFile(u)
    \/ \E f \in DOMAIN sent :
          \/ u = Mark(f) /\ v = Length(f)
          \/ u = Length(f) /\ v = Unit("body", f, 1)
          \/ \E i \in 1 .. sent[f] - 1 : u = Unit("body", f, i) /\ v = Unit("body", f, i + 1)
          \/ u = Unit("body", f, sent[f]) /\ Begins(v, f + 1)
Ends(u) == \/ IsFile(u)
           \/ /\ sent # <<>> /\ u = Unit("body", Len(sent), sent[Len(sent)])
              /\ files = 0 \/ Len(sent) > before

\* The socket carries whole frames but for what was read of the first.
Stream ==
    /\ broken => wire = <<>>
    /\ \A i \in 1 .. Len(wire) - 1 : Follows(wire[i], wire[i + 1])
    /\ wire # <<>> => Ends(wire[Len(wire)])
    /\ \A i \in DOMAIN wire : IsFile(wire[i]) => files > 0

\* What was read of a header is the header of the frame after next, or begins
\* with the first file; what was read of a body is the body of next.
After == next.seq + 1
HeaderRead ==
    \/ Head1 = <<>>
    \/ After \in 1 .. before /\ Head1 \in {<<Mark(After)>>, <<Mark(After), Length(After)>>}
    \/ Len(Head1) \in {1, 2} /\ IsFile(Head1[1]) /\ files > 0 /\ next.seq = before
BodyRead(n) == content[next.buf] = Body(next.seq, n)
InPlace ==
    /\ Waiting \/ io = "header" => HeaderRead
    /\ Filling => /\ next.seq \in DOMAIN sent /\ reads[1].len = sent[next.seq]
                  /\ \E n \in 0 .. sent[next.seq] : BodyRead(n)
    /\ io \in {"body", "push"} => BodyRead(sent[next.seq])

\* What the socket carries goes on from there.
NextFrame ==
    IF wire = <<>> THEN next.seq = Len(sent) /\ files = 0 ELSE Begins(wire[1], next.seq + 1)
Continues ==
    ~ broken =>
    /\ Waiting /\ Head1 = <<>> => NextFrame
    /\ Waiting /\ Head1 = <<Mark(next.seq + 1)>> => wire # <<>> /\ wire[1] = Length(next.seq + 1)
    /\ (Waiting \/ io = "header") /\ Len(Head1) = 2 /\ ~ IsFile(Head1[1])
          => wire # <<>> /\ wire[1] = Unit("body", next.seq + 1, 1)
    /\ Filling => \A n \in 0 .. sent[next.seq] - 1 :
          BodyRead(n) => wire # <<>> /\ wire[1] = Unit("body", next.seq, n + 1)
    /\ (Filling /\ BodyRead(sent[next.seq])) \/ io = "body" => NextFrame

\* Every frame that was read is next, queued, in the hand of the player or was
\* played; reading ends at an error, maybe within a frame.
Running == io # "idle" \/ reads # <<>>
InHand  == IF player.pc = "copy" THEN 1 ELSE 0
Queued  == Len(out) + InHand + Len(queue)
Numbers ==
    /\ Running => next.seq = Queued + (IF Holding THEN 1 ELSE 0) /\ next.seq <= before
    /\ Queued <= before

\* Until something else was taken for a header, and since then.
Straight == Stream /\ InPlace /\ Continues /\ Numbers
Astray   == files > 0 /\ before <= Queued
Course   == IF strayed THEN Astray ELSE Straight

\* The frames sent before the first file are whole and in order, whether they
\* are in the queue, in the hand of the player or played.
Whole(frame, i) == frame.seq = i /\ content[frame.buf] = Body(i, sent[i])
WholeFrames ==
    /\ before <= Len(sent) /\ (files = 0 => Len(sent) <= before)
    /\ \A i \in DOMAIN out : i <= before => out[i] = Body(i, sent[i])
    /\ player.pc = "copy" /\ Len(out) + 1 <= before => Whole(player.frame, Len(out) + 1)
    /\ \A i \in DOMAIN queue :
          Len(out) + InHand + i <= before => Whole(queue[i], Len(out) + InHand + i)

\* A buffer is in one place.
Private(b) == /\ b \in Buffers /\ b \notin Range(pool)
              /\ \A i \in DOMAIN queue : queue[i].buf # b
Owned ==
    /\ Holding => Private(next.buf)
    /\ player.pc # "pop" => Private(player.frame.buf)
    /\ player.pc = "pop" => player.frame = NoFrame
    /\ Holding /\ player.pc # "pop" => next.buf # player.frame.buf
    /\ \A i, j \in DOMAIN pool : pool[i] = pool[j] => i = j
    /\ \A i, j \in DOMAIN queue : queue[i].buf = queue[j].buf => i = j
    /\ \A i \in DOMAIN queue : queue[i].buf \in Buffers /\ queue[i].buf \notin Range(pool)

IInv == TypeOK /\ Reader /\ Owned /\ WholeFrames /\ Course

-----------------------------------------------------------------------------
(* Lemmas about sequences, frames and the pool *)

LEMMA TailFacts ==
    ASSUME NEW T, NEW s \in Seq(T), s # <<>>
    PROVE  /\ Len(s) \in Nat \ {0} /\ Head(s) = s[1] /\ s[1] \in T
           /\ Tail(s) \in Seq(T) /\ Len(Tail(s)) = Len(s) - 1 /\ DOMAIN Tail(s) = 1 .. Len(s) - 1
           /\ \A i \in 1 .. Len(s) - 1 : Tail(s)[i] = s[i + 1]
           /\ Tail(s) = <<>> <=> Len(s) = 1
<1>1. Len(s) \in Nat \ {0} /\ Head(s) = s[1] /\ s[1] \in T
  BY EmptySeq, LenProperties
<1>2. /\ Tail(s) \in Seq(T) /\ Len(Tail(s)) = Len(s) - 1
      /\ \A i \in 1 .. Len(s) - 1 : Tail(s)[i] = s[i + 1]
  BY HeadTailProperties
<1>3. DOMAIN Tail(s) = 1 .. Len(s) - 1
  BY <1>2, LenProperties
<1>4. Tail(s) = <<>> <=> Len(Tail(s)) = 0
  BY <1>2, EmptySeq
<1> QED
  BY <1>1, <1>2, <1>3, <1>4

LEMMA AppendFacts ==
    ASSUME NEW T, NEW s \in Seq(T), NEW e \in T
    PROVE  /\ Append(s, e) \in Seq(T) /\ Len(Append(s, e)) = Len(s) + 1 /\ Append(s, e) # <<>>
           /\ DOMAIN Append(s, e) = 1 .. Len(s) + 1 /\ DOMAIN s = 1 .. Len(s) /\ Len(s) \in Nat
           /\ \A i \in 1 .. Len(s) : Append(s, e)[i] = s[i]
           /\ Append(s, e)[Len(s) + 1] = e
BY AppendProperties, LenProperties

LEMMA OneFacts == ASSUME NEW T, NEW e \in T
                  PROVE  /\ <<e>> \in Seq(T) /\ Len(<<e>>) = 1 /\ <<e>>[1] = e /\ Head(<<e>>) = e
                         /\ <<e>> # <<>> /\ Append(<<>>, e) = <<e>> /\ Tail(<<e>>) = <<>>
OBVIOUS

LEMMA TwoFacts == ASSUME NEW T, NEW x \in T, NEW y \in T
                  PROVE  Append(<<x>>, y) = <<x, y>> /\ <<x, y>> \in Seq(T) /\ Len(<<x, y>>) = 2
<1>1. /\ <<x, y>> \in Seq(T) /\ Len(<<x, y>>) = 2
      /\ <<x, y>>[1] = x /\ <<x, y>>[2] = y
  OBVIOUS
<1>2. PICK s \in Seq(T) : s = <<x>>
  BY OneFacts
<1>3. Len(s) = 1 /\ s[1] = x
  BY <1>2
<1>4. /\ Append(s, y) \in Seq(T) /\ Len(Append(s, y)) = 2
      /\ Append(s, y)[1] = x /\ Append(s, y)[2] = y
  <2>1. /\ Append(s, y) \in Seq(T) /\ Len(Append(s, y)) = Len(s) + 1
        /\ \A i \in 1 .. Len(s) : Append(s, y)[i] = s[i]
        /\ Append(s, y)[Len(s) + 1] = y
    BY AppendFacts
  <2>2. 1 \in 1 .. Len(s) /\ Len(s) + 1 = 2
    BY <1>3
  <2> QED
    BY <1>3, <2>1, <2>2
<1>5. PICK a \in Seq(T) : a = Append(s, y)
  BY <1>4
<1>6. PICK b \in Seq(T) : b = <<x, y>>
  BY <1>1
<1>7. \A i \in 1 .. Len(a) : a[i] = b[i]
  <2>1. \A i \in 1 .. 2 : i = 1 \/ i = 2
    OBVIOUS
  <2> QED
    BY <1>1, <1>4, <1>5, <1>6, <2>1
<1>8. a = b
  BY <1>1, <1>4, <1>5, <1>6, <1>7, SeqEqual
<1> QED
  BY <1>1, <1>2, <1>5, <1>6, <1>8

\* The first n units of the body of a frame.
LEMMA BodyFacts ==
    ASSUME NEW f \in 0 .. MaxFrames, NEW n \in Nat
    PROVE  /\ Body(f, n) \in Seq(Units) /\ Len(Body(f, n)) = n /\ DOMAIN Body(f, n) = 1 .. n
           /\ \A i \in 1 .. n : Body(f, n)[i] = Unit("body", f, i)
           /\ Unit("body", f, n) \in Units
           /\ Append(Body(f, n), Unit("body", f, n + 1)) = Body(f, n + 1)
           /\ Body(f, 0) = <<>>
<1>1. \A i \in Nat : Unit("body", f, i) \in Units
  BY DEF Unit, Units
<1>2. /\ \A m \in Nat : Body(f, m) \in Seq(Units) /\ Len(Body(f, m)) = m /\ DOMAIN Body(f, m) = 1 .. m
      /\ \A m \in Nat : \A i \in 1 .. m : Body(f, m)[i] = Unit("body", f, i)
  BY <1>1 DEF Body
<1>3. Append(Body(f, n), Unit("body", f, n + 1)) = Body(f, n + 1)
  <2> DEFINE a == Append(Body(f, n), Unit("body", f, n + 1))
             b == Body(f, n + 1)
  <2>1. /\ a \in Seq(Units) /\ Len(a) = n + 1
        /\ \A i \in 1 .. n : a[i] = Unit("body", f, i)
        /\ a[n + 1] = Unit("body", f, n + 1)
    <3>1. PICK c \in Seq(Units) : c = Body(f, n)
      BY <1>2
    <3>2. PICK u \in Units : u = Unit("body", f, n + 1)
      BY <1>1
    <3>3. Len(c) = n /\ \A i \in 1 .. n : c[i] = Unit("body", f, i)
      BY <1>2, <3>1
    <3>4. /\ Append(c, u) \in Seq(Units) /\ Len(Append(c, u)) = n + 1
          /\ \A i \in 1 .. n : Append(c, u)[i] = c[i]
          /\ Append(c, u)[n + 1] = u
      BY <3>3, AppendFacts
    <3>5. a = Append(c, u)
      BY <3>1, <3>2
    <3> HIDE DEF a
    <3> QED
      BY <3>2, <3>3, <3>4, <3>5
  <2>2. /\ b \in Seq(Units) /\ Len(b) = n + 1
        /\ \A i \in 1 .. n + 1 : b[i] = Unit("body", f, i)
    BY <1>2
  <2> HIDE DEF a, b
  <2>3. \A i \in 1 .. Len(a) : a[i] = b[i]
    BY <2>1, <2>2
  <2>4. a = b
    BY <2>1, <2>2, <2>3, SeqEqual
  <2> QED
    BY <2>4 DEF a, b
<1>4. Body(f, 0) = <<>>
  BY <1>2, EmptySeq
<1> QED
  BY <1>1, <1>2, <1>3, <1>4

LEMMA BodyLength ==
    ASSUME NEW f \in 0 .. MaxFrames, NEW m \in Nat, NEW n \in Nat, Body(f, m) = Body(f, n)
    PROVE  m = n
BY BodyFacts

\* The parts of the invariant about the io thread depend on its variables, and
\* on the number of frames it has handed over.
LEMMA IoKept ==
    ASSUME Reader, Course,
           UNCHANGED <<sent, files, before, broken, wire, reads, io, next, strayed>>,
           content'[Header] = content[Header],
           Holding => content'[next.buf] = content[next.buf],
           Queued' = Queued
    PROVE  Reader' /\ Course' /\ (Holding' <=> Holding)
<1>1. /\ BodyRequest' = BodyRequest /\ (Filling' <=> Filling) /\ (Waiting' <=> Waiting)
      /\ (Holding' <=> Holding) /\ (Running' <=> Running) /\ (NextFrame' <=> NextFrame)
  BY DEF BodyRequest, Filling, Waiting, Holding, Running, NextFrame, Begins
<1>2. Head1' = Head1 /\ After' = After /\ (HeaderRead' <=> HeaderRead)
  BY DEF Head1, After, HeaderRead, Length
<1>3. Holding => \A n : BodyRead(n)' <=> BodyRead(n)
  BY DEF BodyRead
<1>4. Filling \/ io \in {"body", "push"} => Holding
  BY DEF Holding
<1>5. Reader'
  BY <1>1, <1>2 DEF Reader
<1>6. InPlace => InPlace'
  BY <1>1, <1>2, <1>3, <1>4 DEF InPlace
<1>7. Continues => Continues'
  BY <1>1, <1>2, <1>3, <1>4 DEF Continues, Length
<1>8. Stream => Stream'
  BY DEF Stream, Follows, Begins, Ends, Length
<1>9. (Numbers => Numbers') /\ (Astray => Astray')
  BY <1>1 DEF Numbers, Astray
<1> QED
  BY <1>1, <1>5, <1>6, <1>7, <1>8, <1>9 DEF Course, Straight

\* What a frame has to do with the variables.
LEMMA SeqFacts ==
    ASSUME TypeOK
    PROVE  /\ Len(sent) \in Nat /\ DOMAIN sent = 1 .. Len(sent) /\ Len(sent) <= MaxFrames
           /\ \A f \in DOMAIN sent : sent[f] \in Nat /\ sent[f] > 0 /\ f \in 0 .. MaxFrames
           /\ Len(out) \in Nat /\ DOMAIN out = 1 .. Len(out)
           /\ Len(queue) \in Nat /\ DOMAIN queue = 1 .. Len(queue)
           /\ \A i \in DOMAIN queue : queue[i] \in FrameType
           /\ Len(pool) \in Nat /\ DOMAIN pool = 1 .. Len(pool)
           /\ \A i \in DOMAIN pool : pool[i] \in Buffers
           /\ Len(wire) \in Nat /\ DOMAIN wire = 1 .. Len(wire)
           /\ \A i \in DOMAIN wire : wire[i] \in Units
           /\ InHand \in Nat /\ Queued \in Nat /\ before \in Nat
<1>1. /\ sent \in Seq(Sizes) /\ out \in Seq(Seq(Units)) /\ queue \in Seq(FrameType)
      /\ pool \in Seq(Buffers) /\ wire \in Seq(Units) /\ Len(sent) <= MaxFrames
  BY DEF TypeOK
<1>2. /\ Len(sent) \in Nat /\ DOMAIN sent = 1 .. Len(sent)
      /\ \A f \in 1 .. Len(sent) : sent[f] \in Sizes
  BY <1>1, LenProperties, ElementOfSeq
<1>3. \A f \in DOMAIN sent : sent[f] \in Nat /\ sent[f] > 0 /\ f \in 0 .. MaxFrames
  <2>1. \A f \in DOMAIN sent : f \in 0 .. MaxFrames
    BY <1>1, <1>2, BoundsAssumption
  <2>2. \A z \in Sizes : z \in Nat /\ z > 0
    BY SizesAssumption
  <2> QED
    BY <1>2, <2>1, <2>2
<1>4. Len(out) \in Nat /\ DOMAIN out = 1 .. Len(out)
  BY <1>1, LenProperties
<1>5. /\ Len(queue) \in Nat /\ DOMAIN queue = 1 .. Len(queue)
      /\ \A i \in DOMAIN queue : queue[i] \in FrameType
  BY <1>1, LenProperties, ElementOfSeq
<1>6. /\ Len(pool) \in Nat /\ DOMAIN pool = 1 .. Len(pool)
      /\ \A i \in DOMAIN pool : pool[i] \in Buffers
  BY <1>1, LenProperties, ElementOfSeq
<1>7. /\ Len(wire) \in Nat /\ DOMAIN wire = 1 .. Len(wire)
      /\ \A i \in DOMAIN wire : wire[i] \in Units
  BY <1>1, LenProperties, ElementOfSeq
<1>8. InHand \in Nat
  BY DEF InHand
<1>9. before \in Nat
  BY BoundsAssumption DEF TypeOK
<1> QED
  BY <1>1, <1>2, <1>3, <1>4, <1>5, <1>6, <1>7, <1>8, <1>9 DEF Queued
-----------------------------------------------------------------------------
(* The player *)

LEMMA PopStep == ASSUME IInv, PopFrame PROVE IInv'
<1>s. UNCHANGED <<sent, files, before, broken, wire, reads, content, io, next, strayed, pool, out>>
  BY DEF PopFrame, server, client
<1>t. TypeOK /\ Reader /\ Owned /\ WholeFrames /\ Course
  BY DEF IInv
<1>0. /\ player.pc = "pop" /\ player' = [pc |-> "copy", frame |-> Head(queue)]
      /\ queue # <<>> /\ queue' = Tail(queue) /\ queue \in Seq(FrameType)
  BY <1>t DEF PopFrame, TypeOK
<1>q. /\ Len(queue) \in Nat \ {0} /\ Head(queue) = queue[1] /\ queue[1] \in FrameType
      /\ queue' \in Seq(FrameType) /\ Len(queue') = Len(queue) - 1
      /\ DOMAIN queue' = 1 .. Len(queue) - 1 /\ DOMAIN queue = 1 .. Len(queue)
      /\ \A i \in 1 .. Len(queue) - 1 : queue'[i] = queue[i + 1]
  BY <1>0, TailFacts, LenProperties
<1>p. player'.pc = "copy" /\ player'.frame = queue[1]
  BY <1>0, <1>q
<1>1. TypeOK'
  BY <1>t, <1>s, <1>0, <1>q DEF TypeOK
<1>n. /\ InHand = 0 /\ InHand' = 1 /\ Len(out) \in Nat /\ Queued' = Queued
      /\ \A i \in DOMAIN queue' : Len(out') + InHand' + i = Len(out) + InHand + (i + 1)
  <2>1. InHand = 0 /\ InHand' = 1 /\ Len(out) \in Nat
    BY <1>0, <1>p, <1>t, SeqFacts DEF InHand
  <2> QED
    BY <1>s, <1>q, <2>1 DEF Queued
<1>2. Reader' /\ Course' /\ (Holding' <=> Holding)
  BY <1>t, <1>s, <1>n, IoKept
<1>i. \A i \in DOMAIN queue' : i + 1 \in DOMAIN queue /\ queue'[i] = queue[i + 1] /\ i \in Nat
  BY <1>q
<1>j. 1 \in DOMAIN queue
  BY <1>q
<1>4. WholeFrames'
  <2>1. Len(out) + 1 <= before => Whole(queue[1], Len(out) + 1)
    BY <1>t, <1>n, <1>j DEF WholeFrames
  <2>2. Len(out') + 1 <= before' => Whole(player.frame, Len(out) + 1)'
    BY <1>s, <1>p, <2>1 DEF Whole
  <2>3. \A i \in DOMAIN queue' : Len(out') + InHand' + i <= before' =>
            Whole(queue[i + 1], Len(out) + InHand + (i + 1))
    BY <1>t, <1>s, <1>n, <1>i DEF WholeFrames
  <2>4. \A i \in DOMAIN queue' : Len(out') + InHand' + i <= before' =>
            Whole(queue[i], Len(out) + InHand + i)'
    BY <1>s, <1>n, <1>i, <2>3 DEF Whole
  <2> QED
    BY <1>t, <1>s, <2>2, <2>4 DEF WholeFrames
<1>5. Owned'
  <2>1. Private(player.frame.buf)'
    <3>1. queue[1].buf \in Buffers /\ queue[1].buf \notin Range(pool)
      BY <1>t, <1>j DEF Owned
    <3>2. \A i \in DOMAIN queue' : i + 1 # 1
      BY <1>q
    <3>3. \A i \in DOMAIN queue' : queue'[i].buf # queue[1].buf
      BY <1>t, <1>i, <1>j, <3>2 DEF Owned
    <3> QED
      BY <1>s, <1>p, <3>1, <3>3 DEF Private
  <2>2. Holding => Private(next.buf)' /\ next.buf # queue[1].buf
    BY <1>t, <1>s, <1>i, <1>j DEF Owned, Private
  <2>3. \A i, j \in DOMAIN queue' : queue'[i].buf = queue'[j].buf => i = j
    <3>1. \A i, j \in DOMAIN queue' : i + 1 = j + 1 => i = j
      BY <1>i
    <3> QED
      BY <1>t, <1>i, <3>1 DEF Owned
  <2> QED
    BY <1>t, <1>s, <1>p, <1>i, <1>2, <2>1, <2>2, <2>3 DEF Owned, Private
<1> QED
  BY <1>1, <1>2, <1>4, <1>5 DEF IInv

LEMMA CopyStep == ASSUME IInv, CopyFrame PROVE IInv'
<1>s. UNCHANGED <<sent, files, before, broken, wire, reads, content, io, next, strayed, pool, queue>>
  BY DEF CopyFrame, server, client
<1>t. TypeOK /\ Reader /\ Owned /\ WholeFrames /\ Course
  BY DEF IInv
<1>0. /\ player.pc = "copy" /\ player' = [player EXCEPT !.pc = "clear"]
      /\ out' = Append(out, content[player.frame.buf])
      /\ player \in [pc : {"pop", "copy", "clear", "put"}, frame : FrameType]
  BY <1>t DEF CopyFrame, TypeOK
<1>p. player'.pc = "clear" /\ player'.frame = player.frame
      /\ player' \in [pc : {"pop", "copy", "clear", "put"}, frame : FrameType]
  BY <1>0
<1>b. player.frame.buf \in Buffers /\ content[player.frame.buf] \in Seq(Units)
  BY <1>t, <1>0 DEF Owned, Private, TypeOK
<1>o. /\ out \in Seq(Seq(Units)) /\ out' \in Seq(Seq(Units)) /\ Len(out') = Len(out) + 1
      /\ Len(out) \in Nat /\ DOMAIN out = 1 .. Len(out) /\ DOMAIN out' = 1 .. Len(out) + 1
      /\ \A i \in 1 .. Len(out) : out'[i] = out[i]
      /\ out'[Len(out) + 1] = content[player.frame.buf]
  <2>1. PICK c \in Seq(Units) : c = content[player.frame.buf]
    BY <1>b
  <2>2. out \in Seq(Seq(Units))
    BY <1>t DEF TypeOK
  <2> QED
    BY <1>0, <2>1, <2>2, AppendFacts
<1>1. TypeOK'
  BY <1>t, <1>s, <1>p, <1>o DEF TypeOK
<1>n. /\ InHand = 1 /\ InHand' = 0 /\ Len(out') + InHand' = Len(out) + InHand
      /\ Queued' = Queued
  <2>1. InHand = 1 /\ InHand' = 0
    BY <1>0, <1>p DEF InHand
  <2> QED
    BY <1>s, <1>o, <2>1 DEF Queued
<1>2. Reader' /\ Course' /\ (Holding' <=> Holding)
  BY <1>t, <1>s, <1>n, IoKept
<1>4. WholeFrames'
  <2>1. Len(out) + 1 <= before =>
            content[player.frame.buf] = Body(Len(out) + 1, sent[Len(out) + 1])
    BY <1>t, <1>0 DEF WholeFrames, Whole
  <2>2. \A i \in DOMAIN out' : i \in 1 .. Len(out) \/ i = Len(out) + 1
    BY <1>o
  <2>3. \A i \in DOMAIN out' : i <= before => out'[i] = Body(i, sent[i])
    BY <1>t, <1>o, <2>1, <2>2 DEF WholeFrames
  <2>4. \A i \in DOMAIN queue : Len(out) + InHand + i <= before =>
            Whole(queue[i], Len(out) + InHand + i)
    BY <1>t DEF WholeFrames
  <2>5. \A i \in DOMAIN queue' : Len(out') + InHand' + i <= before' =>
            Whole(queue[i], Len(out) + InHand + i)'
    BY <1>s, <1>n, <2>4 DEF Whole
  <2>6. before' <= Len(sent') /\ (files' = 0 => Len(sent') <= before')
    BY <1>t, <1>s DEF WholeFrames
  <2>7. \A i \in DOMAIN out' : i <= before' => out'[i] = Body(i, sent'[i])
    BY <1>s, <2>3
  <2> QED
    BY <1>p, <2>5, <2>6, <2>7 DEF WholeFrames
<1>5. Owned'
  BY <1>t, <1>s, <1>0, <1>p, <1>2 DEF Owned, Private
<1> QED
  BY <1>1, <1>2, <1>4, <1>5 DEF IInv


LEMMA ClearStep == ASSUME IInv, ClearBuffer PROVE IInv'
<1>s. UNCHANGED <<sent, files, before, broken, wire, reads, io, next, strayed, pool, queue, out>>
  BY DEF ClearBuffer, server
<1>t. TypeOK /\ Reader /\ Owned /\ WholeFrames /\ Course
  BY DEF IInv
<1> DEFINE b == player.frame.buf
<1>0. /\ player.pc = "clear" /\ player' = [player EXCEPT !.pc = "put"]
      /\ content' = [content EXCEPT ![b] = <<>>]
      /\ player \in [pc : {"pop", "copy", "clear", "put"}, frame : FrameType]
  BY <1>t DEF ClearBuffer, TypeOK
<1>p. player'.pc = "put" /\ player'.frame = player.frame
      /\ player' \in [pc : {"pop", "copy", "clear", "put"}, frame : FrameType]
  BY <1>0
<1>b. b \in Buffers /\ b # Header
  BY <1>t, <1>0, NamesAssumption DEF Owned, Private
<1>c. /\ DOMAIN content = Buffers \cup {Header} /\ DOMAIN content' = Buffers \cup {Header}
      /\ content'[b] = <<>> /\ content'[Header] = content[Header]
      /\ \A x \in DOMAIN content : x # b => content'[x] = content[x]
  BY <1>t, <1>0, <1>b DEF TypeOK
<1>1. TypeOK'
  <2>1. \A x \in DOMAIN content' : content'[x] \in Seq(Units)
    <3>1. \A x \in DOMAIN content : content[x] \in Seq(Units)
      BY <1>t DEF TypeOK
    <3>2. <<>> \in Seq(Units)
      BY EmptySeq
    <3> QED
      BY <1>c, <3>1, <3>2
  <2> QED
    BY <1>t, <1>s, <1>p, <1>c, <2>1 DEF TypeOK
<1>n. Holding => next.buf # b /\ next.buf \in DOMAIN content
  BY <1>t, <1>0, <1>c DEF Owned, Private
<1>3. InHand' = InHand /\ Queued' = Queued
  BY <1>0, <1>p, <1>s DEF InHand, Queued
<1>2. Reader' /\ Course' /\ (Holding' <=> Holding)
  BY <1>t, <1>s, <1>c, <1>n, <1>3, IoKept
<1>4. WholeFrames'
  <2>1. \A i \in DOMAIN queue : queue[i].buf \in DOMAIN content /\ queue[i].buf # b
    BY <1>t, <1>0, <1>c DEF Owned, Private
  <2>2. \A i \in DOMAIN queue : content'[queue[i].buf] = content[queue[i].buf]
    BY <1>c, <2>1
  <2> QED
    BY <1>t, <1>s, <1>p, <1>3, <2>2 DEF WholeFrames, Whole
<1>5. Owned'
  BY <1>t, <1>s, <1>0, <1>p, <1>2 DEF Owned, Private
<1> QED
  BY <1>1, <1>2, <1>4, <1>5 DEF IInv

LEMMA PutStep == ASSUME IInv, PutBuffer PROVE IInv'
<1>s. UNCHANGED <<sent, files, before, broken, wire, reads, content, io, next, strayed, queue, out>>
  BY DEF PutBuffer, server, client
<1>t. TypeOK /\ Reader /\ Owned /\ WholeFrames /\ Course
  BY DEF IInv
<1> DEFINE b == player.frame.buf
<1>0. /\ player.pc = "put" /\ player' = [pc |-> "pop", frame |-> NoFrame]
      /\ pool' = IF Len(pool) < ListSize THEN Append(pool, b) ELSE pool
      /\ pool \in Seq(Buffers) /\ Len(pool) <= ListSize /\ Len(pool) \in Nat
  BY <1>t, LenProperties DEF PutBuffer, Put, TypeOK
<1>p. player'.pc = "pop" /\ player'.frame = NoFrame
      /\ player' \in [pc : {"pop", "copy", "clear", "put"}, frame : FrameType]
  BY <1>0, BoundsAssumption DEF NoFrame, FrameType
<1>b. Private(b) /\ (Holding => next.buf # b)
  BY <1>t, <1>0 DEF Owned
<1>o. /\ pool' \in Seq(Buffers) /\ Len(pool') <= ListSize
      /\ \A i, j \in DOMAIN pool' : pool'[i] = pool'[j] => i = j
      /\ \A i \in DOMAIN pool' : pool'[i] = b \/ pool'[i] \in Range(pool)
  <2>r. \A i \in DOMAIN pool : pool[i] \in Range(pool)
    BY DEF Range
  <2>1. CASE Len(pool) < ListSize
    <3>1. PICK x \in Buffers : x = b
      BY <1>b DEF Private
    <3>2. /\ pool' \in Seq(Buffers) /\ Len(pool') = Len(pool) + 1
          /\ DOMAIN pool' = 1 .. Len(pool) + 1 /\ DOMAIN pool = 1 .. Len(pool)
          /\ \A i \in 1 .. Len(pool) : pool'[i] = pool[i]
          /\ pool'[Len(pool) + 1] = b
      BY <1>0, <2>1, <3>1, AppendFacts
    <3>3. \A i \in DOMAIN pool' : i \in 1 .. Len(pool) \/ i = Len(pool) + 1
      BY <1>0, <3>2
    <3>4. \A i \in DOMAIN pool : pool[i] # b
      BY <1>b, <2>r DEF Private
    <3>5. \A i, j \in DOMAIN pool : pool[i] = pool[j] => i = j
      BY <1>t DEF Owned
    <3>6. \A i, j \in DOMAIN pool' : pool'[i] = pool'[j] => i = j
      BY <3>2, <3>3, <3>4, <3>5
    <3>7. \A i \in DOMAIN pool' : pool'[i] = b \/ pool'[i] \in Range(pool)
      BY <2>r, <3>2, <3>3
    <3>8. Len(pool') <= ListSize
      BY <1>0, <2>1, <3>2, BoundsAssumption
    <3> QED
      BY <3>2, <3>6, <3>7, <3>8
  <2>2. CASE ~ (Len(pool) < ListSize)
    BY <1>0, <1>t, <2>2, <2>r DEF Owned
  <2> QED
    BY <2>1, <2>2
<1>r. \A x : x \in Range(pool') => x = b \/ x \in Range(pool)
  BY <1>o DEF Range
<1>1. TypeOK'
  BY <1>t, <1>s, <1>p, <1>o DEF TypeOK
<1>3. InHand' = InHand /\ Queued' = Queued
  BY <1>0, <1>p, <1>s DEF InHand, Queued
<1>2. Reader' /\ Course' /\ (Holding' <=> Holding)
  BY <1>t, <1>s, <1>3, IoKept
<1>4. WholeFrames'
  BY <1>t, <1>s, <1>p, <1>3 DEF WholeFrames, Whole
<1>5. Owned'
  <2>1. Holding => Private(next.buf)'
    BY <1>t, <1>s, <1>b, <1>r DEF Owned, Private
  <2>2. \A i \in DOMAIN queue : queue[i].buf \in Buffers /\ queue[i].buf \notin Range(pool')
    BY <1>t, <1>b, <1>r DEF Owned, Private
  <2> QED
    BY <1>t, <1>s, <1>p, <1>o, <1>2, <2>1, <2>2 DEF Owned, Private
<1> QED
  BY <1>1, <1>2, <1>4, <1>5 DEF IInv

-----------------------------------------------------------------------------
-----------------------------------------------------------------------------
(* The io thread *)

LEMMA HoldingFacts ==
    ASSUME TypeOK, Owned
    PROVE  /\ Holding => Running /\ next.buf \in Buffers /\ next.buf # Header
           /\ Waiting => Running /\ ~ Filling
           /\ next.seq \in Nat /\ next.seq \in 0 .. MaxFrames /\ Len(reads) \in Nat
<1>1. Len(reads) \in Nat
  BY LenProperties DEF TypeOK
<1>2. next.seq \in Nat /\ next.seq \in 0 .. MaxFrames
  BY BoundsAssumption DEF TypeOK, FrameType
<1>3. Holding => Running
  BY DEF Holding, Filling, Running
<1>4. Holding => next.buf \in Buffers /\ next.buf # Header
  BY NamesAssumption DEF Owned, Private
<1>5. Waiting => Running /\ ~ Filling
  <2>1. Waiting /\ Filling => <<BodyRequest>> = <<HeaderRequest>>
    BY DEF Waiting, Filling
  <2>2. <<BodyRequest>> = <<HeaderRequest>> => next.buf = Header
    BY DEF BodyRequest, HeaderRequest
  <2>3. Filling => next.buf # Header
    BY <1>4 DEF Holding
  <2>4. <<HeaderRequest>> # <<>>
    OBVIOUS
  <2> QED
    BY <2>1, <2>2, <2>3, <2>4 DEF Waiting, Running
<1> QED
  BY <1>1, <1>2, <1>3, <1>4, <1>5

\* The number of a frame that is held, while the reader is in step.
LEMMA StraightFacts ==
    ASSUME TypeOK, Owned, WholeFrames, Straight
    PROVE  /\ Holding => next.seq \in DOMAIN sent /\ next.seq \in 1 .. before
           /\ Running => next.seq <= Len(sent)
<1>1. /\ Len(sent) \in Nat /\ DOMAIN sent = 1 .. Len(sent) /\ Queued \in Nat /\ before \in Nat
      /\ next.seq \in Nat /\ before <= Len(sent)
  BY SeqFacts, HoldingFacts DEF WholeFrames
<1>2. Running => next.seq <= before
  BY DEF Straight, Numbers
<1>3. Holding => next.seq = Queued + 1 /\ next.seq <= before
  BY HoldingFacts DEF Straight, Numbers
<1> QED
  BY <1>1, <1>2, <1>3

LEMMA RequestTypes ==
    ASSUME TypeOK
    PROVE  /\ reads \in Seq([buf : Buffers \cup {Header}, len : Nat])
           /\ HeaderRequest \in [buf : Buffers \cup {Header}, len : Nat]
           /\ HeaderRequest.buf = Header /\ HeaderRequest.len = 2
           /\ BodyRequest.buf = next.buf /\ BodyRequest.len = reads[1].len
           /\ <<>> \in Seq([buf : Buffers \cup {Header}, len : Nat])
BY DEF TypeOK, HeaderRequest, BodyRequest, HeaderLen

\* The reading ends.
LEMMA StopStep ==
    ASSUME IInv, io' = "idle", reads' = <<>>,
           UNCHANGED <<server, wire, content, next, strayed, pool, queue, player, out>>
    PROVE  IInv'
<1>s. UNCHANGED <<sent, files, before, broken, wire, content, next, strayed, pool, queue, player, out>>
  BY DEF server
<1>t. TypeOK /\ Reader /\ Owned /\ WholeFrames /\ Course
  BY DEF IInv
<1>n. ~ Running' /\ ~ Waiting' /\ ~ Filling' /\ ~ Holding'
  BY DEF Running, Waiting, Filling, Holding
<1>1. TypeOK'
  BY <1>t, <1>s, RequestTypes DEF TypeOK
<1>2. Reader'
  BY DEF Reader
<1>3. Course'
  <2>1. Stream => Stream'
    BY <1>s DEF Stream, Follows, Begins, Ends, Length
  <2>2. InPlace' /\ Continues'
    BY <1>n DEF InPlace, Continues
  <2>3. (Numbers => Numbers') /\ (Astray => Astray')
    BY <1>s, <1>n DEF Numbers, Astray, Queued, InHand
  <2> QED
    BY <1>t, <1>s, <2>1, <2>2, <2>3 DEF Course, Straight
<1>4. WholeFrames'
  BY <1>t, <1>s DEF WholeFrames, Whole, InHand
<1>5. Owned'
  BY <1>t, <1>s, <1>n DEF Owned, Private
<1> QED
  BY <1>1, <1>2, <1>3, <1>4, <1>5 DEF IInv

LEMMA ErrorStep == ASSUME IInv, HandleError PROVE IInv'
<1>1. io = "idle" /\ reads # <<>> /\ reads' = Tail(reads) /\ io' = io
  BY DEF HandleError
<1>2. reads' = <<>>
  <2>1. reads = <<BodyRequest>> \/ reads = <<HeaderRequest>>
    BY <1>1 DEF IInv, Reader, Filling, Waiting
  <2>2. \A x : Tail(<<x>>) = <<>>
    OBVIOUS
  <2> QED
    BY <1>1, <2>1, <2>2
<1> QED
  BY <1>1, <1>2, StopStep DEF HandleError

LEMMA RefuseStep == ASSUME IInv, RefuseHeader PROVE IInv'
<1>1. reads' = <<>>
  BY DEF RefuseHeader, IInv, Reader, Filling, Waiting
<1> QED
  BY <1>1, StopStep DEF RefuseHeader

LEMMA HandleStep == ASSUME IInv, HandleRead PROVE IInv'
<1>s. UNCHANGED <<sent, files, before, broken, wire, content, next, strayed, pool, queue, player, out>>
  BY DEF HandleRead, server
<1>t. TypeOK /\ Reader /\ Owned /\ WholeFrames /\ Course
  BY DEF IInv
<1>0. /\ io = "idle" /\ reads # <<>> /\ Complete(Head(reads)) /\ reads' = Tail(reads)
      /\ io' = IF Head(reads).buf = Header THEN "header" ELSE "body"
  BY DEF HandleRead
<1>h. \A x : Head(<<x>>) = x /\ Tail(<<x>>) = <<>>
  OBVIOUS
<1>r. reads' = <<>>
  BY <1>t, <1>0, <1>h DEF Reader, Filling, Waiting
<1>n. ~ Waiting' /\ ~ Filling' /\ Running' /\ Running /\ io' \in {"header", "body"}
  BY <1>0, <1>r DEF Running, Waiting, Filling
<1>k. \/ Waiting /\ ~ Filling /\ io' = "header" /\ Len(Head1) = 2
      \/ Filling /\ ~ Waiting /\ io' = "body" /\ Len(content[next.buf]) = reads[1].len
  <2>1. CASE Waiting
    <3>1. ~ Filling
      BY <1>t, <2>1, HoldingFacts
    <3>2. Head(reads) = HeaderRequest
      BY <2>1, <1>h DEF Waiting
    <3> QED
      BY <1>t, <1>0, <2>1, <3>1, <3>2, RequestTypes DEF Complete, Head1
  <2>2. CASE Filling
    <3>1. ~ Waiting /\ next.buf # Header
      BY <1>t, <2>2, HoldingFacts DEF Holding
    <3>2. Head(reads) = BodyRequest
      BY <2>2, <1>h DEF Filling
    <3> QED
      BY <1>t, <1>0, <2>2, <3>1, <3>2, RequestTypes DEF Complete
  <2> QED
    BY <1>t, <1>0, <2>1, <2>2 DEF Reader
<1>m. Holding' <=> Holding
  BY <1>0, <1>n, <1>k DEF Holding
<1>1. TypeOK'
  BY <1>t, <1>s, <1>n, <1>r, RequestTypes DEF TypeOK
<1>2. Reader'
  BY <1>s, <1>n, <1>r, <1>k DEF Reader, Head1, HeaderLen
<1>3. Course'
  <2>1. CASE strayed
    BY <1>t, <1>s, <2>1 DEF Course, Astray, Queued, InHand
  <2>2. CASE ~ strayed
    <3>1. Stream /\ InPlace /\ Continues /\ Numbers
      BY <1>t, <2>2 DEF Course, Straight
    <3>2. Filling => BodyRead(sent[next.seq])
      <4>1. SUFFICES ASSUME Filling PROVE BodyRead(sent[next.seq])
        OBVIOUS
      <4>2. PICK n \in 0 .. sent[next.seq] : BodyRead(n)
        BY <3>1, <4>1 DEF InPlace
      <4>3. Len(content[next.buf]) = sent[next.seq] /\ next.seq \in DOMAIN sent
        BY <1>k, <3>1, <4>1 DEF InPlace
      <4>4. next.seq \in 0 .. MaxFrames /\ sent[next.seq] \in Nat /\ n \in Nat
        BY <1>t, <4>3, <4>2, SeqFacts
      <4>5. Len(Body(next.seq, n)) = n
        BY <4>4, BodyFacts
      <4> QED
        BY <4>2, <4>3, <4>5 DEF BodyRead
    <3>3. /\ Head1' = Head1 /\ After' = After /\ (HeaderRead' <=> HeaderRead)
          /\ (NextFrame' <=> NextFrame)
          /\ BodyRead(sent[next.seq])' <=> BodyRead(sent[next.seq])
      BY <1>s DEF Head1, After, HeaderRead, Length, NextFrame, Begins, BodyRead
    <3>4. Stream'
      BY <1>s, <3>1 DEF Stream, Follows, Begins, Ends, Length
    <3>5. InPlace'
      BY <1>n, <1>k, <3>1, <3>2, <3>3 DEF InPlace
    <3>6. Continues'
      BY <1>s, <1>n, <1>k, <3>1, <3>2, <3>3 DEF Continues
    <3>7. Numbers'
      BY <1>s, <1>n, <1>m, <3>1 DEF Numbers, Queued, InHand
    <3> QED
      BY <1>s, <2>2, <3>4, <3>5, <3>6, <3>7 DEF Course, Straight
  <2> QED
    BY <2>1, <2>2
<1>4. WholeFrames'
  BY <1>t, <1>s DEF WholeFrames, Whole, InHand
<1>5. Owned'
  BY <1>t, <1>s, <1>m DEF Owned, Private
<1> QED
  BY <1>1, <1>2, <1>3, <1>4, <1>5 DEF IInv

LEMMA BodyStep == ASSUME IInv, OnFrameBody PROVE IInv'
<1>s. UNCHANGED <<sent, files, before, broken, wire, next, strayed, pool, queue, player, out>>
  BY DEF OnFrameBody, server
<1>t. TypeOK /\ Reader /\ Owned /\ WholeFrames /\ Course
  BY DEF IInv
<1>0. /\ io = "body" /\ io' = "push" /\ reads = <<>> /\ reads' = <<HeaderRequest>>
      /\ content' = [content EXCEPT ![Header] = <<>>]
  <2>1. /\ io = "body" /\ io' = "push" /\ reads' = Append(reads, HeaderRequest)
        /\ content' = [content EXCEPT ![Header] = <<>>]
    BY DEF OnFrameBody, RequestFrameHeader, Request, HeaderRequest
  <2>2. reads = <<>>
    BY <1>t, <2>1 DEF Reader, Filling, Waiting
  <2>3. \A x : Append(<<>>, x) = <<x>>
    OBVIOUS
  <2> QED
    BY <2>1, <2>2, <2>3
<1>n. Holding /\ Holding' /\ Running /\ Running' /\ Waiting' /\ ~ Filling' /\ ~ Filling
  BY <1>0 DEF Holding, Running, Waiting, Filling
<1>b. next.buf \in Buffers /\ next.buf # Header
  BY <1>t, <1>n, HoldingFacts
<1>c. /\ DOMAIN content = Buffers \cup {Header} /\ DOMAIN content' = Buffers \cup {Header}
      /\ content'[Header] = <<>> /\ \A x \in Buffers : content'[x] = content[x]
      /\ \A x \in Buffers : content[x] \in Seq(Units)
  BY <1>t, <1>0, NamesAssumption DEF TypeOK
<1>1. TypeOK'
  <2>1. <<>> \in Seq(Units)
    BY EmptySeq
  <2>2. \A x \in DOMAIN content' : content'[x] \in Seq(Units)
    BY <1>c, <2>1
  <2>3. reads' \in Seq([buf : Buffers \cup {Header}, len : Nat])
    BY <1>t, <1>0, RequestTypes, OneFacts
  <2> QED
    BY <1>t, <1>s, <1>0, <1>c, <2>2, <2>3 DEF TypeOK
<1>2. Reader'
  BY <1>0, <1>n DEF Reader
<1>3. Course'
  <2>1. CASE strayed
    BY <1>t, <1>s, <2>1 DEF Course, Astray, Queued, InHand
  <2>2. CASE ~ strayed
    <3>1. Stream /\ InPlace /\ Continues /\ Numbers
      BY <1>t, <2>2 DEF Course, Straight
    <3>2. Stream'
      BY <1>s, <3>1 DEF Stream, Follows, Begins, Ends, Length
    <3>3. Head1' = <<>> /\ BodyRead(sent[next.seq])' /\ (broken' \/ NextFrame') /\ io' = "push"
      <4>1. BodyRead(sent[next.seq])
        BY <1>0, <3>1 DEF InPlace
      <4>2. BodyRead(sent[next.seq])'
        BY <1>s, <1>b, <1>c, <4>1 DEF BodyRead
      <4>3. broken \/ NextFrame
        BY <1>0, <3>1 DEF Continues
      <4> QED
        BY <1>s, <1>c, <4>2, <4>3, <1>0 DEF Head1, NextFrame, Begins
    <3>4. InPlace'
      BY <1>n, <3>3 DEF InPlace, HeaderRead
    <3>5. Continues'
      <4>1. \A x : <<x>> # <<>>
        OBVIOUS
      <4>2. Len(<<>>) # 2
        OBVIOUS
      <4> QED
        BY <1>n, <3>3, <4>1, <4>2 DEF Continues
    <3>6. Numbers'
      BY <1>s, <1>n, <3>1 DEF Numbers, Queued, InHand
    <3> QED
      BY <1>s, <2>2, <3>2, <3>4, <3>5, <3>6 DEF Course, Straight
  <2> QED
    BY <2>1, <2>2
<1>4. WholeFrames'
  <2>1. /\ player.pc = "copy" => player.frame.buf \in Buffers
        /\ \A i \in DOMAIN queue : queue[i].buf \in Buffers
    BY <1>t DEF Owned, Private
  <2> QED
    BY <1>t, <1>s, <1>c, <2>1 DEF WholeFrames, Whole, InHand
<1>5. Owned'
  BY <1>t, <1>s, <1>n DEF Owned, Private
<1> QED
  BY <1>1, <1>2, <1>3, <1>4, <1>5 DEF IInv

LEMMA PushStep == ASSUME IInv, PushFrame PROVE IInv'
<1>s. UNCHANGED <<sent, files, before, broken, wire, reads, content, next, strayed, pool, player, out>>
  BY DEF PushFrame, server
<1>t. TypeOK /\ Reader /\ Owned /\ WholeFrames /\ Course
  BY DEF IInv
<1>0. io = "push" /\ io' = "idle" /\ queue' = Append(queue, next)
  BY DEF PushFrame
<1>n. Holding /\ Running /\ Waiting
  BY <1>t, <1>0 DEF Holding, Running, Reader, Filling
<1>m. Running' /\ Waiting' /\ ~ Filling' /\ ~ Holding'
  <2>1. reads' = <<HeaderRequest>> /\ io' = "idle" /\ next' = next
    BY <1>n, <1>s, <1>0 DEF Waiting
  <2>2. next.buf # Header
    BY <1>t, <1>n, HoldingFacts
  <2>3. Filling' => reads' = <<BodyRequest>>
    BY <2>1, <1>s DEF Filling, BodyRequest
  <2>4. <<BodyRequest>> = <<HeaderRequest>> => next.buf = Header
    BY DEF BodyRequest, HeaderRequest
  <2>5. Waiting' /\ ~ Filling'
    BY <2>1, <2>2, <2>3, <2>4 DEF Waiting, HeaderRequest
  <2>6. \A x : <<x>> # <<>>
    OBVIOUS
  <2> QED
    BY <2>1, <2>5, <2>6 DEF Running, Holding
<1>q. /\ queue \in Seq(FrameType) /\ queue' \in Seq(FrameType) /\ Len(queue') = Len(queue) + 1
      /\ Len(queue) \in Nat /\ DOMAIN queue = 1 .. Len(queue) /\ DOMAIN queue' = 1 .. Len(queue) + 1
      /\ \A i \in 1 .. Len(queue) : queue'[i] = queue[i]
      /\ queue'[Len(queue) + 1] = next
  <2>1. queue \in Seq(FrameType) /\ next \in FrameType
    BY <1>t DEF TypeOK
  <2> QED
    BY <1>0, <2>1, AppendFacts
<1>i. \A i \in DOMAIN queue' : \/ i \in DOMAIN queue /\ queue'[i] = queue[i]
                               \/ i = Len(queue) + 1 /\ queue'[i] = next
  BY <1>q
<1>1. TypeOK'
  BY <1>t, <1>s, <1>0, <1>q DEF TypeOK
<1>2. Reader'
  BY <1>0, <1>m DEF Reader
<1>k. /\ InHand' = InHand /\ Queued' = Queued + 1 /\ Queued \in Nat /\ before \in Nat
      /\ Len(out) + InHand + (Len(queue) + 1) = Queued + 1
  <2>1. InHand' = InHand /\ InHand \in Nat /\ Len(out) \in Nat /\ Queued \in Nat /\ before \in Nat
    BY <1>t, <1>s, SeqFacts DEF InHand
  <2> QED
    BY <1>s, <1>q, <2>1 DEF Queued
<1>3. Course'
  <2>1. CASE strayed
    BY <1>t, <1>s, <1>k, <2>1 DEF Course, Astray
  <2>2. CASE ~ strayed
    <3>1. Stream /\ InPlace /\ Continues /\ Numbers
      BY <1>t, <2>2 DEF Course, Straight
    <3>2. Stream'
      BY <1>s, <3>1 DEF Stream, Follows, Begins, Ends, Length
    <3>3. /\ Head1' = Head1 /\ After' = After /\ (HeaderRead' <=> HeaderRead)
          /\ (NextFrame' <=> NextFrame)
      BY <1>s DEF Head1, After, HeaderRead, Length, NextFrame, Begins
    <3>4. InPlace'
      BY <1>0, <1>n, <1>m, <3>1, <3>3 DEF InPlace
    <3>5. Continues'
      BY <1>s, <1>0, <1>n, <1>m, <3>1, <3>3 DEF Continues, Length
    <3>6. Numbers'
      BY <1>s, <1>k, <1>n, <1>m, <3>1 DEF Numbers
    <3> QED
      BY <1>s, <2>2, <3>2, <3>4, <3>5, <3>6 DEF Course, Straight
  <2> QED
    BY <2>1, <2>2
<1>7. WholeFrames'
  <2>1. Queued + 1 <= before => Whole(next, Queued + 1)
    <3>1. SUFFICES ASSUME Queued + 1 <= before PROVE Whole(next, Queued + 1)
      OBVIOUS
    <3>2. ~ strayed
      BY <1>t, <1>k, <3>1 DEF Course, Astray
    <3>3. next.seq = Queued + 1 /\ BodyRead(sent[next.seq])
      BY <1>t, <1>0, <1>n, <3>2 DEF Course, Straight, Numbers, InPlace
    <3> QED
      BY <3>3 DEF BodyRead, Whole
  <2>2. \A i \in DOMAIN queue : Len(out) + InHand + i <= before => Whole(queue[i], Len(out) + InHand + i)
    BY <1>t DEF WholeFrames
  <2>3. \A i \in DOMAIN queue' : Len(out) + InHand + i <= before =>
            Whole(queue'[i], Len(out) + InHand + i)
    BY <1>i, <1>k, <2>1, <2>2
  <2>4. \A i \in DOMAIN queue' : Len(out') + InHand' + i <= before' =>
            Whole(queue[i], Len(out) + InHand + i)'
    BY <1>s, <1>k, <2>3 DEF Whole
  <2>5. player'.pc = "copy" /\ Len(out') + 1 <= before' => Whole(player.frame, Len(out) + 1)'
    BY <1>t, <1>s DEF WholeFrames, Whole
  <2> QED
    BY <1>t, <1>s, <2>4, <2>5 DEF WholeFrames
<1>8. Owned'
  <2>1. Private(next.buf)
    BY <1>t, <1>n DEF Owned
  <2>2. player.pc # "pop" => Private(player.frame.buf)'
    BY <1>t, <1>s, <1>i, <1>n DEF Owned, Private
  <2>3. \A i, j \in DOMAIN queue' : queue'[i].buf = queue'[j].buf => i = j
    BY <1>t, <1>i, <2>1 DEF Owned, Private
  <2>4. \A i \in DOMAIN queue' : queue'[i].buf \in Buffers /\ queue'[i].buf \notin Range(pool')
    BY <1>t, <1>s, <1>i, <2>1 DEF Owned, Private
  <2> QED
    BY <1>t, <1>s, <1>m, <2>2, <2>3, <2>4 DEF Owned
<1> QED
  BY <1>1, <1>2, <1>3, <1>7, <1>8 DEF IInv


\* get() finds a buffer that nobody uses.
LEMMA GetFacts ==
    ASSUME TypeOK, Owned, NEW b \in Buffers, Get(b)
    PROVE  /\ pool' \in Seq(Buffers) /\ Len(pool') <= ListSize
           /\ b \notin Range(pool') /\ \A i \in DOMAIN queue : queue[i].buf # b
           /\ player.pc # "pop" => b # player.frame.buf
           /\ \A i, j \in DOMAIN pool' : pool'[i] = pool'[j] => i = j
           /\ Range(pool') \subseteq Range(pool)
<1>p. pool \in Seq(Buffers) /\ Len(pool) \in Nat /\ Len(pool) <= ListSize /\ DOMAIN pool = 1 .. Len(pool)
  BY LenProperties DEF TypeOK
<1>i. \A i, j \in DOMAIN pool : pool[i] = pool[j] => i = j
  BY DEF Owned
<1>1. CASE pool # <<>>
  <2>1. /\ Len(pool) > 0 /\ b = pool[1] /\ pool' \in Seq(Buffers) /\ Len(pool') = Len(pool) - 1
        /\ DOMAIN pool' = 1 .. Len(pool) - 1
        /\ \A i \in 1 .. Len(pool) - 1 : pool'[i] = pool[i + 1]
    <3>1. b = Head(pool) /\ pool' = Tail(pool)
      BY <1>1 DEF Get
    <3> QED
      BY <1>p, <1>1, <3>1, TailFacts
  <2>2. 1 \in DOMAIN pool
    BY <1>p, <2>1
  <2>3. \A i \in DOMAIN pool' : i + 1 \in DOMAIN pool /\ pool'[i] = pool[i + 1] /\ i + 1 # 1 /\ i \in Nat
    BY <1>p, <2>1
  <2>4. b \notin Range(pool')
    BY <1>i, <2>1, <2>2, <2>3 DEF Range
  <2>5. \A i, j \in DOMAIN pool' : pool'[i] = pool'[j] => i = j
    <3>1. \A i, j \in DOMAIN pool' : i + 1 = j + 1 => i = j
      BY <2>3
    <3> QED
      BY <1>i, <2>3, <3>1
  <2>6. Range(pool') \subseteq Range(pool) /\ b \in Range(pool)
    BY <2>1, <2>2, <2>3 DEF Range
  <2>7. /\ player.pc # "pop" => b # player.frame.buf
        /\ \A i \in DOMAIN queue : queue[i].buf # b
    BY <2>6 DEF Owned, Private
  <2>8. Len(pool') <= ListSize
    BY <1>p, <2>1, BoundsAssumption
  <2> QED
    BY <2>1, <2>4, <2>5, <2>6, <2>7, <2>8
<1>2. CASE pool = <<>>
  <2>0. pool' = pool /\ Range(pool) = {}
    BY <1>2 DEF Get, Range
  <2>7. b \notin Held
    BY <1>2 DEF Get
  <2>8. b # player.frame.buf /\ \A i \in DOMAIN queue : queue[i].buf # b
    BY <2>7 DEF Held
  <2>10. pool' \in Seq(Buffers) /\ Len(pool') <= ListSize /\ b \notin Range(pool')
    BY <1>p, <2>0
  <2> QED
    BY <1>i, <2>0, <2>8, <2>10
<1> QED
  BY <1>1, <1>2
LEMMA HeaderStep == ASSUME IInv, OnFrameHeader PROVE IInv'
<1>s. UNCHANGED <<sent, files, before, broken, wire, queue, player, out>>
  BY DEF OnFrameHeader, server
<1>t. TypeOK /\ Reader /\ Owned /\ WholeFrames /\ Course
  BY DEF IInv
<1>0. io = "header" /\ io' = "idle" /\ strayed' = (strayed \/ ~ Marked(Head1))
  BY DEF OnFrameHeader, Head1
<1>1. PICK b \in Buffers, n \in Announced(Head1) :
        /\ Get(b) /\ next' = [seq |-> Head1[1].frame, buf |-> b]
        /\ reads' = Append(reads, [buf |-> b, len |-> n])
        /\ content' = [content EXCEPT ![b] = <<>>]
  BY DEF OnFrameHeader, Request, Head1
<1>l. Len(Head1) = 2 /\ Head1[1].frame \in 0 .. MaxFrames /\ n \in Nat
  <2>1. Head1 \in Seq(Units) /\ Len(Head1) = 2
    BY <1>t, <1>0 DEF TypeOK, Reader, Head1, HeaderLen
  <2>2. Head1[1] \in Units /\ Head1[2] \in Units
    <3>1. 1 \in 1 .. Len(Head1) /\ 2 \in 1 .. Len(Head1)
      BY <2>1
    <3> QED
      BY <2>1, <3>1, ElementOfSeq
  <2>3. \A x \in Units : x.frame \in 0 .. MaxFrames /\ x.n \in Nat
    BY DEF Units
  <2> QED
    BY <1>1, <2>1, <2>2, <2>3, SizesAssumption DEF Announced
<1>n. reads = <<>> /\ ~ Holding /\ Running /\ ~ Waiting /\ ~ Filling
  BY <1>t, <1>0 DEF Reader, Filling, Waiting, Holding, Running
<1>r. reads' = <<[buf |-> b, len |-> n]>>
  <2>1. \A x : Append(<<>>, x) = <<x>>
    OBVIOUS
  <2> QED
    BY <1>1, <1>n, <2>1
<1>k. next'.seq = Head1[1].frame /\ next'.buf = b /\ next' \in FrameType
  BY <1>1, <1>l DEF FrameType
<1>m. Filling' /\ ~ Waiting' /\ Holding' /\ Running' /\ reads'[1].len = n
  <2>1. \A x : <<x>> # <<>> /\ <<x>>[1] = x
    OBVIOUS
  <2>2. reads' # <<>> /\ reads'[1].len = n
    BY <1>r, <2>1
  <2>3. Filling'
    BY <1>0, <1>r, <1>k, <2>2 DEF Filling, BodyRequest
  <2>4. b # Header
    BY NamesAssumption
  <2>5. [buf |-> b, len |-> n].buf = b /\ HeaderRequest.buf = Header
    BY DEF HeaderRequest
  <2>6. ~ Waiting'
    BY <1>r, <2>4, <2>5 DEF Waiting, HeaderRequest
  <2> QED
    BY <2>2, <2>3, <2>6 DEF Holding, Running
<1>c. /\ DOMAIN content = Buffers \cup {Header} /\ DOMAIN content' = Buffers \cup {Header}
      /\ content'[b] = <<>> /\ \A x \in Buffers : x # b => content'[x] = content[x]
      /\ \A x \in DOMAIN content : x # b => content'[x] = content[x]
      /\ \A x \in DOMAIN content : content[x] \in Seq(Units)
  BY <1>t, <1>1 DEF TypeOK
<1>g. /\ pool' \in Seq(Buffers) /\ Len(pool') <= ListSize
      /\ b \notin Range(pool') /\ \A i \in DOMAIN queue : queue[i].buf # b
      /\ player.pc # "pop" => b # player.frame.buf
      /\ \A i, j \in DOMAIN pool' : pool'[i] = pool'[j] => i = j
      /\ Range(pool') \subseteq Range(pool)
  BY <1>t, <1>1, GetFacts
<1>2. TypeOK'
  <2>1. <<>> \in Seq(Units)
    BY EmptySeq
  <2>2. \A x \in DOMAIN content' : content'[x] \in Seq(Units)
    BY <1>c, <2>1
  <2>3. reads' \in Seq([buf : Buffers \cup {Header}, len : Nat])
    BY <1>r, <1>l, OneFacts
  <2>4. strayed' \in BOOLEAN
    BY <1>0
  <2> QED
    BY <1>t, <1>s, <1>0, <1>c, <1>g, <1>k, <2>2, <2>3, <2>4 DEF TypeOK
<1>3. Reader'
  BY <1>0, <1>m DEF Reader
<1>q. InHand' = InHand /\ Queued' = Queued
  BY <1>s DEF InHand, Queued
<1>4. Course'
  <2>1. CASE strayed
    BY <1>t, <1>s, <1>0, <1>q, <2>1 DEF Course, Astray
  <2>2. CASE ~ strayed /\ ~ Marked(Head1)
    <3>1. HeaderRead /\ Numbers
      BY <1>t, <1>0, <2>2 DEF Course, Straight, InPlace
    <3>2. files > 0 /\ next.seq = before
      <4>1. Head1 # <<>>
        <5>1. Len(<<>>) # 2
          OBVIOUS
        <5> QED
          BY <1>l, <5>1
      <4>2. \A f : /\ ~ (Head1 = <<Mark(f)>>)
                   /\ ~ (Head1 = <<Mark(f), Length(f)>>)
        BY <2>2 DEF Marked, Mark, Unit
      <4> QED
        BY <3>1, <4>1, <4>2 DEF HeaderRead
    <3>3. next.seq = Queued
      BY <1>n, <1>t, <3>1, SeqFacts DEF Numbers
    <3>4. files' > 0 /\ before' <= Queued'
      <4>1. Queued \in Nat /\ before = Queued
        BY <1>t, <3>2, <3>3, SeqFacts
      <4> QED
        BY <1>s, <1>q, <3>2, <4>1
    <3>5. strayed'
      BY <1>0, <2>2
    <3> QED
      BY <3>4, <3>5 DEF Course, Astray
  <2>3. CASE ~ strayed /\ Marked(Head1)
    <3> DEFINE k == next.seq + 1
    <3>t. Stream /\ InPlace /\ Continues /\ Numbers
      BY <1>t, <2>3 DEF Course, Straight
    <3>h. k \in 1 .. before /\ Head1 = <<Mark(k), Length(k)>>
      <4>1. HeaderRead
        BY <3>t, <1>0 DEF InPlace
      <4>2. ~ IsFile(Head1[1])
        BY <2>3 DEF Marked, IsFile
      <4>3. Len(<<>>) # 2 /\ \A x : Len(<<x>>) # 2
        OBVIOUS
      <4> QED
        BY <1>l, <4>1, <4>2, <4>3 DEF HeaderRead, After
    <3>f. Head1[1].frame = k /\ Head1[2].n = sent[k] /\ ~ IsFile(Head1[1])
      <4>1. Head1[1] = Mark(k) /\ Head1[2] = Length(k)
        BY <3>h
      <4> QED
        BY <4>1 DEF Mark, Length, Unit, IsFile
    <3>n. n = sent[k]
      BY <1>1, <2>3, <3>f DEF Announced
    <3>k. /\ k \in DOMAIN sent /\ k \in 0 .. MaxFrames /\ sent[k] \in Nat /\ sent[k] > 0
          /\ next'.seq = k /\ k <= before
      <4>1. before <= Len(sent) /\ before \in Nat /\ Len(sent) \in Nat /\ DOMAIN sent = 1 .. Len(sent)
        BY <1>t, SeqFacts DEF WholeFrames
      <4>2. k \in DOMAIN sent /\ k <= before
        BY <3>h, <4>1
      <4> QED
        BY <1>t, <1>k, <3>f, <4>2, SeqFacts
    <3>b. /\ content'[next'.buf] = Body(k, 0) /\ sent'[next'.seq] = sent[k]
          /\ \A m \in Nat : content'[next'.buf] = Body(k, m) => m = 0
      BY <1>s, <1>c, <1>k, <3>k, BodyFacts, BodyLength
    <3>4. Stream'
      BY <1>s, <3>t DEF Stream, Follows, Begins, Ends, Length
    <3>5. InPlace'
      <4>1. 0 \in 0 .. sent[k]
        BY <3>k
      <4>2. BodyRead(0)'
        BY <3>k, <3>b DEF BodyRead
      <4>3. \E m \in 0 .. sent'[next'.seq] : BodyRead(m)'
        BY <3>b, <4>1, <4>2
      <4>4. next'.seq \in DOMAIN sent' /\ reads'[1].len = sent'[next'.seq]
        BY <1>s, <1>m, <3>k, <3>n
      <4> QED
        BY <1>0, <1>m, <4>3, <4>4 DEF InPlace
    <3>6. Continues'
      <4>1. ~ broken => wire # <<>> /\ wire[1] = Unit("body", k, 1)
        BY <3>t, <1>0, <1>l, <3>f DEF Continues
      <4>2. \A m \in 0 .. sent'[next'.seq] - 1 : BodyRead(m)' => m + 1 = 1
        BY <3>k, <3>b DEF BodyRead
      <4>3. ~ BodyRead(sent[next.seq])'
        BY <3>k, <3>b DEF BodyRead
      <4>4. ~ broken' =>
              \A m \in 0 .. sent'[next'.seq] - 1 :
                BodyRead(m)' => wire' # <<>> /\ wire'[1] = Unit("body", next'.seq, m + 1)
        BY <1>s, <3>k, <4>1, <4>2
      <4> QED
        BY <1>0, <1>m, <4>3, <4>4 DEF Continues
    <3>7. Numbers'
      <4>1. next.seq = Queued + 0 /\ Queued \in Nat
        BY <1>t, <1>n, <3>t, SeqFacts DEF Numbers
      <4>2. next'.seq = Queued' + 1 /\ next'.seq <= before'
        BY <1>s, <1>q, <3>k, <4>1
      <4> QED
        BY <1>s, <1>m, <1>q, <3>t, <4>2 DEF Numbers
    <3> QED
      BY <1>0, <2>3, <3>4, <3>5, <3>6, <3>7 DEF Course, Straight
  <2> QED
    BY <2>1, <2>2, <2>3
<1>5. WholeFrames'
  <2>1. /\ player.pc = "copy" => player.frame.buf \in Buffers /\ player.frame.buf # b
        /\ \A i \in DOMAIN queue : queue[i].buf \in Buffers /\ queue[i].buf # b
    BY <1>t, <1>g DEF Owned, Private
  <2> QED
    BY <1>t, <1>s, <1>c, <1>q, <2>1 DEF WholeFrames, Whole
<1>6. Owned'
  <2>1. Private(next.buf)'
    BY <1>s, <1>k, <1>g DEF Private
  <2>2. player.pc # "pop" => Private(player.frame.buf)'
    BY <1>t, <1>s, <1>g DEF Owned, Private
  <2>3. \A i \in DOMAIN queue : queue[i].buf \in Buffers /\ queue[i].buf \notin Range(pool')
    BY <1>t, <1>g DEF Owned
  <2> QED
    BY <1>t, <1>s, <1>k, <1>g, <2>1, <2>2, <2>3 DEF Owned
<1> QED
  BY <1>2, <1>3, <1>4, <1>5, <1>6 DEF IInv

\* What comes after a unit of a frame.
LEMMA FollowsFacts ==
    ASSUME TypeOK, NEW f \in DOMAIN sent, NEW v
    PROVE  /\ Follows(Mark(f), v) => v = Length(f)
           /\ Follows(Length(f), v) => v = Unit("body", f, 1)
           /\ \A i \in 1 .. sent[f] - 1 :
                Follows(Unit("body", f, i), v) => v = Unit("body", f, i + 1)
           /\ Follows(Unit("body", f, sent[f]), v) => Begins(v, f + 1)
           /\ ~ Ends(Mark(f)) /\ ~ Ends(Length(f))
           /\ \A i \in Nat : Ends(Unit("body", f, i)) =>
                i = sent[f] /\ f = Len(sent) /\ (files = 0 \/ f > before)
<1>1. \A g \in DOMAIN sent : sent[g] \in Nat /\ sent[g] > 0
  BY SeqFacts
<1>2. \A p, q, x, y, i, j : Unit(p, x, i) = Unit(q, y, j) => p = q /\ x = y /\ i = j
  BY DEF Unit
<1>3. \A x, i : ~ IsFile(Mark(x)) /\ ~ IsFile(Length(x)) /\ ~ IsFile(Unit("body", x, i))
  BY DEF IsFile, Mark, Length, Unit
<1>4. Follows(Mark(f), v) => v = Length(f)
  BY <1>2, <1>3 DEF Follows, Mark, Length
<1>5. Follows(Length(f), v) => v = Unit("body", f, 1)
  BY <1>2, <1>3 DEF Follows, Mark, Length
<1>6. ASSUME NEW i \in 1 .. sent[f] - 1, Follows(Unit("body", f, i), v)
      PROVE  v = Unit("body", f, i + 1)
  <2>1. i # sent[f]
    BY <1>1
  <2> QED
    BY <1>2, <1>3, <1>6, <2>1 DEF Follows, Mark, Length
<1>7. Follows(Unit("body", f, sent[f]), v) => Begins(v, f + 1)
  <2>1. sent[f] \notin 1 .. sent[f] - 1
    BY <1>1
  <2> QED
    BY <1>2, <1>3, <2>1 DEF Follows, Mark, Length
<1>8. ~ Ends(Mark(f)) /\ ~ Ends(Length(f))
  BY <1>2, <1>3 DEF Ends, Mark, Length
<1>9. \A i \in Nat : Ends(Unit("body", f, i)) =>
          i = sent[f] /\ f = Len(sent) /\ (files = 0 \/ f > before)
  BY <1>2, <1>3 DEF Ends
<1> QED
  BY <1>4, <1>5, <1>6, <1>7, <1>8, <1>9

LEMMA WireTail ==
    ASSUME TypeOK, Stream, wire # <<>>, wire' = Tail(wire), UNCHANGED <<sent, files, before, broken>>
    PROVE  /\ Stream' /\ wire' \in Seq(Units) /\ wire[1] \in Units /\ Head(wire) = wire[1] /\ ~ broken
           /\ wire' = <<>> => Ends(wire[1])
           /\ wire' # <<>> => Follows(wire[1], wire'[1])
           /\ IsFile(wire[1]) => files > 0
<1>1. /\ Len(wire) \in Nat \ {0} /\ Head(wire) = wire[1] /\ wire[1] \in Units
      /\ wire' \in Seq(Units) /\ Len(wire') = Len(wire) - 1 /\ DOMAIN wire' = 1 .. Len(wire) - 1
      /\ \A i \in 1 .. Len(wire) - 1 : wire'[i] = wire[i + 1]
      /\ wire' = <<>> <=> Len(wire) = 1
      /\ DOMAIN wire = 1 .. Len(wire)
  <2>1. wire \in Seq(Units)
    BY DEF TypeOK
  <2> QED
    BY <2>1, TailFacts, LenProperties
<1>2. ~ broken
  BY DEF Stream
<1>3. wire' = <<>> => Ends(wire[1])
  BY <1>1 DEF Stream
<1>4. wire' # <<>> => Follows(wire[1], wire'[1])
  <2>1. wire' # <<>> => 1 \in 1 .. Len(wire) - 1
    BY <1>1
  <2> QED
    BY <1>1, <2>1 DEF Stream
<1>5. IsFile(wire[1]) => files > 0
  <2>1. 1 \in DOMAIN wire
    BY <1>1
  <2> QED
    BY <2>1 DEF Stream
<1>6. \A i \in 1 .. Len(wire') - 1 : Follows(wire'[i], wire'[i + 1])
  <2>1. ASSUME NEW i \in 1 .. Len(wire') - 1
        PROVE  Follows(wire'[i], wire'[i + 1])
    <3>1. /\ i \in 1 .. Len(wire) - 1 /\ i + 1 \in 1 .. Len(wire) - 1
          /\ wire'[i] = wire[i + 1] /\ wire'[i + 1] = wire[(i + 1) + 1]
      BY <1>1
    <3>2. Follows(wire[i + 1], wire[(i + 1) + 1])
      BY <3>1 DEF Stream
    <3> QED
      BY <3>1, <3>2
  <2> QED
    BY <2>1
<1>7. wire' # <<>> => Ends(wire'[Len(wire')])
  <2>1. wire' # <<>> => Len(wire') \in 1 .. Len(wire) - 1 /\ Len(wire') + 1 = Len(wire)
    BY <1>1
  <2>2. Ends(wire[Len(wire)])
    BY DEF Stream
  <2> QED
    BY <1>1, <2>1, <2>2
<1>8. \A i \in DOMAIN wire' : IsFile(wire'[i]) => files > 0
  <2>1. \A i \in DOMAIN wire' : i + 1 \in DOMAIN wire /\ wire'[i] = wire[i + 1]
    BY <1>1
  <2> QED
    BY <2>1 DEF Stream
<1>9. /\ \A u, v : Follows(u, v)' <=> Follows(u, v)
      /\ \A u : Ends(u)' <=> Ends(u)
  BY DEF Follows, Begins, Ends, Length
<1>10. Stream'
  BY <1>2, <1>6, <1>7, <1>8, <1>9 DEF Stream, Follows, Begins, Ends, Length
<1> QED
  BY <1>1, <1>2, <1>3, <1>4, <1>5, <1>10


\* A read obtains a unit: Header or the buffer of next gets one more.  The
\* reader stays in step.
LEMMA ReadInStep ==
    ASSUME TypeOK, Reader, Owned, WholeFrames, Straight, ReadSome
    PROVE  Stream' /\ InPlace' /\ Continues'
<1>s. UNCHANGED <<sent, files, before, broken, reads, io, next, strayed, pool, queue, player, out>>
  BY DEF ReadSome, server
<1>t. TypeOK /\ Reader /\ Owned /\ WholeFrames /\ Stream /\ InPlace /\ Continues /\ Numbers
  BY DEF Straight
<1> DEFINE r == Head(reads)
<1>0. /\ io = "idle" /\ reads # <<>> /\ wire # <<>> /\ ~ Complete(r) /\ wire' = Tail(wire)
      /\ content' = [content EXCEPT ![r.buf] = Append(@, Head(wire))]
  BY DEF ReadSome
<1>w. /\ Stream' /\ wire' \in Seq(Units) /\ wire[1] \in Units /\ Head(wire) = wire[1] /\ ~ broken
      /\ wire' = <<>> => Ends(wire[1])
      /\ wire' # <<>> => Follows(wire[1], wire'[1])
      /\ IsFile(wire[1]) => files > 0
  BY <1>t, <1>s, <1>0, WireTail
<1>r. \/ Waiting /\ ~ Filling /\ r.buf = Header /\ r.len = 2
      \/ Filling /\ ~ Waiting /\ r.buf = next.buf /\ r.len = reads[1].len
  <2>1. \A x : Head(<<x>>) = x
    OBVIOUS
  <2>2. Waiting => ~ Filling /\ r.buf = Header /\ r.len = 2
    BY <1>t, <2>1, HoldingFacts, RequestTypes DEF Waiting
  <2>3. Filling => ~ Waiting /\ r.buf = next.buf /\ r.len = reads[1].len
    BY <1>t, <2>1, HoldingFacts, RequestTypes DEF Filling
  <2> QED
    BY <1>t, <1>0, <2>2, <2>3 DEF Reader
<1>h. Holding => /\ next.buf \in Buffers /\ next.buf # Header
                 /\ next.seq \in DOMAIN sent /\ next.seq \in 1 .. before
  BY <1>t, HoldingFacts, StraightFacts
<1>b. r.buf \in Buffers \cup {Header}
  BY <1>r, <1>h DEF Holding
<1>c. /\ DOMAIN content = Buffers \cup {Header} /\ DOMAIN content' = Buffers \cup {Header}
      /\ content'[r.buf] = Append(content[r.buf], wire[1])
      /\ \A x \in DOMAIN content : x # r.buf => content'[x] = content[x]
      /\ \A x \in DOMAIN content : content[x] \in Seq(Units)
  BY <1>t, <1>0, <1>b, <1>w DEF TypeOK
<1>m. /\ (Filling' <=> Filling) /\ (Waiting' <=> Waiting) /\ (Holding' <=> Holding)
      /\ (Running' <=> Running)
  BY <1>s DEF Filling, Waiting, Holding, Running, BodyRequest, HeaderRequest
<1>k. /\ next.seq \in Nat /\ Len(sent) \in Nat /\ DOMAIN sent = 1 .. Len(sent) /\ before \in Nat
      /\ \A f \in DOMAIN sent : sent[f] \in Nat /\ sent[f] > 0 /\ f \in 0 .. MaxFrames
      /\ before <= Len(sent) /\ next.seq <= before
  <2>1. Running
    BY <1>0 DEF Running
  <2> QED
    BY <1>t, <2>1, SeqFacts, HoldingFacts DEF WholeFrames, Numbers
<1>3. InPlace' /\ Continues'
  <2>1. CASE Waiting
    <3> DEFINE k == next.seq + 1
               c == content[Header]
    <3>0. /\ ~ Filling /\ c \in Seq(Units) /\ content'[Header] = Append(c, wire[1])
          /\ Len(c) # 2 /\ io = "idle" /\ HeaderRead
      BY <1>t, <1>0, <1>r, <1>c, <2>1 DEF Complete, InPlace
    <3>1. CASE c = <<>>
      <4>0. content'[Header] = <<wire[1]>>
        BY <1>w, <3>0, <3>1, OneFacts
      <4>1. \/ wire[1] = Mark(k) /\ k \in DOMAIN sent /\ k \in 1 .. before
            \/ IsFile(wire[1]) /\ next.seq = before
        <5>1. \/ wire[1] = Mark(k) /\ k \in DOMAIN sent /\ k # before + 1
              \/ IsFile(wire[1]) /\ k > before
          BY <1>t, <1>0, <1>w, <2>1, <3>1 DEF Continues, Head1, NextFrame, Begins
        <5> QED
          BY <1>k, <5>1
      <4>l. /\ \A x : Len(<<x>>) = 1 /\ <<x>> # <<>> /\ <<x>>[1] = x
            /\ \A x, y : <<x>> = <<y>> => x = y
        OBVIOUS
      <4>2. InPlace'
        <5>1. HeaderRead'
          BY <1>s, <1>w, <4>0, <4>1, <4>l DEF HeaderRead, Head1, After, Mark, IsFile
        <5> QED
          BY <1>s, <1>m, <3>0, <5>1 DEF InPlace
      <4>3. Continues'
        <5>1. ~ (Head1' = <<>>) /\ Len(Head1') # 2
          BY <4>0, <4>l DEF Head1
        <5>2. Head1' = <<Mark(next'.seq + 1)>> => wire' # <<>> /\ wire'[1] = Length(next.seq + 1)
          <6>1. SUFFICES ASSUME Head1' = <<Mark(next'.seq + 1)>>
                         PROVE  wire' # <<>> /\ wire'[1] = Length(k)
            OBVIOUS
          <6>2. wire[1] = Mark(k)
            BY <1>s, <4>0, <4>l, <6>1 DEF Head1
          <6>3. k \in DOMAIN sent
            <7>1. ~ IsFile(Mark(k))
              BY DEF IsFile, Mark, Unit
            <7> QED
              BY <4>1, <6>2, <7>1
          <6>4. wire' # <<>>
            BY <1>t, <1>w, <6>2, <6>3, FollowsFacts
          <6> QED
            BY <1>t, <1>w, <6>2, <6>3, <6>4, FollowsFacts
        <5> QED
          BY <1>s, <1>m, <2>1, <3>0, <5>1, <5>2 DEF Continues, Length
      <4> QED
        BY <4>2, <4>3
    <3>2. CASE k \in 1 .. before /\ c = <<Mark(k)>>
      <4>k. k \in DOMAIN sent
        BY <1>k, <3>2
      <4>1. wire[1] = Length(k)
        BY <1>t, <1>w, <2>1, <3>2 DEF Continues, Head1
      <4>0. content'[Header] = <<Mark(k), Length(k)>>
        <5>1. PICK x \in Units : x = Mark(k)
          <6>1. Len(c) = 1 /\ c[1] = Mark(k)
            BY <3>2
          <6> QED
            BY <3>0, <6>1, ElementOfSeq
        <5>2. PICK y \in Units : y = wire[1]
          BY <1>w
        <5>3. Append(<<x>>, y) = <<x, y>>
          BY TwoFacts
        <5> QED
          BY <3>0, <3>2, <4>1, <5>1, <5>2, <5>3
      <4>l. \A x, y, z : Len(<<x, y>>) = 2 /\ <<x, y>>[1] = x /\ <<x, y>> # <<>> /\ <<x, y>> # <<z>>
        OBVIOUS
      <4>2. InPlace'
        <5>1. HeaderRead'
          BY <1>s, <3>2, <4>0 DEF HeaderRead, Head1, After, Mark, Length
        <5> QED
          BY <1>s, <1>m, <3>0, <5>1 DEF InPlace
      <4>3. Continues'
        <5>1. wire' # <<>> /\ wire'[1] = Unit("body", k, 1)
          <6>1. wire' # <<>>
            BY <1>t, <1>w, <4>k, <4>1, FollowsFacts
          <6> QED
            BY <1>t, <1>w, <4>k, <4>1, <6>1, FollowsFacts
        <5>2. Head1' # <<>> /\ Head1' # <<Mark(next'.seq + 1)>>
          BY <4>0, <4>l DEF Head1
        <5> QED
          BY <1>s, <1>m, <2>1, <3>0, <5>1, <5>2 DEF Continues
      <4> QED
        BY <4>2, <4>3
    <3>3. CASE Len(c) \in {1, 2} /\ IsFile(c[1]) /\ files > 0 /\ next.seq = before
      <4>0. /\ Len(c) = 1 /\ Len(content'[Header]) = 2 /\ content'[Header][1] = c[1]
            /\ content'[Header] # <<>>
        <5>1. Len(c) = 1
          BY <3>0, <3>3
        <5>2. PICK x \in Seq(Units) : x = c
          BY <3>0
        <5>3. PICK y \in Units : y = wire[1]
          BY <1>w
        <5>4. /\ Len(Append(x, y)) = Len(x) + 1 /\ Append(x, y) # <<>>
              /\ \A i \in 1 .. Len(x) : Append(x, y)[i] = x[i]
          BY AppendFacts
        <5>5. Len(x) = 1 /\ content'[Header] = Append(x, y)
          BY <3>0, <5>1, <5>2, <5>3
        <5>6. 1 \in 1 .. Len(x)
          BY <5>5
        <5> QED
          BY <5>1, <5>2, <5>4, <5>5, <5>6
      <4>2. InPlace'
        <5>1. HeaderRead'
          BY <1>s, <3>3, <4>0 DEF HeaderRead, Head1, IsFile
        <5> QED
          BY <1>s, <1>m, <3>0, <5>1 DEF InPlace
      <4>3. Continues'
        <5>1. \A x : Len(<<x>>) = 1
          OBVIOUS
        <5>2. IsFile(Head1'[1]) /\ Len(Head1') = 2
          BY <3>3, <4>0 DEF Head1
        <5>3. Head1' # <<>> /\ Head1' # <<Mark(next'.seq + 1)>>
          BY <4>0, <5>1, <5>2 DEF Head1
        <5> QED
          BY <1>s, <1>m, <2>1, <3>0, <5>2, <5>3 DEF Continues, IsFile
      <4> QED
        BY <4>2, <4>3
    <3>4. \A x, y : Len(<<x, y>>) = 2
      OBVIOUS
    <3> QED
      BY <3>0, <3>1, <3>2, <3>3, <3>4 DEF HeaderRead, Head1, After
  <2>2. CASE Filling
    <3> DEFINE f == next.seq
    <3>0. /\ ~ Waiting /\ f \in DOMAIN sent /\ next.buf \in Buffers /\ next.buf # Header
          /\ r.buf = next.buf /\ r.len = sent[f] /\ io = "idle" /\ reads[1].len = sent[f]
          /\ f \in 0 .. MaxFrames /\ sent[f] \in Nat /\ sent[f] > 0
      BY <1>t, <1>0, <1>r, <1>h, <1>k, <2>2 DEF Holding, InPlace
    <3>1. PICK n \in 0 .. sent[f] : BodyRead(n)
      BY <1>t, <2>2 DEF InPlace
    <3>2. n \in Nat /\ n # sent[f] /\ n \in 0 .. sent[f] - 1 /\ n + 1 \in 1 .. sent[f]
      <4>1. n \in Nat
        BY <3>0, <3>1
      <4>2. Len(Body(f, n)) = n
        BY <3>0, <4>1, BodyFacts
      <4>3. n # sent[f]
        BY <1>0, <3>0, <3>1, <4>2 DEF Complete, BodyRead
      <4> QED
        BY <3>0, <4>1, <4>3
    <3>3. wire[1] = Unit("body", f, n + 1)
      BY <1>t, <1>w, <2>2, <3>1, <3>2 DEF Continues
    <3>4. content'[next'.buf] = Body(f, n + 1)
      <4>1. content'[next.buf] = Append(content[next.buf], wire[1])
        BY <1>c, <3>0
      <4>2. content[next.buf] = Body(f, n)
        BY <3>1 DEF BodyRead
      <4>3. Append(Body(f, n), Unit("body", f, n + 1)) = Body(f, n + 1)
        BY <3>0, <3>2, BodyFacts
      <4> QED
        BY <1>s, <3>3, <4>1, <4>2, <4>3
    <3>5. \A m \in Nat : BodyRead(m)' => m = n + 1
      BY <1>s, <3>0, <3>2, <3>4, BodyLength DEF BodyRead
    <3>6. InPlace'
      <4>1. n + 1 \in 0 .. sent[f] /\ BodyRead(n + 1)'
        BY <1>s, <3>2, <3>0, <3>4 DEF BodyRead
      <4>2. \E m \in 0 .. sent'[next'.seq] : BodyRead(m)'
        BY <1>s, <4>1
      <4> QED
        BY <1>s, <1>m, <2>2, <3>0, <4>2 DEF InPlace
    <3>7. ASSUME NEW m \in 0 .. sent[f] - 1, m = n + 1
          PROVE  wire' # <<>> /\ wire'[1] = Unit("body", f, m + 1)
      <4>1. n + 1 \in 1 .. sent[f] - 1 /\ n + 1 \in Nat /\ n + 1 # sent[f]
        BY <3>0, <3>2, <3>7
      <4>2. wire' # <<>>
        BY <1>t, <1>w, <3>0, <3>3, <4>1, FollowsFacts
      <4>3. wire'[1] = Unit("body", f, (n + 1) + 1)
        BY <1>t, <1>w, <3>0, <3>3, <4>1, <4>2, FollowsFacts
      <4> QED
        BY <3>7, <4>2, <4>3
    <3>8. ASSUME n + 1 = sent[f] PROVE NextFrame'
      <4>1. wire[1] = Unit("body", f, sent[f])
        BY <3>3, <3>8
      <4>2. wire' = <<>> => f = Len(sent) /\ files = 0
        <5>1. wire' = <<>> => f = Len(sent) /\ (files = 0 \/ f > before)
          BY <1>t, <1>w, <3>0, <4>1, FollowsFacts
        <5> QED
          BY <1>k, <5>1
      <4>3. wire' # <<>> => Begins(wire'[1], f + 1)
        BY <1>t, <1>w, <3>0, <4>1, FollowsFacts
      <4> QED
        BY <1>s, <4>2, <4>3 DEF NextFrame, Begins
    <3>9. Continues'
      <4>1. \A m \in 0 .. sent[f] - 1 :
              BodyRead(m)' => wire' # <<>> /\ wire'[1] = Unit("body", f, m + 1)
        <5>1. \A m \in 0 .. sent[f] - 1 : m \in Nat
          BY <3>0
        <5> QED
          BY <3>5, <3>7, <5>1
      <4>2. BodyRead(sent[next.seq])' => NextFrame'
        <5>1. BodyRead(sent[next.seq])' => n + 1 = sent[f]
          BY <1>s, <3>0, <3>5
        <5> QED
          BY <3>8, <5>1
      <4> QED
        BY <1>s, <1>m, <2>2, <3>0, <4>1, <4>2 DEF Continues
    <3> QED
      BY <3>6, <3>9
  <2> QED
    BY <1>r, <2>1, <2>2
<1> QED
  BY <1>w, <1>3

\* A read obtains a unit: Header or the buffer of next gets one more.
LEMMA ReadStep == ASSUME IInv, ReadSome PROVE IInv'
<1>s. UNCHANGED <<sent, files, before, broken, reads, io, next, strayed, pool, queue, player, out>>
  BY DEF ReadSome, server
<1>t. TypeOK /\ Reader /\ Owned /\ WholeFrames /\ Course
  BY DEF IInv
<1> DEFINE r == Head(reads)
<1>0. /\ io = "idle" /\ reads # <<>> /\ wire # <<>> /\ ~ Complete(r) /\ wire' = Tail(wire)
      /\ content' = [content EXCEPT ![r.buf] = Append(@, Head(wire))]
  BY DEF ReadSome
<1>w. wire' \in Seq(Units) /\ wire[1] \in Units /\ Head(wire) = wire[1]
  BY <1>t, <1>0, TailFacts DEF TypeOK
<1>r. \/ Waiting /\ ~ Filling /\ r.buf = Header /\ r.len = 2
      \/ Filling /\ ~ Waiting /\ r.buf = next.buf /\ r.len = reads[1].len
  <2>1. \A x : Head(<<x>>) = x
    OBVIOUS
  <2>2. Waiting => ~ Filling /\ r.buf = Header /\ r.len = 2
    BY <1>t, <2>1, HoldingFacts, RequestTypes DEF Waiting
  <2>3. Filling => ~ Waiting /\ r.buf = next.buf /\ r.len = reads[1].len
    BY <1>t, <2>1, HoldingFacts, RequestTypes DEF Filling
  <2> QED
    BY <1>t, <1>0, <2>2, <2>3 DEF Reader
<1>h. Holding => next.buf \in Buffers /\ next.buf # Header
  BY <1>t, HoldingFacts
<1>b. r.buf \in Buffers \cup {Header}
  BY <1>r, <1>h DEF Holding
<1>c. /\ DOMAIN content = Buffers \cup {Header} /\ DOMAIN content' = Buffers \cup {Header}
      /\ content'[r.buf] = Append(content[r.buf], wire[1])
      /\ \A x \in DOMAIN content : x # r.buf => content'[x] = content[x]
      /\ \A x \in DOMAIN content : content[x] \in Seq(Units)
  BY <1>t, <1>0, <1>b, <1>w DEF TypeOK
<1>1. TypeOK'
  <2>1. content'[r.buf] \in Seq(Units)
    BY <1>b, <1>c, <1>w, AppendFacts
  <2>2. \A x \in DOMAIN content' : content'[x] \in Seq(Units)
    BY <1>c, <2>1
  <2> QED
    BY <1>t, <1>s, <1>w, <1>c, <2>2 DEF TypeOK
<1>m. /\ (Filling' <=> Filling) /\ (Waiting' <=> Waiting) /\ (Holding' <=> Holding)
      /\ (Running' <=> Running)
  BY <1>s DEF Filling, Waiting, Holding, Running, BodyRequest, HeaderRequest
<1>2. Reader'
  BY <1>t, <1>s, <1>0, <1>m DEF Reader
<1>q. InHand' = InHand /\ Queued' = Queued
  BY <1>s DEF InHand, Queued
<1>3. Course'
  <2>1. CASE strayed
    BY <1>t, <1>s, <1>q, <2>1 DEF Course, Astray
  <2>2. CASE ~ strayed
    <3>1. Straight
      BY <1>t, <2>2 DEF Course
    <3>2. Stream' /\ InPlace' /\ Continues'
      BY <1>t, <3>1, ReadInStep
    <3>3. Numbers'
      BY <1>s, <1>m, <1>q, <3>1 DEF Straight, Numbers
    <3> QED
      BY <1>s, <2>2, <3>2, <3>3 DEF Course, Straight
  <2> QED
    BY <2>1, <2>2
<1>5. WholeFrames'
  <2>1. /\ player.pc = "copy" => player.frame.buf \in Buffers /\ player.frame.buf # r.buf
        /\ \A i \in DOMAIN queue : queue[i].buf \in Buffers /\ queue[i].buf # r.buf
    <3>1. CASE r.buf = Header
      BY <1>t, <3>1, NamesAssumption DEF Owned, Private
    <3>2. CASE Holding /\ r.buf = next.buf
      BY <1>t, <3>2 DEF Owned, Private
    <3> QED
      BY <1>r, <3>1, <3>2 DEF Holding
  <2> QED
    BY <1>t, <1>s, <1>c, <1>q, <2>1 DEF WholeFrames, Whole
<1>6. Owned'
  BY <1>t, <1>s, <1>m DEF Owned, Private
<1> QED
  BY <1>1, <1>2, <1>3, <1>5, <1>6 DEF IInv

-----------------------------------------------------------------------------
(* The server *)

\* The server sends more: what it sent before is not touched, and the first
\* file stays where it is.
More == /\ DOMAIN sent \subseteq DOMAIN sent' /\ \A f \in DOMAIN sent : sent'[f] = sent[f]
        /\ Len(sent) <= Len(sent')
        /\ before' \in Nat /\ before <= before' /\ before' <= Len(sent') /\ (files = 0 => Len(sent') <= before')
        /\ files > 0 => before' = before /\ files' > 0

\* A frame keeps its place in the stream when more are sent.
LEMMA FollowsKept ==
    ASSUME TypeOK, WholeFrames, More
    PROVE  /\ \A u, f : (IsFile(u) => files > 0) /\ Begins(u, f) => Begins(u, f)'
           /\ \A u, v : (IsFile(v) => files > 0) /\ Follows(u, v) => Follows(u, v)'
<1>0. /\ Len(sent) \in Nat /\ DOMAIN sent = 1 .. Len(sent)
      /\ files = 0 => Len(sent) <= before
      /\ files = 0 \/ files > 0
  BY SeqFacts, BoundsAssumption DEF TypeOK, WholeFrames
<1>1. ASSUME NEW u, NEW f, IsFile(u) => files > 0, Begins(u, f) PROVE Begins(u, f)'
  <2>1. CASE files > 0
    BY <1>1, <2>1 DEF Begins, IsFile, Mark, More
  <2>2. CASE files = 0
    <3>1. f \in DOMAIN sent /\ u = Mark(f)
      BY <1>1, <2>2 DEF Begins
    <3>2. f \in DOMAIN sent' /\ f # before' + 1
      BY <1>0, <2>2, <3>1 DEF More
    <3> QED
      BY <3>1, <3>2 DEF Begins, Mark
  <2> QED
    BY <1>0, <2>1, <2>2
<1>2. ASSUME NEW u, NEW v, IsFile(v) => files > 0, Follows(u, v) PROVE Follows(u, v)'
  <2>1. CASE IsFile(u)
    BY <2>1 DEF Follows, IsFile
  <2>2. CASE ~ IsFile(u)
    <3>1. PICK f \in DOMAIN sent :
          \/ u = Mark(f) /\ v = Length(f)
          \/ u = Length(f) /\ v = Unit("body", f, 1)
          \/ \E i \in 1 .. sent[f] - 1 : u = Unit("body", f, i) /\ v = Unit("body", f, i + 1)
          \/ u = Unit("body", f, sent[f]) /\ Begins(v, f + 1)
      BY <1>2, <2>2 DEF Follows
    <3>2. f \in DOMAIN sent' /\ sent'[f] = sent[f]
      BY DEF More
    <3>3. Begins(v, f + 1) => Begins(v, f + 1)'
      BY <1>1, <1>2
    <3>4. Length(f)' = Length(f) /\ Mark(f)' = Mark(f)
      BY <3>2 DEF Length, Mark
    <3> QED
      BY <3>1, <3>2, <3>3, <3>4 DEF Follows
  <2> QED
    BY <2>1, <2>2
<1> QED
  BY <1>1, <1>2

\* The server appends to the stream: the reader stays in its place.
LEMMA GrowStep ==
    ASSUME IInv, TypeOK', More, Straight => Stream', ~ broken,
           UNCHANGED <<broken, client, pool, queue, player, out>>,
           files' = 0 => Len(sent') <= before',
           wire' # <<>>, wire # <<>> => wire'[1] = wire[1],
           wire = <<>> /\ files = 0 => \A f : f = Len(sent) + 1 => Begins(wire[1], f)'
    PROVE  IInv'
<1>s. UNCHANGED <<broken, reads, content, io, next, strayed, pool, queue, player, out>>
  BY DEF client
<1>t. TypeOK /\ Reader /\ Owned /\ WholeFrames /\ Course
  BY DEF IInv
<1>k. /\ Len(sent) \in Nat /\ DOMAIN sent = 1 .. Len(sent) /\ Len(sent') \in Nat
      /\ before \in Nat /\ before <= Len(sent) /\ Queued \in Nat /\ files \in Nat
      /\ files = 0 => Len(sent) <= before
      /\ Len(sent) <= Len(sent')
  <2>1. sent' \in Seq(Sizes)
    BY DEF TypeOK
  <2> QED
    BY <1>t, <2>1, SeqFacts, LenProperties, BoundsAssumption DEF TypeOK, WholeFrames, More
<1>m. /\ (Filling' <=> Filling) /\ (Waiting' <=> Waiting) /\ (Holding' <=> Holding)
      /\ (Running' <=> Running) /\ Head1' = Head1 /\ After' = After
      /\ InHand' = InHand /\ Queued' = Queued
      /\ \A n : BodyRead(n)' <=> BodyRead(n)
      /\ \A f : Mark(f)' = Mark(f)
      /\ \A u : IsFile(u)' <=> IsFile(u)
  BY <1>s DEF Filling, Waiting, Holding, Running, BodyRequest, HeaderRequest, Head1, After,
              InHand, Queued, BodyRead, Mark, IsFile
<1>f. \A f \in DOMAIN sent : f \in DOMAIN sent' /\ sent'[f] = sent[f] /\ Length(f)' = Length(f)
  BY DEF More, Length
<1>b. before <= before' /\ before' <= Len(sent') /\ before' \in Nat
  BY <1>k DEF More
<1>1. Reader'
  BY <1>t, <1>s, <1>m DEF Reader
<1>2. ASSUME Straight PROVE Straight'
  <2>t. Stream /\ InPlace /\ Continues /\ Numbers
    BY <1>2 DEF Straight
  <2>h. Holding => next.seq \in DOMAIN sent
    BY <1>t, <1>2, StraightFacts
  <2>a. \A f : f \in 1 .. before => f \in DOMAIN sent /\ f \in 1 .. before'
    BY <1>k, <1>b
  <2>1. InPlace'
    <3>1. HeaderRead => HeaderRead'
      BY <1>s, <1>m, <1>f, <2>a DEF HeaderRead, More
    <3>2. Filling => /\ next'.seq \in DOMAIN sent' /\ reads'[1].len = sent'[next'.seq]
                     /\ \E n \in 0 .. sent'[next'.seq] : BodyRead(n)'
      <4>1. Filling => /\ next.seq \in DOMAIN sent /\ reads[1].len = sent[next.seq]
                       /\ \E n \in 0 .. sent[next.seq] : BodyRead(n)
        BY <2>t DEF InPlace
      <4> QED
        BY <1>s, <1>m, <1>f, <4>1
    <3>3. io \in {"body", "push"} => BodyRead(sent[next.seq])'
      <4>1. io \in {"body", "push"} => BodyRead(sent[next.seq])
        BY <2>t DEF InPlace
      <4> QED
        BY <1>s, <1>f, <2>h, <4>1 DEF Holding, BodyRead
    <3> QED
      BY <1>s, <1>m, <2>t, <3>1, <3>2, <3>3 DEF InPlace
  <2>n. NextFrame => NextFrame'
    <3>1. CASE wire = <<>>
      BY <1>s, <3>1 DEF NextFrame
    <3>2. CASE wire # <<>>
      <4>1. 1 \in DOMAIN wire
        BY <1>t, <3>2, EmptySeq, LenProperties DEF TypeOK
      <4>2. IsFile(wire[1]) => files > 0
        BY <2>t, <4>1 DEF Stream
      <4>3. NextFrame => \A u, f : u = wire[1] /\ f = next.seq + 1 => Begins(u, f)'
        BY <1>t, <3>2, <4>2, FollowsKept DEF NextFrame
      <4> QED
        BY <1>s, <3>2, <4>3 DEF NextFrame
    <3> QED
      BY <3>1, <3>2
  <2>2. Continues'
    <3>1. Waiting /\ Head1 = <<>> => NextFrame'
      BY <2>t, <2>n DEF Continues
    <3>2. Waiting /\ Head1 = <<Mark(next.seq + 1)>>
            => wire'[1] = Length(next.seq + 1) /\ next.seq + 1 \in DOMAIN sent
      <4>1. SUFFICES ASSUME Waiting, Head1 = <<Mark(next.seq + 1)>>
                     PROVE  wire'[1] = Length(next.seq + 1) /\ next.seq + 1 \in DOMAIN sent
        OBVIOUS
      <4>2. Len(Head1) = 1 /\ Head1[1] = Mark(next.seq + 1) /\ Head1 # <<>>
        BY <4>1
      <4>3. ~ IsFile(Head1[1])
        BY <4>2 DEF Mark, IsFile, Unit
      <4>4. HeaderRead
        BY <2>t, <4>1 DEF InPlace
      <4>5. next.seq + 1 \in DOMAIN sent
        BY <2>a, <4>2, <4>3, <4>4 DEF HeaderRead, After
      <4> QED
        BY <2>t, <4>1, <4>5 DEF Continues
    <3>3. (Waiting \/ io = "header") /\ Len(Head1) = 2 /\ ~ IsFile(Head1[1])
            => wire'[1] = Unit("body", next.seq + 1, 1)
      BY <2>t DEF Continues
    <3>4. Filling => \A n \in 0 .. sent[next.seq] - 1 :
            BodyRead(n) => wire'[1] = Unit("body", next.seq, n + 1)
      BY <2>t DEF Continues
    <3>5. (Filling /\ BodyRead(sent[next.seq])) \/ io = "body" => NextFrame'
      BY <2>t, <2>n DEF Continues
    <3>6. Waiting' /\ Head1' = <<Mark(next'.seq + 1)>> => wire'[1] = Length(next.seq + 1)'
      BY <1>s, <1>m, <1>f, <3>2
    <3>7. Filling' => \A n \in 0 .. sent'[next'.seq] - 1 :
            BodyRead(n)' => wire'[1] = Unit("body", next'.seq, n + 1)
      BY <1>s, <1>m, <1>f, <2>h, <3>4 DEF Holding
    <3>8. Filling' /\ BodyRead(sent[next.seq])' => BodyRead(sent[next.seq])
      BY <1>s, <1>m, <1>f, <2>h DEF Holding, BodyRead
    <3> QED
      BY <1>s, <1>m, <3>1, <3>3, <3>5, <3>6, <3>7, <3>8 DEF Continues
  <2>3. Numbers'
    <3>1. \A x \in Nat : x <= before => x <= before'
      BY <1>k, <1>b
    <3>2. next.seq \in Nat
      BY <1>t, HoldingFacts
    <3> QED
      BY <1>s, <1>k, <1>m, <2>t, <3>1, <3>2 DEF Numbers
  <2> QED
    BY <1>2, <2>1, <2>2, <2>3 DEF Straight
<1>3. Astray => Astray'
  BY <1>m DEF Astray, More
<1>4. Course'
  BY <1>t, <1>s, <1>2, <1>3 DEF Course
\* no frame that was handed over becomes one of those before the first file
<1>e. \A i \in Nat : i <= Queued /\ i <= before' => i <= before
  <2>1. CASE files > 0
    BY <1>k, <2>1 DEF More
  <2>2. CASE files = 0
    <3>1. Queued <= before
      BY <1>t, <2>2 DEF Course, Astray, Straight, Numbers
    <3> QED
      BY <1>k, <3>1
  <2> QED
    BY <1>k, <2>1, <2>2
<1>5. WholeFrames'
  <2>0. /\ Len(out) \in Nat /\ DOMAIN out = 1 .. Len(out) /\ InHand \in Nat
        /\ Len(queue) \in Nat /\ DOMAIN queue = 1 .. Len(queue) /\ Queued = Len(out) + InHand + Len(queue)
        /\ player.pc = "copy" => InHand = 1
    BY <1>t, SeqFacts DEF Queued, InHand
  <2>1. \A i \in Nat : i > 0 /\ i <= before => sent'[i] = sent[i]
    BY <1>k, <1>f
  <2>2. \A i \in DOMAIN out : i <= before' => out[i] = Body(i, sent'[i])
    <3>1. \A i \in DOMAIN out : i \in Nat /\ i > 0 /\ i <= Queued
      BY <2>0
    <3>2. \A i \in DOMAIN out : i <= before' => i <= before
      BY <1>e, <3>1
    <3>3. \A i \in DOMAIN out : i <= before => out[i] = Body(i, sent[i])
      BY <1>t DEF WholeFrames
    <3> QED
      BY <2>1, <3>1, <3>2, <3>3
  <2>3. player.pc = "copy" /\ Len(out) + 1 <= before' => Whole(player.frame, Len(out) + 1)'
    <3>1. SUFFICES ASSUME player.pc = "copy", Len(out) + 1 <= before'
                   PROVE  Whole(player.frame, Len(out) + 1)'
      OBVIOUS
    <3>2. Len(out) + 1 <= before /\ sent'[Len(out) + 1] = sent[Len(out) + 1]
      BY <1>e, <2>0, <2>1, <3>1
    <3> QED
      BY <1>t, <1>s, <3>1, <3>2 DEF WholeFrames, Whole
  <2>4. ASSUME NEW i \in DOMAIN queue, Len(out) + InHand + i <= before'
        PROVE  Whole(queue[i], Len(out) + InHand + i)'
    <3> DEFINE n == Len(out) + InHand + i
    <3>1. n \in Nat /\ n > 0 /\ n <= Queued
      BY <2>0
    <3>2. n <= before
      BY <1>e, <2>4, <3>1
    <3>3. Whole(queue[i], n) /\ sent'[n] = sent[n]
      BY <1>t, <2>1, <3>1, <3>2 DEF WholeFrames
    <3>4. n' = n
      BY <1>s, <1>m
    <3> HIDE DEF n
    <3>5. Whole(queue[i], n)'
      BY <1>s, <3>3, <3>4 DEF Whole
    <3> QED
      BY <3>5 DEF n
  <2> QED
    BY <1>s, <1>m, <1>b, <2>2, <2>3, <2>4 DEF WholeFrames
<1>6. Owned'
  BY <1>t, <1>s, <1>m DEF Owned, Private
<1> QED
  BY <1>1, <1>4, <1>5, <1>6 DEF IInv

LEMMA FileStep == ASSUME IInv, SendFile PROVE IInv'
<1> DEFINE u == Unit("file", 0, 1)
<1>s. UNCHANGED <<sent, before, broken, client, reads, content, io, next, strayed, pool, queue, player, out>>
  BY DEF SendFile, client
<1>t. TypeOK /\ WholeFrames
  BY DEF IInv
<1>0. ~ broken /\ files < MaxFiles /\ files' = files + 1 /\ wire' = Append(wire, u)
  BY DEF SendFile
<1>u. u \in Units /\ IsFile(u)
  BY BoundsAssumption DEF Unit, Units, IsFile
<1>f. files \in Nat /\ files' \in 0 .. MaxFiles /\ files' > 0
  BY <1>t, <1>0, BoundsAssumption DEF TypeOK
<1>w. /\ wire' \in Seq(Units) /\ Len(wire') = Len(wire) + 1 /\ wire' # <<>>
      /\ DOMAIN wire' = 1 .. Len(wire) + 1 /\ DOMAIN wire = 1 .. Len(wire) /\ Len(wire) \in Nat
      /\ \A i \in 1 .. Len(wire) : wire'[i] = wire[i]
      /\ wire'[Len(wire) + 1] = u
      /\ wire = <<>> <=> Len(wire) = 0
  <2>1. wire \in Seq(Units)
    BY <1>t DEF TypeOK
  <2> HIDE DEF u
  <2> QED
    BY <1>0, <1>u, <2>1, AppendFacts, EmptySeq
<1>1. TypeOK'
  BY <1>t, <1>s, <1>f, <1>w DEF TypeOK
<1>2. ASSUME Straight PROVE Stream'
  <2>t. Stream
    BY <1>2 DEF Straight
  <2>k. before <= Len(sent) /\ before \in Nat /\ Len(sent) \in Nat
    BY <1>t, SeqFacts DEF WholeFrames
  <2>1. ASSUME NEW i \in 1 .. Len(wire') - 1 PROVE Follows(wire'[i], wire'[i + 1])
    <3>1. CASE i < Len(wire)
      <4>1. i \in 1 .. Len(wire) /\ i + 1 \in 1 .. Len(wire) /\ i \in 1 .. Len(wire) - 1
        BY <1>w, <3>1
      <4> QED
        BY <2>t, <1>w, <4>1 DEF Stream
    <3>2. CASE i = Len(wire)
      <4>1. i \in 1 .. Len(wire) /\ wire # <<>> /\ wire'[i] = wire[i] /\ wire'[i + 1] = u
        BY <1>w, <3>2
      <4>2. Ends(wire[i])
        BY <2>t, <3>2, <4>1 DEF Stream
      <4>3. sent # <<>> => Len(sent) \in DOMAIN sent
        <5>1. sent \in Seq(Sizes)
          BY <1>t DEF TypeOK
        <5> QED
          BY <5>1, EmptySeq, LenProperties
      <4>4. \A x, y : Ends(x) /\ Begins(y, Len(sent) + 1) => Follows(x, y)
        BY <4>3 DEF Ends, Follows
      <4>5. Begins(u, Len(sent) + 1)
        BY <1>u, <2>k DEF Begins
      <4> HIDE DEF u
      <4> QED
        <5>1. Follows(wire[i], u)
          BY <4>2, <4>4, <4>5
        <5> QED
          BY <4>1, <5>1
    <3>3. i < Len(wire) \/ i = Len(wire)
      <4>1. Len(wire') = Len(wire) + 1 /\ Len(wire) \in Nat
        BY <1>w
      <4> QED
        BY <4>1
    <3> QED
      BY <3>1, <3>2, <3>3
  <2>3. \A x, y : Follows(x, y)' <=> Follows(x, y)
    BY <1>s DEF Follows, Begins, Length
  <2>4. broken' = FALSE
    BY <1>0, <1>s, <1>t DEF TypeOK
  <2>5. (\A i \in 1 .. Len(wire) - 1 : Follows(wire[i], wire[i + 1]))'
    BY <2>1, <2>3
  <2>6. Ends(wire[Len(wire)])'
    BY <1>w, <1>u DEF Ends, IsFile
  <2> QED
    BY <1>f, <2>4, <2>5, <2>6 DEF Stream
<1>3. wire # <<>> => wire'[1] = wire[1]
  <2>1. wire # <<>> => 1 \in 1 .. Len(wire)
    BY <1>w
  <2> QED
    BY <1>w, <2>1
<1>4. More /\ (files' = 0 => Len(sent') <= before')
  BY <1>t, <1>s, <1>f, SeqFacts DEF More, WholeFrames
<1>5. wire = <<>> /\ files = 0 => \A f : f = Len(sent) + 1 => Begins(wire[1], f)'
  <2>1. before <= Len(sent) /\ before \in Nat /\ Len(sent) \in Nat
    BY <1>t, SeqFacts DEF WholeFrames
  <2>2. wire = <<>> => wire'[1] = u
    BY <1>w
  <2>3. wire = <<>> => Begins(wire'[1], Len(sent) + 1)
    BY <1>u, <2>1, <2>2 DEF Begins
  <2>4. \A x, f : Begins(x, f)' <=> Begins(x, f)
    BY <1>s DEF Begins, IsFile, Mark
  <2>5. wire = <<>> => \A f : f = Len(sent) + 1 => Begins(wire'[1], f)
    BY <2>3
  <2> QED
    BY <2>4, <2>5
<1>6. UNCHANGED <<broken, client, pool, queue, player, out>>
  BY <1>s
<1> QED
  BY <1>0, <1>w, <1>1, <1>2, <1>3, <1>4, <1>5, <1>6, GrowStep

LEMMA FrameStep == ASSUME IInv, NEW s \in Sizes, SendFrame(s) PROVE IInv'
<1> DEFINE k == Len(sent) + 1
           L == Len(wire)
<1>s. UNCHANGED <<files, broken, client, reads, content, io, next, strayed, pool, queue, player, out>>
  BY DEF SendFrame, client
<1>t. TypeOK /\ WholeFrames
  BY DEF IInv
<1>n. /\ s \in Nat /\ s > 0 /\ Len(sent) \in Nat /\ DOMAIN sent = 1 .. Len(sent)
      /\ Len(sent) < MaxFrames /\ ~ broken /\ k \in 0 .. MaxFrames /\ k \in Nat
      /\ wire \in Seq(Units) /\ L \in Nat
  <2>1. s \in Nat /\ s > 0
    BY SizesAssumption
  <2>2. Len(sent) < MaxFrames /\ ~ broken
    BY DEF SendFrame
  <2>3. wire \in Seq(Units)
    BY <1>t DEF TypeOK
  <2> QED
    BY <1>t, <2>1, <2>2, <2>3, SeqFacts, BoundsAssumption
<1>k. /\ sent' \in Seq(Sizes) /\ Len(sent') = k /\ DOMAIN sent' = 1 .. k /\ sent'[k] = s
      /\ \A f \in DOMAIN sent : f \in DOMAIN sent' /\ sent'[f] = sent[f] /\ f # k
  <2>1. sent \in Seq(Sizes) /\ sent' = Append(sent, s)
    BY <1>t DEF TypeOK, SendFrame
  <2> QED
    BY <1>n, <2>1, AppendFacts
<1> DEFINE mark == Unit("mark", k, 0)
           len  == Unit("len", k, s)
           body(i) == Unit("body", k, i)
<1>u. /\ mark \in Units /\ len \in Units /\ ~ IsFile(mark) /\ ~ IsFile(len)
      /\ \A i \in Nat : body(i) \in Units /\ ~ IsFile(body(i))
  BY <1>n DEF Unit, Units, IsFile
<1>h. HeaderOf(k, s) = <<mark, len>>
  <2>1. FrameLen(HeaderLen + s) = s
    BY <1>n DEF FrameLen, HeaderLen
  <2> QED
    BY <2>1 DEF HeaderOf
<1>w. /\ wire' \in Seq(Units) /\ Len(wire') = L + 2 + s
      /\ \A i \in 1 .. L : wire'[i] = wire[i]
      /\ wire'[L + 1] = mark /\ wire'[L + 2] = len
      /\ \A i \in 1 .. s : wire'[L + 2 + i] = body(i)
  <2>1. PICK h \in Seq(Units) : h = <<mark, len>>
    BY <1>u, TwoFacts
  <2>2. Len(h) = 2 /\ h[1] = mark /\ h[2] = len
    BY <2>1
  <2>3. PICK b \in Seq(Units) : b = Body(k, s)
    BY <1>n, BodyFacts
  <2>4. Len(b) = s /\ \A i \in 1 .. s : b[i] = body(i)
    BY <1>n, <2>3, BodyFacts
  <2>5. wire' = (wire \o h) \o b
    <3>1. wire' = wire \o HeaderOf(Len(sent'), s) \o Body(Len(sent'), s)
      BY DEF SendFrame
    <3> QED
      BY <1>k, <1>h, <2>1, <2>3, <3>1
  <2>6. PICK x \in Seq(Units) : x = wire \o h
    BY <1>n, ConcatProperties
  <2>7. /\ Len(x) = L + 2 /\ \A i \in 1 .. L : x[i] = wire[i]
        /\ x[L + 1] = mark /\ x[L + 2] = len
    <3>1. /\ Len(x) = L + Len(h)
          /\ \A i \in 1 .. L + Len(h) : x[i] = IF i <= L THEN wire[i] ELSE h[i - L]
      BY <1>n, <2>6, ConcatProperties
    <3>2. /\ L + 1 \in 1 .. L + Len(h) /\ ~ (L + 1 <= L) /\ (L + 1) - L = 1
          /\ L + 2 \in 1 .. L + Len(h) /\ ~ (L + 2 <= L) /\ (L + 2) - L = 2
          /\ \A i \in 1 .. L : i \in 1 .. L + Len(h) /\ i <= L
      BY <1>n, <2>2
    <3> QED
      BY <2>2, <3>1, <3>2
  <2>8. /\ x \o b \in Seq(Units) /\ Len(x \o b) = L + 2 + s
        /\ \A i \in 1 .. L + 2 + s : (x \o b)[i] = IF i <= L + 2 THEN x[i] ELSE b[i - (L + 2)]
    <3> HIDE DEF L
    <3>1. /\ x \o b \in Seq(Units) /\ Len(x \o b) = Len(x) + Len(b)
          /\ \A i \in 1 .. Len(x) + Len(b) :
                (x \o b)[i] = IF i <= Len(x) THEN x[i] ELSE b[i - Len(x)]
      BY ConcatProperties
    <3> QED
      BY <2>4, <2>7, <3>1
  <2>9. /\ L + 1 \in 1 .. L + 2 + s /\ L + 1 <= L + 2
        /\ L + 2 \in 1 .. L + 2 + s /\ L + 2 <= L + 2
        /\ \A i \in 1 .. L : i \in 1 .. L + 2 + s /\ i <= L + 2
        /\ \A i \in 1 .. s : /\ L + 2 + i \in 1 .. L + 2 + s /\ ~ (L + 2 + i <= L + 2)
                             /\ (L + 2 + i) - (L + 2) = i
    BY <1>n
  <2>10. wire' = x \o b
    BY <2>5, <2>6
  <2> HIDE DEF L, mark, len, body
  <2> QED
    BY <2>4, <2>7, <2>8, <2>9, <2>10
<1>b. /\ before \in Nat /\ before' \in Nat /\ before <= Len(sent) /\ files \in Nat
      /\ files = 0 => before' <= k /\ k <= before'
      /\ files > 0 => before' = before
      /\ files = 0 => Len(sent) <= before
  <2>1. before \in Nat /\ before <= Len(sent) /\ (files = 0 => Len(sent) <= before)
    BY <1>t, SeqFacts DEF WholeFrames
  <2>2. files \in Nat
    BY <1>t, BoundsAssumption DEF TypeOK
  <2>3. files = 0 => before' = k
    BY <1>k DEF SendFrame
  <2>4. files > 0 => before' = before
    BY <2>2 DEF SendFrame
  <2> QED
    BY <1>n, <2>1, <2>2, <2>3, <2>4
<1>m. More /\ (files' = 0 => Len(sent') <= before')
  BY <1>s, <1>n, <1>k, <1>b DEF More
<1>1. TypeOK'
  BY <1>t, <1>s, <1>n, <1>k, <1>w, <1>b DEF TypeOK
<1>i. \A i \in 1 .. L + 2 + s :
        \/ i \in 1 .. L
        \/ i = L + 1
        \/ i = L + 2
        \/ \E j \in 1 .. s : i = L + 2 + j
  <2>1. ASSUME NEW i \in 1 .. L + 2 + s, i > L + 2 PROVE \E j \in 1 .. s : i = L + 2 + j
    <3>1. i - (L + 2) \in 1 .. s /\ i = L + 2 + (i - (L + 2))
      BY <1>n, <2>1
    <3> QED
      BY <3>1
  <2>2. \A i \in 1 .. L + 2 + s : i \in 1 .. L \/ i = L + 1 \/ i = L + 2 \/ i > L + 2
    BY <1>n
  <2> QED
    BY <2>1, <2>2
<1>e. k \in DOMAIN sent'
  BY <1>n, <1>k
<1>p. \A u, v : (IsFile(v) => files > 0) /\ Follows(u, v) => Follows(u, v)'
  BY <1>t, <1>m, FollowsKept
<1>2. ASSUME Straight PROVE Stream'
  <2>t. Stream
    BY <1>2 DEF Straight
  <2>1. ASSUME NEW i \in 1 .. Len(wire') - 1, NEW x, NEW y, x = wire'[i], y = wire'[i + 1]
        PROVE  Follows(x, y)'
    <3>0. i \in 1 .. L + 2 + s /\ i \in Nat /\ i < L + 2 + s
      BY <1>n, <1>w
    <3>1. CASE i \in 1 .. L /\ i # L
      <4>1. i + 1 \in 1 .. L /\ i \in 1 .. L - 1
        BY <1>n, <3>1
      <4>2. Follows(wire[i], wire[i + 1])
        BY <2>t, <4>1 DEF Stream
      <4>3. IsFile(wire[i + 1]) => files > 0
        <5>1. i + 1 \in DOMAIN wire
          BY <1>n, <4>1, LenProperties
        <5> QED
          BY <2>t, <5>1 DEF Stream
      <4> QED
        BY <1>w, <1>p, <2>1, <3>1, <4>1, <4>2, <4>3
    <3>2. CASE i = L
      <4>1. x = wire[L] /\ y = mark /\ wire # <<>>
        <5>1. L \in 1 .. L
          BY <1>n, <3>0, <3>2
        <5>2. wire = <<>> => L = 0
          BY <1>n, EmptySeq
        <5> QED
          BY <1>w, <2>1, <3>2, <5>1, <5>2
      <4>2. Ends(x)
        BY <2>t, <4>1 DEF Stream
      <4>4. CASE IsFile(x)
        BY <4>4 DEF Follows, IsFile
      <4>5. CASE /\ sent # <<>> /\ x = Unit("body", Len(sent), sent[Len(sent)])
                 /\ files = 0 \/ Len(sent) > before
        <5>0. PICK f \in Nat : f = Len(sent)
          BY <1>n
        <5>1. f \in DOMAIN sent
          <6>1. sent \in Seq(Sizes)
            BY <1>t DEF TypeOK
          <6> QED
            BY <1>n, <4>5, <5>0, <6>1, EmptySeq
        <5>2. f \in DOMAIN sent' /\ sent'[f] = sent[f] /\ f + 1 = k
          BY <1>k, <5>0, <5>1
        <5>4. x = Unit("body", f, sent[f])
          BY <4>5, <5>0
        <5>5. f + 1 \in DOMAIN sent' /\ y = Unit("mark", f + 1, 0)
          BY <4>1, <5>2, <1>e
        <5>3. f + 1 # before' + 1
          BY <1>n, <1>b, <4>5, <5>0
        <5>6. Begins(y, f + 1)'
          BY <5>3, <5>5 DEF Begins, Mark
        <5>7. \E h \in DOMAIN sent' : x = Unit("body", h, sent'[h]) /\ Begins(y, h + 1)'
          BY <5>2, <5>4, <5>6
        <5> QED
          BY <5>7 DEF Follows
      <4> QED
        BY <4>2, <4>4, <4>5 DEF Ends
    <3>3. CASE i = L + 1
      <4>1. x = mark /\ y = len
        BY <1>n, <1>w, <2>1, <3>3
      <4> QED
        BY <1>e, <1>k, <4>1 DEF Follows, Mark, Length
    <3>4. CASE i = L + 2
      <4>1. i + 1 = L + 2 + 1 /\ 1 \in 1 .. s
        BY <1>n, <3>4
      <4>2. x = len /\ y = body(1)
        BY <1>w, <2>1, <3>4, <4>1
      <4> QED
        BY <1>e, <1>k, <4>2 DEF Follows, Length
    <3>5. ASSUME NEW j \in 1 .. s, i = L + 2 + j PROVE Follows(x, y)'
      <4>1. j \in 1 .. s - 1 /\ j + 1 \in 1 .. s /\ i + 1 = L + 2 + (j + 1)
        BY <1>n, <3>0, <3>5
      <4>2. x = body(j) /\ y = body(j + 1)
        BY <1>w, <2>1, <3>5, <4>1
      <4>3. k \in DOMAIN sent' /\ j \in 1 .. sent'[k] - 1
        BY <1>e, <1>k, <4>1
      <4> QED
        BY <4>2, <4>3 DEF Follows
    <3> QED
      BY <1>i, <3>0, <3>1, <3>2, <3>3, <3>4, <3>5
  <2>2. wire'[Len(wire')] = body(s) /\ wire' # <<>>
    <3>1. s \in 1 .. s /\ Len(wire') = L + 2 + s /\ Len(wire') # 0
      BY <1>n, <1>w
    <3> QED
      BY <1>w, <3>1, EmptySeq
  <2>3. Ends(wire[Len(wire)])'
    <3>1. sent' # <<>> /\ Len(sent') = k /\ sent'[k] = s
      BY <1>n, <1>k, EmptySeq
    <3>2. files' = 0 \/ Len(sent') > before'
      BY <1>s, <1>n, <1>k, <1>b
    <3> QED
      BY <2>2, <3>1, <3>2 DEF Ends
  <2>4. \A i \in DOMAIN wire' : IsFile(wire'[i]) => files' > 0
    <3>1. DOMAIN wire' = 1 .. L + 2 + s
      BY <1>w, LenProperties
    <3>2. \A i \in 1 .. L : IsFile(wire[i]) => files > 0
      <4>1. DOMAIN wire = 1 .. L
        BY <1>n, LenProperties
      <4> QED
        BY <2>t, <4>1 DEF Stream
    <3>3. \A j \in 1 .. s : j \in Nat
      BY <1>n
    <3> HIDE DEF L, mark, len, body
    <3>4. ASSUME NEW i \in 1 .. L + 2 + s, IsFile(wire'[i]) PROVE files' > 0
      <4>1. \A j \in 1 .. s : ~ IsFile(wire'[L + 2 + j])
        BY <1>w, <1>u, <3>3
      <4>2. ~ IsFile(wire'[L + 1]) /\ ~ IsFile(wire'[L + 2])
        BY <1>w, <1>u
      <4>3. i \in 1 .. L
        BY <1>i, <3>4, <4>1, <4>2
      <4> QED
        BY <1>s, <1>w, <3>2, <3>4, <4>3
    <3> QED
      BY <3>1, <3>4
  <2>5. broken' = FALSE
    BY <1>n, <1>s, <1>t DEF TypeOK
  <2>6. (\A i \in 1 .. Len(wire) - 1 : Follows(wire[i], wire[i + 1]))'
    BY <2>1
  <2>7. (\A i \in DOMAIN wire : IsFile(wire[i]) => files > 0)'
    BY <2>4 DEF IsFile
  <2> QED
    BY <2>3, <2>5, <2>6, <2>7 DEF Stream
<1>3. wire # <<>> => wire'[1] = wire[1]
  <2>1. wire # <<>> => 1 \in 1 .. L
    BY <1>n, EmptySeq
  <2> QED
    BY <1>w, <2>1
<1>4. wire = <<>> /\ files = 0 => \A f : f = Len(sent) + 1 => Begins(wire[1], f)'
  <2>1. wire = <<>> => L + 1 = 1
    BY EmptySeq
  <2>2. wire = <<>> => wire'[1] = Mark(k)
    BY <1>w, <2>1 DEF Mark
  <2>3. files = 0 => k # before' + 1
    BY <1>n, <1>b
  <2>4. wire = <<>> /\ files = 0 =>
          k \in DOMAIN sent' /\ k # before' + 1 /\ wire'[1] = Mark(k)
    BY <1>e, <2>2, <2>3
  <2> QED
    BY <2>4 DEF Begins, Mark
<1>5. wire' # <<>>
  <2>1. Len(wire') # 0
    BY <1>n, <1>w
  <2> QED
    BY <1>w, <2>1, EmptySeq
<1>6. UNCHANGED <<broken, client, pool, queue, player, out>>
  BY <1>s
<1> QED
  BY <1>n, <1>1, <1>2, <1>3, <1>4, <1>5, <1>6, <1>m, GrowStep


LEMMA BreakStep == ASSUME IInv, Break PROVE IInv'
<1>s. UNCHANGED <<sent, files, before, reads, content, io, next, strayed, pool, queue, player, out>>
  BY DEF Break, client
<1>t. TypeOK /\ Reader /\ Owned /\ WholeFrames /\ Course
  BY DEF IInv
<1>0. broken' = TRUE /\ wire' = <<>>
  BY DEF Break
<1>1. TypeOK'
  <2>1. <<>> \in Seq(Units)
    BY EmptySeq
  <2> QED
    BY <1>t, <1>s, <1>0, <2>1 DEF TypeOK
<1>m. /\ (Filling' <=> Filling) /\ (Waiting' <=> Waiting) /\ (Holding' <=> Holding)
      /\ (Running' <=> Running) /\ InHand' = InHand /\ Queued' = Queued
  BY <1>s DEF Filling, Waiting, Holding, Running, BodyRequest, HeaderRequest, InHand, Queued
<1>2. Reader'
  BY <1>t, <1>s, <1>m DEF Reader, Head1
<1>3. Stream'
  <2>1. Len(wire') = 0 /\ DOMAIN wire' = {} /\ 1 .. Len(wire') - 1 = {}
    BY <1>0
  <2> QED
    BY <1>0, <2>1 DEF Stream
<1>4. InPlace => InPlace'
  BY <1>s, <1>m DEF InPlace, HeaderRead, Head1, After, BodyRead, Length
<1>5. Continues'
  BY <1>0 DEF Continues
<1>6. (Numbers => Numbers') /\ (Astray => Astray')
  BY <1>s, <1>m DEF Numbers, Astray
<1>7. Course'
  BY <1>t, <1>s, <1>3, <1>4, <1>5, <1>6 DEF Course, Straight
<1>8. WholeFrames'
  BY <1>t, <1>s, <1>m DEF WholeFrames, Whole
<1>9. Owned'
  BY <1>t, <1>s, <1>m DEF Owned, Private
<1> QED
  BY <1>1, <1>2, <1>7, <1>8, <1>9 DEF IInv

-----------------------------------------------------------------------------
(* The invariant holds, and with it what the runs check *)

LEMMA InvInit == Init => IInv
<1> SUFFICES ASSUME Init PROVE IInv
  OBVIOUS
<1>e. /\ \A T : <<>> \in Seq(T)
      /\ Len(<<>>) = 0 /\ DOMAIN <<>> = {} /\ Range(<<>>) = {}
  BY EmptySeq DEF Range
<1>0. /\ sent = <<>> /\ files = 0 /\ before = 0 /\ wire = <<>> /\ broken = FALSE
      /\ reads = <<HeaderRequest>> /\ content = [b \in Buffers \cup {Header} |-> <<>>]
      /\ io = "idle" /\ next = NoFrame /\ strayed = FALSE /\ pool = <<>> /\ queue = <<>>
      /\ player = [pc |-> "pop", frame |-> NoFrame] /\ out = <<>>
  BY DEF Init, HeaderRequest
<1>n. NoFrame \in FrameType /\ next.seq = 0
  BY <1>0, BoundsAssumption DEF NoFrame, FrameType
<1>p. player.pc = "pop" /\ player.frame = NoFrame /\ InHand = 0 /\ Queued = 0
  BY <1>0, <1>e DEF InHand, Queued
<1>1. TypeOK
  <2>1. HeaderRequest \in [buf : Buffers \cup {Header}, len : Nat]
    BY DEF HeaderRequest, HeaderLen
  <2>2. reads \in Seq([buf : Buffers \cup {Header}, len : Nat])
    BY <1>0, <2>1, OneFacts
  <2>3. player \in [pc : {"pop", "copy", "clear", "put"}, frame : FrameType]
    BY <1>0, <1>n
  <2>4. /\ DOMAIN content = Buffers \cup {Header}
        /\ \A b \in DOMAIN content : content[b] \in Seq(Units)
    BY <1>0, <1>e
  <2>5. /\ files \in 0 .. MaxFiles /\ before \in 0 .. MaxFrames
        /\ Len(sent) <= MaxFrames /\ Len(pool) <= ListSize
    BY <1>0, <1>e, BoundsAssumption
  <2> QED
    BY <1>0, <1>e, <1>n, <2>2, <2>3, <2>4, <2>5 DEF TypeOK
<1>m. Waiting /\ Running /\ ~ Filling /\ ~ Holding
  <2>1. Waiting
    BY <1>0 DEF Waiting
  <2>2. \A x : <<x>> # <<>>
    OBVIOUS
  <2>3. HeaderRequest # BodyRequest
    BY <1>0, NamesAssumption DEF HeaderRequest, BodyRequest, NoFrame, None, Header
  <2>4. ~ Filling
    <3>1. \A x, y : <<x>> = <<y>> => x = y
      OBVIOUS
    <3> QED
      BY <1>0, <2>3, <3>1 DEF Filling
  <2> QED
    BY <1>0, <2>1, <2>2, <2>4 DEF Running, Holding
<1>2. Reader
  BY <1>0, <1>m DEF Reader
<1>3. Stream
  <2>1. Len(wire) = 0 /\ DOMAIN wire = {} /\ 1 .. Len(wire) - 1 = {}
    BY <1>0
  <2> QED
    BY <1>0, <2>1 DEF Stream
<1>h. Head1 = <<>>
  BY <1>0 DEF Head1
<1>4. InPlace
  BY <1>0, <1>m, <1>h DEF InPlace, HeaderRead
<1>5. Continues
  <2>1. NextFrame
    BY <1>0, <1>e, <1>n DEF NextFrame
  <2>2. \A x : <<x>> # <<>>
    OBVIOUS
  <2>3. Len(Head1) # 2 /\ io # "header" /\ io # "body"
    BY <1>0, <1>e, <1>h
  <2> QED
    BY <1>h, <1>m, <2>1, <2>2, <2>3 DEF Continues
<1>6. Numbers
  BY <1>0, <1>n, <1>m, <1>p DEF Numbers
<1>7. WholeFrames
  BY <1>0, <1>e, <1>p DEF WholeFrames
<1>8. Owned
  BY <1>0, <1>e, <1>m, <1>p DEF Owned
<1>9. Course
  BY <1>0, <1>3, <1>4, <1>5, <1>6 DEF Course, Straight
<1> QED
  BY <1>1, <1>2, <1>7, <1>8, <1>9 DEF IInv

LEMMA InvKept == IInv /\ [Next]_vars => IInv'
<1> SUFFICES ASSUME IInv, [Next]_vars PROVE IInv'
  OBVIOUS
<1>1. ASSUME NEW s \in Sizes, SendFrame(s) PROVE IInv'
  BY <1>1, FrameStep
<1>2. CASE SendFile
  BY <1>2, FileStep
<1>3. CASE Break
  BY <1>3, BreakStep
<1>4. CASE Io
  BY <1>4, ReadStep, HandleStep, ErrorStep, RefuseStep, HeaderStep, BodyStep, PushStep DEF Io
<1>5. CASE Player
  BY <1>5, PopStep, CopyStep, ClearStep, PutStep DEF Player
<1>6. CASE UNCHANGED vars
  <2>s. UNCHANGED <<sent, files, before, broken, wire, reads, content, io, next, strayed,
                    pool, queue, player, out>>
    BY <1>6 DEF vars, server, client
  <2>t. TypeOK /\ Reader /\ Owned /\ WholeFrames /\ Course
    BY DEF IInv
  <2>1. TypeOK'
    BY <2>s, <2>t DEF TypeOK
  <2>n. InHand' = InHand /\ Queued' = Queued
    BY <2>s DEF InHand, Queued
  <2>2. Reader' /\ Course' /\ (Holding' <=> Holding)
    BY <2>s, <2>t, <2>n, IoKept
  <2>3. WholeFrames' /\ Owned'
    BY <2>s, <2>t, <2>n, <2>2 DEF WholeFrames, Whole, Owned, Private
  <2> QED
    BY <2>1, <2>2, <2>3 DEF IInv
<1> QED
  BY <1>1, <1>2, <1>3, <1>4, <1>5, <1>6 DEF Next

LEMMA InvHolds == Spec => []IInv
<1>1. Init => IInv
  BY InvInit
<1>2. IInv /\ [Next]_vars => IInv'
  BY InvKept
<1> QED
  BY <1>1, <1>2, PTL DEF Spec

\* Joining sequences without common or repeated elements repeats none.
LEMMA InjectiveConcat ==
    ASSUME NEW T, NEW s \in Seq(T), NEW t \in Seq(T), IsInjective(s), IsInjective(t),
           \A i \in DOMAIN s, j \in DOMAIN t : s[i] # t[j]
    PROVE  /\ IsInjective(s \o t) /\ s \o t \in Seq(T)
           /\ \A i \in DOMAIN (s \o t) :
                 \/ \E j \in DOMAIN s : (s \o t)[i] = s[j]
                 \/ \E j \in DOMAIN t : (s \o t)[i] = t[j]
<1>1. /\ Len(s) \in Nat /\ Len(t) \in Nat /\ DOMAIN s = 1 .. Len(s) /\ DOMAIN t = 1 .. Len(t)
      /\ s \o t \in Seq(T) /\ DOMAIN (s \o t) = 1 .. Len(s) + Len(t)
      /\ \A i \in 1 .. Len(s) + Len(t) : (s \o t)[i] = IF i <= Len(s) THEN s[i] ELSE t[i - Len(s)]
  BY LenProperties, ConcatProperties
<1>2. \A i \in 1 .. Len(s) + Len(t) :
         \/ i \in 1 .. Len(s) /\ (s \o t)[i] = s[i]
         \/ i - Len(s) \in 1 .. Len(t) /\ i > Len(s) /\ (s \o t)[i] = t[i - Len(s)]
  BY <1>1
<1>3. \A i, j \in 1 .. Len(s) + Len(t) : i - Len(s) = j - Len(s) => i = j
  BY <1>1
<1>4. \A i, j \in 1 .. Len(s) + Len(t) : (s \o t)[i] = (s \o t)[j] => i = j
  <2> SUFFICES ASSUME NEW i \in 1 .. Len(s) + Len(t), NEW j \in 1 .. Len(s) + Len(t),
                      (s \o t)[i] = (s \o t)[j]
               PROVE  i = j
    OBVIOUS
  <2>1. CASE i \in 1 .. Len(s) /\ j \in 1 .. Len(s)
    BY <1>1, <1>2, <2>1 DEF IsInjective
  <2>2. CASE i - Len(s) \in 1 .. Len(t) /\ j - Len(s) \in 1 .. Len(t) /\ i > Len(s) /\ j > Len(s)
    <3>1. t[i - Len(s)] = t[j - Len(s)]
      BY <1>1, <2>2
    <3>2. i - Len(s) = j - Len(s)
      BY <1>1, <2>2, <3>1 DEF IsInjective
    <3> QED
      BY <1>3, <3>2
  <2>3. CASE i \in 1 .. Len(s) /\ ~ (j \in 1 .. Len(s))
    BY <1>1, <1>2, <2>3
  <2>4. CASE j \in 1 .. Len(s) /\ ~ (i \in 1 .. Len(s))
    BY <1>1, <1>2, <2>4
  <2> QED
    BY <1>2, <2>1, <2>2, <2>3, <2>4
<1> QED
  BY <1>1, <1>2, <1>4 DEF IsInjective

LEMMA Consequences == IInv => ReceiverInv /\ PlayedInOrder
<1> SUFFICES ASSUME IInv PROVE ReceiverInv /\ PlayedInOrder
  OBVIOUS
<1>t. TypeOK /\ Reader /\ Owned /\ WholeFrames /\ Course
  BY DEF IInv
<1>h. Holding => next.buf \in Buffers /\ next.buf # Header
  BY <1>t, HoldingFacts
<1>o. \A x : Len(<<x>>) = 1 /\ DOMAIN <<x>> = {1} /\ <<x>>[1] = x
  OBVIOUS
<1>e. Len(<<>>) = 0 /\ DOMAIN <<>> = {}
  OBVIOUS
<1>1. InStep
  <2> SUFFICES ASSUME ~ strayed, NEW i \in DOMAIN reads
               PROVE  LET r == reads[i]  c == content[r.buf] IN
                        IF r.buf = Header
                        THEN \/ c # <<>> /\ c[1].part = "file"
                             \/ \A j \in DOMAIN c : c[j].part = <<"mark", "len">>[j]
                        ELSE \A j \in DOMAIN c : c[j] = Unit("body", next.seq, j)
    BY DEF InStep
  <2>t. Straight /\ InPlace
    BY <1>t DEF Course, Straight
  <2>1. CASE Waiting
    <3>1. reads[i].buf = Header
      BY <1>o, <2>1 DEF Waiting, HeaderRequest
    <3>2. HeaderRead
      BY <2>t, <2>1 DEF InPlace
    <3>3. \A x, y : /\ DOMAIN <<x, y>> = {1, 2} /\ <<x, y>>[1] = x /\ <<x, y>>[2] = y
      OBVIOUS
    <3>4. \A f : Mark(f).part = "mark" /\ Length(f).part = "len"
      BY DEF Mark, Length, Unit
    <3>5. <<"mark", "len">>[1] = "mark" /\ <<"mark", "len">>[2] = "len"
      OBVIOUS
    <3>6. \/ Head1 # <<>> /\ Head1[1].part = "file"
          \/ \A j \in DOMAIN Head1 : Head1[j].part = <<"mark", "len">>[j]
      <4>1. CASE Head1 = <<>> \/ Head1 \in {<<Mark(After)>>, <<Mark(After), Length(After)>>}
        BY <1>o, <1>e, <3>3, <3>4, <3>5, <4>1
      <4>2. CASE Len(Head1) \in {1, 2} /\ IsFile(Head1[1])
        BY <1>e, <4>2 DEF IsFile
      <4> QED
        BY <3>2, <4>1, <4>2 DEF HeaderRead
    <3> QED
      BY <3>1, <3>6 DEF Head1
  <2>2. CASE Filling
    <3>1. reads[i].buf = next.buf /\ next.buf # Header
      BY <1>h, <1>o, <2>2 DEF Filling, BodyRequest, Holding
    <3>2. PICK n \in 0 .. sent[next.seq] : BodyRead(n)
      BY <2>t, <2>2 DEF InPlace
    <3>3. next.seq \in 0 .. MaxFrames /\ n \in Nat
      BY <1>t, <2>t, <2>2, <3>2, SeqFacts, StraightFacts DEF Holding
    <3>4. \A j \in DOMAIN Body(next.seq, n) : Body(next.seq, n)[j] = Unit("body", next.seq, j)
      BY <3>3, BodyFacts
    <3> QED
      BY <3>1, <3>2, <3>4 DEF BodyRead
  <2>3. CASE reads = <<>>
    BY <1>e, <2>3
  <2> QED
    BY <1>t, <2>1, <2>2, <2>3 DEF Reader
<1>2. ReadIsPrivate
  <2> DEFINE T == Buffers \cup {Header, None}
             queued == [i \in DOMAIN queue |-> queue[i].buf]
             taken  == IF player.pc = "pop" THEN <<>> ELSE <<player.frame.buf>>
             filled == [i \in DOMAIN reads |-> reads[i].buf]
  <2>1. Len(reads) <= 1
    <3>1. reads = <<>> \/ reads = <<BodyRequest>> \/ reads = <<HeaderRequest>>
      BY <1>t DEF Reader, Filling, Waiting
    <3>2. PICK n \in {0, 1} : Len(reads) = n
      BY <1>o, <1>e, <3>1
    <3> QED
      BY <3>2
  <2>2. /\ filled \in Seq(T) /\ IsInjective(filled)
        /\ \A i \in DOMAIN filled : filled[i] = Header \/ (Holding /\ filled[i] = next.buf)
    <3>0. Len(reads) \in Nat /\ DOMAIN reads = 1 .. Len(reads)
      BY <1>t, LenProperties DEF TypeOK
    <3>1. \A i \in DOMAIN reads : reads[i].buf = Header \/ (Holding /\ reads[i].buf = next.buf)
      BY <1>t, <1>o, <1>e DEF Reader, Filling, Waiting, HeaderRequest, BodyRequest, Holding
    <3>2. \A i \in 1 .. Len(reads) : reads[i].buf \in T
      BY <1>h, <3>0, <3>1
    <3>3. filled \in Seq(T)
      BY <3>0, <3>2
    <3>4. \A i, j \in DOMAIN reads : i = j
      BY <2>1, <3>0
    <3> QED
      BY <3>1, <3>3, <3>4 DEF IsInjective
  <2>3. pool \in Seq(T) /\ IsInjective(pool) /\ \A i \in DOMAIN pool : pool[i] \in Buffers
    <3>1. pool \in Seq(Buffers) /\ \A i \in DOMAIN pool : pool[i] \in Buffers
      BY <1>t, SeqFacts DEF TypeOK
    <3> QED
      BY <1>t, <3>1 DEF Owned, IsInjective
  <2>4. queued \in Seq(T) /\ IsInjective(queued) /\ DOMAIN queued = DOMAIN queue
        /\ \A i \in DOMAIN queued : queued[i] = queue[i].buf
    <3>1. Len(queue) \in Nat /\ DOMAIN queue = 1 .. Len(queue)
      BY <1>t, SeqFacts
    <3>2. \A i \in 1 .. Len(queue) : queue[i].buf \in T
      BY <1>t, <3>1 DEF Owned
    <3>3. queued \in Seq(T)
      BY <3>1, <3>2
    <3> QED
      BY <1>t, <3>3 DEF Owned, IsInjective
  <2>5. /\ taken \in Seq(T) /\ IsInjective(taken)
        /\ \A i \in DOMAIN taken : player.pc # "pop" /\ taken[i] = player.frame.buf
    <3>1. CASE player.pc = "pop"
      BY <1>e, <3>1 DEF IsInjective
    <3>2. CASE player.pc # "pop"
      <4>1. player.frame.buf \in T
        BY <1>t, <3>2 DEF Owned, Private
      <4>2. <<player.frame.buf>> \in Seq(T)
        BY <4>1, OneFacts
      <4>3. taken = <<player.frame.buf>>
        BY <3>2
      <4> QED
        BY <1>o, <3>2, <4>2, <4>3 DEF IsInjective
    <3> QED
      BY <3>1, <3>2
  <2>6. /\ \A i \in DOMAIN filled, j \in DOMAIN pool : filled[i] # pool[j]
        /\ \A i \in DOMAIN filled, j \in DOMAIN queued : filled[i] # queued[j]
        /\ \A i \in DOMAIN filled, j \in DOMAIN taken : filled[i] # taken[j]
        /\ \A i \in DOMAIN pool, j \in DOMAIN queued : pool[i] # queued[j]
        /\ \A i \in DOMAIN pool, j \in DOMAIN taken : pool[i] # taken[j]
        /\ \A i \in DOMAIN queued, j \in DOMAIN taken : queued[i] # taken[j]
    <3> HIDE DEF queued, taken, filled
    <3>1. \A x \in Buffers : x # Header
      BY NamesAssumption
    <3>2. \A i \in DOMAIN pool : pool[i] \in Range(pool) /\ pool[i] # Header
      BY <2>3, <3>1 DEF Range
    <3>3. \A i \in DOMAIN queue : queue[i].buf # Header /\ queue[i].buf \notin Range(pool)
      BY <1>t, <3>1 DEF Owned
    <3>4. player.pc # "pop" => /\ player.frame.buf # Header /\ player.frame.buf \notin Range(pool)
                               /\ \A i \in DOMAIN queue : queue[i].buf # player.frame.buf
      BY <1>t, <3>1 DEF Owned, Private
    <3>5. Holding => /\ next.buf \notin Range(pool)
                     /\ \A i \in DOMAIN queue : queue[i].buf # next.buf
                     /\ player.pc # "pop" => next.buf # player.frame.buf
      BY <1>t DEF Owned, Private
    <3>f. \A i \in DOMAIN filled : filled[i] = Header \/ (Holding /\ filled[i] = next.buf)
      BY <2>2
    <3>q. DOMAIN queued = DOMAIN queue /\ \A i \in DOMAIN queued : queued[i] = queue[i].buf
      BY <2>4
    <3>p. \A i \in DOMAIN taken : player.pc # "pop" /\ taken[i] = player.frame.buf
      BY <2>5
    <3>6. \A i \in DOMAIN filled, j \in DOMAIN pool : filled[i] # pool[j]
      BY <3>2, <3>5, <3>f
    <3>7. \A i \in DOMAIN filled, j \in DOMAIN queued : filled[i] # queued[j]
      BY <3>3, <3>5, <3>f, <3>q
    <3>8. \A i \in DOMAIN filled, j \in DOMAIN taken : filled[i] # taken[j]
      BY <3>4, <3>5, <3>f, <3>p
    <3>9. \A i \in DOMAIN pool, j \in DOMAIN queued : pool[i] # queued[j]
      BY <3>2, <3>3, <3>q
    <3>10. \A i \in DOMAIN pool, j \in DOMAIN taken : pool[i] # taken[j]
      BY <3>2, <3>4, <3>p
    <3>11. \A i \in DOMAIN queued, j \in DOMAIN taken : queued[i] # taken[j]
      BY <3>4, <3>p, <3>q
    <3> QED
      BY <3>6, <3>7, <3>8, <3>9, <3>10, <3>11
  <2>7. IsInjective(filled \o pool \o queued \o taken)
    <3> HIDE DEF queued, taken, filled, T
    <3>1. PICK a \in Seq(T) : a = filled \o pool
      BY <2>2, <2>3, ConcatProperties
    <3>2. /\ IsInjective(a)
          /\ \A i \in DOMAIN a : \/ \E j \in DOMAIN filled : a[i] = filled[j]
                                 \/ \E j \in DOMAIN pool : a[i] = pool[j]
      BY <2>2, <2>3, <2>6, <3>1, InjectiveConcat
    <3>3. PICK b \in Seq(T) : b = a \o queued
      BY <2>4, ConcatProperties
    <3>4. \A i \in DOMAIN a, j \in DOMAIN queued : a[i] # queued[j]
      BY <2>6, <3>2
    <3>5. /\ IsInjective(b)
          /\ \A i \in DOMAIN b : \/ \E j \in DOMAIN a : b[i] = a[j]
                                 \/ \E j \in DOMAIN queued : b[i] = queued[j]
      BY <2>4, <3>2, <3>3, <3>4, InjectiveConcat
    <3>6. \A i \in DOMAIN b, j \in DOMAIN taken : b[i] # taken[j]
      BY <2>6, <3>2, <3>5
    <3>7. IsInjective(b \o taken)
      BY <2>5, <3>5, <3>6, InjectiveConcat
    <3> QED
      BY <3>1, <3>3, <3>7
  <2> QED
    BY <2>1, <2>7 DEF ReadIsPrivate
<1>3. PlayedInOrder
  <2>1. ~ strayed => Len(out) <= before
    <3>1. ~ strayed => Queued <= before
      BY <1>t DEF Course, Straight, Numbers
    <3>2. Len(out) \in Nat /\ InHand \in Nat /\ Len(queue) \in Nat /\ before \in Nat
      BY <1>t, SeqFacts
    <3> QED
      BY <3>1, <3>2 DEF Queued
  <2> QED
    BY <1>t, <2>1 DEF PlayedInOrder, WholeFrames
<1> QED
  BY <1>t, <1>1, <1>2, <1>3 DEF ReceiverInv

\* Whatever frames come and however they are cut up by the reads, the io
\* thread keeps its place in the stream until it takes something that is no
\* header for one; and, before and after that, the buffer a read fills is
\* nobody else's.
THEOREM ReceiverIsInStep == Spec => []ReceiverInv
<1>1. IInv => ReceiverInv
  BY Consequences
<1> QED
  BY <1>1, InvHolds, PTL

\* The frames sent before the first file reach the decoder whole, each once and
\* in order, whatever a header is mistaken for later, and when the connection
\* breaks; nothing else does before something was mistaken for a header.
THEOREM WholeFramesArePlayed == Spec => []PlayedInOrder
<1>1. IInv => PlayedInOrder
  BY Consequences
<1> QED
  BY <1>1, InvHolds, PTL
=============================================================================
