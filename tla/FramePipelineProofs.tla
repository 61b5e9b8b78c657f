------------------------ MODULE FramePipelineProofs ------------------------
(***************************************************************************)
(* For every number of pictures, frame encoders, rows and helpers, and     *)
(* every command line that is looked at: the wait for the lookahead is     *)
(* signalled; a picture that is encoded or referred to stays in the        *)
(* picture list, and is not given to another picture of the stream; a      *)
(* picture that starts in rate control finds the same pictures started     *)
(* and ended before it, however fast the frame encoders are, until the     *)
(* final count is set; no picture is lost, and all counters keep their     *)
(* bounds; and a picture has the references its type needs.                *)
(***************************************************************************)
EXTENDS FramePipeline, FiniteSetTheorems, SequenceTheorems, WellFoundedInduction, TLAPS

-----------------------------------------------------------------------------
(* The wait for a decision *)

Labels == {"idle", "analyse", "decided", "push", "end"}

WaitTypes == /\ busy \in BOOLEAN /\ required \in BOOLEAN /\ signal \in {0, 1}
             /\ dec \in [Deciders -> Labels]

\* One thread decides at most, and the flag says whether one does.
OneDecides == /\ \A t, u \in Deciders : dec[t] # "idle" /\ dec[u] # "idle" => t = u
              /\ busy <=> \E t \in Deciders : dec[t] # "idle"
              /\ dec[Api] # "idle" => api = "deciding"

\* The API thread waits exactly while the signal is asked for or given, and it
\* is asked for only of a thread that decides.
Signalled == /\ required => busy
             /\ Awaiting <=> required \/ signal > 0
             /\ signal > 0 => ~required

WaitInv == WaitTypes /\ OneDecides /\ Signalled

LEMMA WaitInit == Init => WaitInv
<1> SUFFICES ASSUME Init PROVE WaitInv
  OBVIOUS
<1>1. /\ busy = FALSE /\ required = FALSE /\ signal = 0 /\ api = "call"
      /\ dec = [t \in Deciders |-> "idle"]
  BY DEF Init, LookaheadInit, PipeInit
<1>2. WaitTypes
  BY <1>1 DEF WaitTypes, Labels
<1>3. OneDecides
  BY <1>1 DEF OneDecides, Deciders
<1>4. Signalled
  BY <1>1 DEF Signalled, Awaiting
<1> QED
  BY <1>2, <1>3, <1>4 DEF WaitInv

\* A step that leaves the decision alone and, if it is the API thread's, is not
\* one of waiting.
LEMMA WaitKept ==
    ASSUME WaitInv, UNCHANGED <<busy, required, signal, dec>>,
           \/ api' = api
           \/ api \notin {"deciding", "wait", "waitStop"} /\ api' \notin {"wait", "waitStop"}
    PROVE  WaitInv'
BY DEF WaitInv, WaitTypes, OneDecides, Signalled, Awaiting, Deciders

\* findJob() begins to decide only if nobody does.
LEMMA WaitBegin ==
    ASSUME WaitInv, NEW t \in Deciders, BeginDecide(t),
           \/ t # Api /\ api' = api
           \/ api = "find" /\ api' = "deciding"
    PROVE  WaitInv'
<1>1. /\ ~busy /\ busy' = TRUE /\ dec' = [dec EXCEPT ![t] = "analyse"]
      /\ UNCHANGED <<required, signal>>
  BY DEF BeginDecide, MayDecide, Step, signals
<1>2. \A u \in Deciders : dec[u] = "idle" /\ dec'[u] = IF u = t THEN "analyse" ELSE "idle"
  BY <1>1 DEF WaitInv, OneDecides, WaitTypes
<1>3. Api \in Deciders
  BY DEF Deciders
<1>4. WaitTypes'
  BY <1>1 DEF WaitInv, WaitTypes, Labels
<1>5. OneDecides'
  BY <1>1, <1>2, <1>3 DEF OneDecides
<1>6. Signalled'
  BY <1>1 DEF WaitInv, Signalled, Awaiting
<1> QED
  BY <1>4, <1>5, <1>6 DEF WaitInv

\* The one that decides goes on.
LEMMA WaitGoesOn ==
    ASSUME WaitInv, NEW t \in Deciders, GoOnDeciding(t), api' = api
    PROVE  WaitInv'
<1>1. CASE EndDecide(t)
  <2>1. /\ dec[t] = "end" /\ busy' = FALSE /\ required' = FALSE
        /\ signal' = signal + (IF required THEN 1 ELSE 0)
        /\ dec' = [dec EXCEPT ![t] = "idle"]
    BY <1>1 DEF EndDecide, Trigger, Step
  <2>2. \A u \in Deciders : dec'[u] = "idle"
    BY <2>1 DEF WaitInv, OneDecides, WaitTypes
  <2>3. Api \in Deciders
    BY DEF Deciders
  <2>4. signal' \in {0, 1}
    BY <2>1 DEF WaitInv, WaitTypes, Signalled
  <2>5. WaitTypes'
    BY <2>1, <2>4 DEF WaitInv, WaitTypes, Labels
  <2>6. OneDecides'
    BY <2>1, <2>2, <2>3 DEF OneDecides
  <2>7. Signalled'
    BY <2>1 DEF WaitInv, WaitTypes, Signalled, Awaiting
  <2> QED
    BY <2>5, <2>6, <2>7 DEF WaitInv
<1>2. CASE Choose(t) \/ LockOutput(t) \/ PushOutput(t)
  <2>1. PICK l \in Labels \ {"idle"} : dec' = [dec EXCEPT ![t] = l]
    BY <1>2 DEF Choose, LockOutput, PushOutput, Step, Labels
  <2>2. dec[t] # "idle" /\ UNCHANGED <<busy, required, signal>>
    BY <1>2 DEF Choose, LockOutput, PushOutput, signals
  <2>3. \A u \in Deciders : dec'[u] # "idle" <=> dec[u] # "idle"
    BY <2>1, <2>2 DEF WaitInv, WaitTypes
  <2>4. WaitTypes'
    BY <2>1, <2>2 DEF WaitInv, WaitTypes
  <2>5. OneDecides'
    BY <2>2, <2>3 DEF WaitInv, OneDecides, Deciders
  <2>6. Signalled'
    BY <2>2 DEF WaitInv, Signalled, Awaiting
  <2> QED
    BY <2>4, <2>5, <2>6 DEF WaitInv
<1> QED
  BY <1>1, <1>2 DEF GoOnDeciding

\* The API thread asks for the signal if someone decides, and takes it.
LEMMA WaitAwait == ASSUME WaitInv, AwaitOutput PROVE WaitInv'
<1>1. UNCHANGED <<busy, dec>>
  BY DEF AwaitOutput, deciding
<1>2. CASE api = "mark" /\ required' = busy /\ api' = (IF busy THEN "wait" ELSE "pop")
           /\ UNCHANGED signal
  BY <1>1, <1>2 DEF WaitInv, WaitTypes, OneDecides, Signalled, Awaiting
<1>3. CASE /\ api \in {"wait", "waitStop"} /\ signal > 0 /\ signal' = signal - 1
           /\ api' = (IF api = "wait" THEN "pop" ELSE "stopFE") /\ UNCHANGED required
  BY <1>1, <1>3 DEF WaitInv, WaitTypes, OneDecides, Signalled, Awaiting
<1> QED
  BY <1>2, <1>3 DEF AwaitOutput

LEMMA WaitStop == ASSUME WaitInv, StopLookahead PROVE WaitInv'
<1>1. api = "stop" /\ UNCHANGED <<busy, dec, signal>>
  BY DEF StopLookahead, deciding
<1>2. CASE api' = "stopFE" /\ UNCHANGED required
  BY <1>1, <1>2, WaitKept
<1>3. CASE required' = busy /\ api' = (IF busy THEN "waitStop" ELSE "stopFE")
  BY <1>1, <1>3 DEF WaitInv, WaitTypes, OneDecides, Signalled, Awaiting
<1> QED
  BY <1>2, <1>3 DEF StopLookahead

LEMMA WaitStep == WaitInv /\ [Next]_vars => WaitInv'
<1> SUFFICES ASSUME WaitInv, [Next]_vars PROVE WaitInv'
  OBVIOUS
<1>1. CASE \/ AddPicture \/ Flush \/ GetEncoded \/ TakeDecided \/ PopUnlocked
           \/ Terminate \/ StopFrameEncoder \/ Join
  <2>1. UNCHANGED <<busy, required, signal, dec>>
    BY <1>1 DEF AddPicture, Flush, GetEncoded, TakeDecided, PopUnlocked, Terminate,
                StopFrameEncoder, Join, lookahead, signals, deciding
  <2>2. api \notin {"deciding", "wait", "waitStop"} /\ api' \notin {"wait", "waitStop"}
    BY <1>1 DEF AddPicture, Flush, GetEncoded, TakeDecided, PopUnlocked, Terminate,
                StopFrameEncoder, Join
  <2> QED
    BY <2>1, <2>2, WaitKept
<1>2. CASE StartFrame \/ NoFrame
  <2>1. UNCHANGED <<busy, required, signal, dec>>
    BY <1>2 DEF StartFrame, NoFrame, lookahead, signals, deciding
  <2>2. api \notin {"deciding", "wait", "waitStop"} /\ api' \notin {"wait", "waitStop"}
    BY <1>2 DEF StartFrame, NoFrame, Return
  <2> QED
    BY <2>1, <2>2, WaitKept
<1>3. CASE FindJob
  <2>1. CASE api = "find" /\ BeginDecide(Api) /\ api' = "deciding"
    BY <2>1, WaitBegin DEF Deciders
  <2>2. CASE api = "find" /\ api' = "mark" /\ UNCHANGED lookahead
    BY <2>2, WaitKept DEF lookahead, signals, deciding
  <2>3. CASE api = "deciding" /\ dec[Api] = "idle" /\ api' = "mark" /\ UNCHANGED lookahead
    BY <2>3 DEF lookahead, signals, deciding, WaitInv, WaitTypes, OneDecides, Signalled,
                Awaiting, Deciders
  <2> QED
    BY <1>3, <2>1, <2>2, <2>3 DEF FindJob
<1>4. CASE AwaitOutput
  BY <1>4, WaitAwait
<1>5. CASE StopLookahead
  BY <1>5, WaitStop
<1>6. ASSUME NEW e \in FEs, EncoderStep(e) PROVE WaitInv'
  <2>1. UNCHANGED <<lookahead, caller>>
    BY <1>6 DEF EncoderStep, Enabled, RcStart, EncodeRow, RcEnd, WaitForChange, FinishRc, Release
  <2> QED
    BY <2>1, WaitKept DEF lookahead, caller, signals, deciding
<1>7. ASSUME NEW t \in Deciders, DeciderStep(t) PROVE WaitInv'
  BY <1>7, WaitGoesOn DEF DeciderStep, pipe, caller
<1>8. ASSUME NEW t \in Helpers, BeginDecide(t), UNCHANGED pipe PROVE WaitInv'
  BY <1>8, WaitBegin, ApiAssumption DEF Deciders, pipe, caller
<1>9. CASE UNCHANGED vars
  BY <1>9, WaitKept DEF vars, pipe, lookahead, caller, signals, deciding
<1> QED
  BY <1>1, <1>2, <1>3, <1>4, <1>5, <1>6, <1>7, <1>8, <1>9 DEF Next, ApiStep

\* The API thread that waits in getDecidedPicture() or stopJobs() for a decision
\* is told of it by a helper that is deciding (slicetype.cpp, findJob() and
\* m_outputSignalRequired), and finds no signal of an earlier wait.
THEOREM WaitersAreSignalled == Spec => []WaitIsSignalled
<1>1. Spec => []WaitInv
  BY WaitInit, WaitStep, PTL DEF Spec
<1>2. WaitInv => WaitIsSignalled
  BY DEF WaitInv, WaitTypes, OneDecides, Signalled, WaitIsSignalled, Awaiting, Deciders
<1> QED
  BY <1>1, <1>2, PTL

-----------------------------------------------------------------------------
(* Numbers and sequences *)

LEMMA LessIsWellFounded == IsWellFoundedOn({p \in Nat \X Nat : p[1] < p[2]}, Nat)
BY NatLessThanWellFounded DEF OpToRel

\* A set of numbers that is not empty has a least one.
LEMMA LeastNumber ==
    ASSUME NEW S \in SUBSET Nat, S # {}
    PROVE  \E x \in S : \A y \in S : x <= y
<1> DEFINE R == {p \in Nat \X Nat : p[1] < p[2]}
<1>1. IsWellFoundedOn(R, Nat)
  BY LessIsWellFounded
<1>2. \A x, y \in Nat : y < x => <<y, x>> \in R
  OBVIOUS
<1> HIDE DEF R
<1>3. PICK x \in S : \A y \in S : ~ (<<y, x>> \in R)
  BY <1>1, WFMin
<1>4. \A y \in S : x <= y
  <2> SUFFICES ASSUME NEW y \in S PROVE x <= y
    OBVIOUS
  <2>1. ~ (y < x)
    BY <1>2, <1>3
  <2>2. x \in Nat /\ y \in Nat
    OBVIOUS
  <2> QED
    BY <2>1, <2>2
<1> QED
  BY <1>4

\* Induction: for a set of numbers instead of a predicate.
LEMMA Induction ==
    ASSUME NEW S \in SUBSET Nat, 0 \in S, \A n \in S : n + 1 \in S
    PROVE  S = Nat
<1>1. SUFFICES ASSUME Nat \ S # {} PROVE FALSE
  OBVIOUS
<1>2. PICK x \in Nat \ S : \A y \in Nat \ S : x <= y
  BY <1>1, LeastNumber
<1>3. x - 1 \in Nat /\ x - 1 \notin Nat \ S
  BY <1>2
<1> QED
  BY <1>2, <1>3

\* Appending adds one member, and keeps a queue without repetitions so if the
\* member is new (std::deque::push_back).
LEMMA AppendFacts ==
    ASSUME NEW S, NEW q \in Seq(S), NEW x \in S
    PROVE  /\ Append(q, x) \in Seq(S)
           /\ Append(q, x) # << >>
           /\ Range(Append(q, x)) = Range(q) \cup {x}
           /\ q # << >> => Head(Append(q, x)) = Head(q)
           /\ q = << >> => Head(Append(q, x)) = x
           /\ IsInjective(q) /\ x \notin Range(q) => IsInjective(Append(q, x))
<1> DEFINE r == Append(q, x)
<1>1. /\ r \in Seq(S) /\ Len(r) = Len(q) + 1
      /\ DOMAIN q = 1 .. Len(q) /\ DOMAIN r = 1 .. Len(q) + 1 /\ Len(q) \in Nat
  OBVIOUS
<1>2. /\ \A i \in 1 .. Len(q) : r[i] = q[i]
      /\ r[Len(q) + 1] = x
  OBVIOUS
<1>3. Range(r) = Range(q) \cup {x}
  <2>1. Range(r) \subseteq Range(q) \cup {x}
    BY <1>1, <1>2 DEF Range
  <2>2. Range(q) \cup {x} \subseteq Range(r)
    BY <1>1, <1>2 DEF Range
  <2> QED
    BY <2>1, <2>2
<1>4. IsInjective(q) /\ x \notin Range(q) => IsInjective(r)
  BY <1>1, <1>2 DEF Range, IsInjective
<1>5. r # << >> /\ (q # << >> => Head(r) = Head(q)) /\ (q = << >> => Head(r) = x)
  OBVIOUS
<1> QED
  BY <1>1, <1>3, <1>4, <1>5

-----------------------------------------------------------------------------
(* The recycling of a list *)

\* The results of the recursion for the first n elements.
Selects(s, S, n, f) ==
    f = [m \in 0 .. n |-> IF m = 0 THEN <<>>
                          ELSE IF s[m] \in S THEN Append(f[m - 1], s[m]) ELSE f[m - 1]]

\* Select() is the last of these results.
LEMMA SelectDefined ==
    ASSUME NEW s, NEW S, Len(s) \in Nat
    PROVE  \E f : Selects(s, S, Len(s), f) /\ Select(s, S) = f[Len(s)]
<1> DEFINE N == {n \in Nat : \E f : Selects(s, S, n, f)}
<1>1. 0 \in N
  <2> DEFINE f == [m \in 0 .. 0 |-> <<>>]
  <2>1. Selects(s, S, 0, f)
    BY DEF Selects
  <2> QED
    BY <2>1
<1>2. ASSUME NEW n \in N PROVE n + 1 \in N
  <2>1. PICK f : Selects(s, S, n, f)
    BY <1>2
  <2> DEFINE g == [m \in 0 .. n + 1 |->
                     IF m <= n THEN f[m]
                     ELSE IF s[m] \in S THEN Append(f[n], s[m]) ELSE f[n]]
  <2>2. n \in Nat
    OBVIOUS
  <2>3. ASSUME NEW m \in 0 .. n + 1
        PROVE  g[m] = IF m = 0 THEN <<>>
                      ELSE IF s[m] \in S THEN Append(g[m - 1], s[m]) ELSE g[m - 1]
    <3>1. CASE m = 0
      BY <2>1, <2>2, <3>1 DEF Selects
    <3>2. CASE m # 0 /\ m <= n
      <4>1. m \in 0 .. n /\ m - 1 \in 0 .. n + 1 /\ m - 1 <= n
        BY <2>2, <3>2
      <4>2. g[m] = f[m] /\ g[m - 1] = f[m - 1]
        BY <3>2, <4>1
      <4>3. f[m] = IF s[m] \in S THEN Append(f[m - 1], s[m]) ELSE f[m - 1]
        BY <2>1, <3>2, <4>1 DEF Selects
      <4> QED
        BY <3>2, <4>2, <4>3
    <3>3. CASE m = n + 1
      <4>1. m # 0 /\ m - 1 = n /\ ~(m <= n) /\ n \in 0 .. n + 1 /\ n <= n
        BY <2>2, <3>3
      <4>2. g[n] = f[n]
        BY <4>1
      <4> QED
        BY <4>1, <4>2
    <3> QED
      BY <2>2, <3>1, <3>2, <3>3
  <2>4. Selects(s, S, n + 1, g)
    <3> HIDE DEF g
    <3>1. g = [m \in 0 .. n + 1 |-> g[m]]
      BY DEF g
    <3> QED
      BY <2>3, <3>1 DEF Selects
  <2> QED
    BY <2>2, <2>4
<1>3. N = Nat
  BY <1>1, <1>2, Induction
<1>4. \E f : Selects(s, S, Len(s), f)
  BY <1>3
<1>5. Select(s, S) = (CHOOSE f : Selects(s, S, Len(s), f))[Len(s)]
  BY DEF Select, Selects
<1> QED
  BY <1>4, <1>5

\* Select() keeps the elements that are in S, all of them and nothing else, and
\* repeats none.
LEMMA SelectFacts ==
    ASSUME NEW T, NEW s \in Seq(T), NEW S
    PROVE  /\ Select(s, S) \in Seq(T)
           /\ Range(Select(s, S)) = Range(s) \cap S
           /\ IsInjective(s) => IsInjective(Select(s, S))
<1> DEFINE Upto(n) == {s[i] : i \in 1 .. n}
<1>l. Len(s) \in Nat /\ DOMAIN s = 1 .. Len(s)
  OBVIOUS
<1>1. PICK f : Selects(s, S, Len(s), f) /\ Select(s, S) = f[Len(s)]
  BY <1>l, SelectDefined
<1> DEFINE Good(n) == /\ f[n] \in Seq(T)
                      /\ Range(f[n]) = Upto(n) \cap S
                      /\ IsInjective(s) => IsInjective(f[n])
           N == {n \in Nat : n <= Len(s) => Good(n)}
<1>2. 0 \in N
  <2>1. f[0] = <<>>
    BY <1>l, <1>1 DEF Selects
  <2>2. <<>> \in Seq(T) /\ Range(<<>>) = {} /\ IsInjective(<<>>) /\ Upto(0) = {}
    BY DEF Range, IsInjective
  <2> QED
    BY <2>1, <2>2
<1>3. ASSUME NEW n \in N PROVE n + 1 \in N
  <2>1. SUFFICES ASSUME n + 1 <= Len(s) PROVE Good(n + 1)
    OBVIOUS
  <2>2. n \in Nat /\ n <= Len(s) /\ n + 1 \in 1 .. Len(s) /\ n + 1 \in 0 .. Len(s)
        /\ (n + 1) - 1 = n /\ n + 1 # 0
    BY <1>l, <2>1
  <2>3. Good(n)
    BY <2>2
  <2>x. PICK x : x = s[n + 1]
    OBVIOUS
  <2>4. f[n + 1] = IF x \in S THEN Append(f[n], x) ELSE f[n]
    BY <1>1, <2>2, <2>x DEF Selects
  <2>5. x \in T /\ Upto(n + 1) = Upto(n) \cup {x}
    <3>1. \A i : i \in 1 .. n + 1 <=> i \in 1 .. n \/ i = n + 1
      BY <2>2
    <3> QED
      BY <1>l, <2>2, <2>x, <3>1
  <2>6. IsInjective(s) => x \notin Upto(n)
    <3>1. \A i \in 1 .. n : i # n + 1 /\ i \in DOMAIN s /\ n + 1 \in DOMAIN s
      BY <1>l, <2>2
    <3> QED
      BY <2>x, <3>1 DEF IsInjective
  <2>7. CASE x \notin S
    BY <2>3, <2>4, <2>5, <2>7
  <2>8. CASE x \in S
    <3>r. PICK r \in Seq(T) : r = f[n]
      BY <2>3
    <3>1. /\ Append(r, x) \in Seq(T)
          /\ Range(Append(r, x)) = Range(r) \cup {x}
          /\ IsInjective(r) /\ x \notin Range(r) => IsInjective(Append(r, x))
      BY <2>5, AppendFacts
    <3> QED
      BY <2>3, <2>4, <2>5, <2>6, <2>8, <3>1, <3>r
  <2> QED
    BY <2>7, <2>8
<1>4. N = Nat
  <2> HIDE DEF N
  <2>1. N \in SUBSET Nat
    BY DEF N
  <2> QED
    BY <1>2, <1>3, <2>1, Induction
<1>5. Good(Len(s))
  <2>1. Len(s) \in N
    BY <1>l, <1>4
  <2> QED
    BY <1>l, <2>1
<1>6. Upto(Len(s)) = Range(s)
  BY <1>l DEF Range
<1> QED
  BY <1>1, <1>5, <1>6

\* Taking off one end, and joining two queues.
LEMMA TailFacts ==
    ASSUME NEW S, NEW q \in Seq(S), q # <<>>
    PROVE  /\ Tail(q) \in Seq(S) /\ Head(q) \in S /\ Head(q) \in Range(q)
           /\ Range(Tail(q)) \subseteq Range(q)
           /\ IsInjective(q) => IsInjective(Tail(q)) /\ Head(q) \notin Range(Tail(q))
BY DEF Range, IsInjective

LEMMA FrontFacts ==
    ASSUME NEW S, NEW q \in Seq(S), q # <<>>
    PROVE  /\ Front(q) \in Seq(S) /\ Last(q) \in S /\ Last(q) \in Range(q)
           /\ Range(Front(q)) \subseteq Range(q)
           /\ IsInjective(q) => IsInjective(Front(q)) /\ Last(q) \notin Range(Front(q))
<1> DEFINE n == Len(q)
<1>1. n \in Nat \ {0} /\ DOMAIN q = 1 .. n /\ \A i \in 1 .. n : q[i] \in S
  OBVIOUS
<1>2. /\ Front(q) \in Seq(S) /\ DOMAIN Front(q) = 1 .. n - 1
      /\ \A i \in 1 .. n - 1 : Front(q)[i] = q[i]
  BY <1>1 DEF Front
<1>3. Last(q) = q[n]
  BY DEF Last
<1> QED
  BY <1>1, <1>2, <1>3 DEF Range, IsInjective

LEMMA ConcatFacts ==
    ASSUME NEW S, NEW q \in Seq(S), NEW r \in Seq(S)
    PROVE  /\ q \o r \in Seq(S)
           /\ Range(q \o r) = Range(q) \cup Range(r)
           /\ IsInjective(q) /\ IsInjective(r) /\ Range(q) \cap Range(r) = {}
                 => IsInjective(q \o r)
<1>1. PICK m \in Nat : m = Len(q)
  OBVIOUS
<1>2. PICK n \in Nat : n = Len(r)
  OBVIOUS
<1>3. /\ q \o r \in Seq(S) /\ DOMAIN (q \o r) = 1 .. m + n
      /\ DOMAIN q = 1 .. m /\ DOMAIN r = 1 .. n
      /\ \A i \in 1 .. m : (q \o r)[i] = q[i]
      /\ \A i \in 1 .. n : (q \o r)[i + m] = r[i]
  BY <1>1, <1>2
<1>4. \A i \in 1 .. m + n : i \in 1 .. m \/ (i - m \in 1 .. n /\ i = (i - m) + m)
  BY <1>1, <1>2
<1>5. \A i \in 1 .. m : i \in 1 .. m + n
  BY <1>1, <1>2
<1>6. \A i \in 1 .. n : i + m \in 1 .. m + n
  BY <1>1, <1>2
<1>7. Range(q \o r) = Range(q) \cup Range(r)
  <2>1. ASSUME NEW i \in 1 .. m + n PROVE (q \o r)[i] \in Range(q) \cup Range(r)
    BY <1>3, <1>4 DEF Range
  <2>2. ASSUME NEW i \in 1 .. m PROVE q[i] \in Range(q \o r)
    BY <1>3, <1>5 DEF Range
  <2>3. ASSUME NEW i \in 1 .. n PROVE r[i] \in Range(q \o r)
    BY <1>3, <1>6 DEF Range
  <2>4. Range(q \o r) \subseteq Range(q) \cup Range(r)
    BY <1>3, <2>1 DEF Range
  <2>5. Range(q) \subseteq Range(q \o r)
    BY <1>3, <2>2 DEF Range
  <2>6. Range(r) \subseteq Range(q \o r)
    BY <1>3, <2>3 DEF Range
  <2> QED
    BY <2>4, <2>5, <2>6
<1>8. ASSUME IsInjective(q), IsInjective(r), Range(q) \cap Range(r) = {}
      PROVE  IsInjective(q \o r)
  <2>1. \A i \in 1 .. m, j \in 1 .. n : q[i] # r[j]
    BY <1>3, <1>8 DEF Range
  <2>2. SUFFICES ASSUME NEW i \in 1 .. m + n, NEW j \in 1 .. m + n, (q \o r)[i] = (q \o r)[j]
                 PROVE  i = j
    BY <1>3 DEF IsInjective
  <2>3. CASE i \in 1 .. m /\ j \in 1 .. m
    BY <1>3, <1>8, <2>2, <2>3 DEF IsInjective
  <2>4. CASE i \in 1 .. m /\ j \notin 1 .. m
    BY <1>3, <1>4, <2>1, <2>2, <2>4
  <2>5. CASE i \notin 1 .. m /\ j \in 1 .. m
    BY <1>3, <1>4, <2>1, <2>2, <2>5
  <2>6. CASE i \notin 1 .. m /\ j \notin 1 .. m
    <3>1. i - m \in 1 .. n /\ j - m \in 1 .. n /\ r[i - m] = r[j - m]
      BY <1>3, <1>4, <2>2, <2>6
    <3>2. i - m = j - m
      BY <1>3, <1>8, <3>1 DEF IsInjective
    <3> QED
      BY <1>1, <3>2
  <2> QED
    BY <2>3, <2>4, <2>5, <2>6
<1> QED
  BY <1>3, <1>7, <1>8

-----------------------------------------------------------------------------
(* The inductive invariant of the lists *)

Kinds == {"I", "P", "B"}
Made  == 1 .. created
Typed == Made \X Kinds

\* The pictures in a queue of pictures with their types.
Pics(q) == [i \in DOMAIN q |-> q[i][1]]

\* Where a picture may be between the input queue and the DPB.
Queued    == Range(input)
Chosen(t) == Range(Pics(gop[t]))
Decided   == Range(Pics(output))
Handed    == IF inHand = <<>> THEN {} ELSE {inHand[1]}
OnTheWay  == Queued \cup Decided \cup Handed \cup UNION {Chosen(t) : t \in Deciders}

\* The two lists of the DPB.
Free    == Range(freeList)
Present == Range(picList)

\* The types that matter here.
ListTypes ==
    /\ param \in Params /\ created \in Nat /\ created <= MaxPics /\ cur \in FEs
    /\ poc \in [Frames -> Int] /\ count \in [Frames -> Int]
    /\ input \in Seq(Made) /\ freeList \in Seq(Made) /\ picList \in Seq(Made)
    /\ output \in Seq(Typed) /\ gop \in [Deciders -> Seq(Typed)]
    /\ inHand = <<>> \/ inHand \in Typed
    /\ frame \in [FEs -> Nat] /\ refs \in [FEs -> SUBSET (Made \X Int)]

\* There are no more Frames than pictures so far, and a last picture.
LastPicture == \E g \in Frames : /\ created <= poc[g] + 1
                                 /\ \A f \in Frames : poc[f] <= poc[g]

\* A Frame is in one place.
WayApart ==
    /\ IsInjective(input) /\ IsInjective(Pics(output))
    /\ \A t \in Deciders : IsInjective(Pics(gop[t]))
    /\ Queued \cap Decided = {} /\ Queued \cap Handed = {} /\ Decided \cap Handed = {}
    /\ \A t \in Deciders : Chosen(t) \cap (Queued \cup Decided \cup Handed) = {}
    /\ \A t, u \in Deciders : t # u => Chosen(t) \cap Chosen(u) = {}
ListsApart ==
    /\ IsInjective(freeList) /\ IsInjective(picList)
    /\ Free \cap Present = {}
    /\ OnTheWay \cap (Free \cup Present) = {}

\* m_countRefEncoders counts the encode() a picture is in, and the frame
\* encoders that refer to it.
Owned      == OnTheWay \cup {frame[e] : e \in FEs}
Holders(f) == {e \in FEs : \E r \in refs[e] : r[1] = f}
Counts     == \A f \in Frames :
    /\ Cardinality(Holders(f)) <= count[f]
    /\ f \in Owned => Cardinality(Holders(f)) + 1 <= count[f]

\* What is encoded or referred to is in the DPB, as the picture it was.
InDPB ==
    /\ \A e \in FEs : frame[e] # 0 => frame[e] \in Present
    /\ \A d, e \in FEs : frame[d] = frame[e] /\ frame[e] # 0 => d = e
    /\ \A e \in FEs : \A r \in refs[e] : r[1] \in Present /\ poc[r[1]] = r[2]

ListInv == ListTypes /\ LastPicture /\ WayApart /\ ListsApart /\ Counts /\ InDPB

\* The variables it speaks of.
way   == <<param, input, output, gop, inHand>>
dpb   == <<created, poc, count, freeList, picList, frame, refs>>

LEMMA ListsKept == ASSUME ListInv, UNCHANGED <<way, dpb>>, cur' \in FEs PROVE ListInv'
<1> USE DEF way, dpb
<1>1. /\ Queued' = Queued /\ Decided' = Decided /\ Handed' = Handed
      /\ Free' = Free /\ Present' = Present /\ OnTheWay' = OnTheWay /\ Owned' = Owned
      /\ \A f : Holders(f)' = Holders(f)
  BY DEF Queued, Decided, Handed, OnTheWay, Chosen, Free, Present, Owned, Holders, Pics
<1>2. ListTypes'
  BY DEF ListInv, ListTypes, Made, Typed
<1>3. LastPicture'
  BY DEF ListInv, LastPicture
<1>4. WayApart'
  BY <1>1 DEF ListInv, WayApart, Chosen, Pics
<1>5. ListsApart'
  BY <1>1 DEF ListInv, ListsApart
<1>6. Counts'
  BY <1>1 DEF ListInv, Counts
<1>7. InDPB'
  BY <1>1 DEF ListInv, InDPB
<1> QED
  BY <1>2, <1>3, <1>4, <1>5, <1>6, <1>7 DEF ListInv

\* The next encoder of the round is one.
LEMMA NextEncoder == cur \in FEs => (cur + 1) % NumThreads \in FEs
BY ThreadsAssumption DEF FEs

LEMMA ListsInit == Init => ListInv
<1> SUFFICES ASSUME Init PROVE ListInv
  OBVIOUS
<1>1. /\ input = <<>> /\ output = <<>> /\ inHand = <<>> /\ freeList = <<>> /\ picList = <<>>
      /\ gop = [t \in Deciders |-> <<>>] /\ created = 0 /\ cur = 0
      /\ poc = [f \in Frames |-> -1] /\ count = [f \in Frames |-> 0]
      /\ frame = [e \in FEs |-> 0] /\ refs = [e \in FEs |-> {}]
  BY DEF Init, LookaheadInit, PipeInit
<1>2. Pics(<<>>) = <<>> /\ Range(<<>>) = {} /\ IsInjective(<<>>)
  BY DEF Pics, Range, IsInjective
<1>3. /\ Queued = {} /\ Decided = {} /\ Handed = {} /\ OnTheWay = {}
      /\ \A t \in Deciders : Chosen(t) = {} /\ gop[t] = <<>>
      /\ Free = {} /\ Present = {}
  <2>1. \A t \in Deciders : Chosen(t) = {} /\ gop[t] = <<>>
    BY <1>1, <1>2 DEF Chosen
  <2>2. Queued = {} /\ Decided = {} /\ Handed = {} /\ Free = {} /\ Present = {}
    BY <1>1, <1>2 DEF Queued, Decided, Handed, Free, Present
  <2> QED
    BY <2>1, <2>2 DEF OnTheWay
<1>4. ListTypes
  <2>1. created \in Nat /\ created <= MaxPics /\ cur \in FEs
    BY <1>1, PicsAssumption, ThreadsAssumption DEF FEs
  <2>2. \A S : <<>> \in Seq(S)
    OBVIOUS
  <2>3. gop \in [Deciders -> Seq(Typed)]
    BY <1>1, <2>2
  <2>4. poc \in [Frames -> Int] /\ count \in [Frames -> Int]
    BY <1>1
  <2>5. frame \in [FEs -> Nat] /\ refs \in [FEs -> SUBSET (Made \X Int)]
    BY <1>1
  <2> QED
    BY <1>1, <2>1, <2>2, <2>3, <2>4, <2>5 DEF ListTypes
<1>5. LastPicture
  <2>1. 1 \in Frames
    BY PicsAssumption DEF Frames
  <2> QED
    BY <1>1, <2>1 DEF LastPicture
<1>6. WayApart
  BY <1>1, <1>2, <1>3 DEF WayApart
<1>7. ListsApart
  BY <1>1, <1>2, <1>3 DEF ListsApart
<1>8. Counts
  <2>1. \A f \in Frames : Holders(f) = {} /\ f \notin Owned
    BY <1>1, <1>3 DEF Holders, Owned, Frames
  <2>2. Cardinality({}) = 0
    BY FS_EmptySet
  <2>3. \A f \in Frames : Cardinality(Holders(f)) = 0 /\ count[f] = 0 /\ f \notin Owned
    BY <1>1, <2>1, <2>2
  <2> QED
    BY <2>3 DEF Counts
<1>9. InDPB
  BY <1>1 DEF InDPB
<1> QED
  BY <1>4, <1>5, <1>6, <1>7, <1>8, <1>9 DEF ListInv

\* The number of those that refer to a picture is a number.
LEMMA HoldersFinite == \A f : IsFiniteSet(Holders(f)) /\ Cardinality(Holders(f)) \in Nat
<1> SUFFICES ASSUME NEW f PROVE IsFiniteSet(Holders(f)) /\ Cardinality(Holders(f)) \in Nat
  OBVIOUS
<1>1. IsFiniteSet(FEs)
  BY ThreadsAssumption, FS_Interval DEF FEs
<1>2. Holders(f) \in SUBSET FEs
  BY DEF Holders
<1>3. IsFiniteSet(Holders(f))
  BY <1>1, <1>2, FS_Subset
<1> QED
  BY <1>3, FS_CardinalityType

-----------------------------------------------------------------------------
(* Steps between the queues *)

\* What Pics() makes of a queue, of its head and tail, and of two queues.
LEMMA PicsFacts ==
    ASSUME NEW S, NEW q \in Seq(S \X Kinds)
    PROVE  /\ Pics(q) \in Seq(S) /\ Len(Pics(q)) = Len(q)
           /\ q # <<>> => /\ Tail(q) \in Seq(S \X Kinds) /\ Head(q) \in S \X Kinds
                          /\ Pics(Tail(q)) = Tail(Pics(q)) /\ Pics(q) # <<>>
                          /\ Head(q)[1] = Head(Pics(q))
<1>1. /\ Pics(q) \in Seq(S) /\ Len(Pics(q)) = Len(q) /\ DOMAIN Pics(q) = 1 .. Len(q)
      /\ \A i \in 1 .. Len(q) : Pics(q)[i] = q[i][1] /\ q[i][1] \in S
  BY DEF Pics
<1>2. ASSUME q # <<>> PROVE /\ Tail(q) \in Seq(S \X Kinds) /\ Head(q) \in S \X Kinds
                           /\ Pics(Tail(q)) = Tail(Pics(q)) /\ Pics(q) # <<>>
                           /\ Head(q)[1] = Head(Pics(q))
  <2>1. /\ Tail(q) \in Seq(S \X Kinds) /\ Head(q) \in S \X Kinds
        /\ Len(Tail(q)) = Len(q) - 1 /\ Len(q) \in Nat \ {0}
        /\ \A i \in 1 .. Len(q) - 1 : Tail(q)[i] = q[i + 1]
        /\ Head(q) = q[1]
    BY <1>2
  <2>2. Pics(q) # <<>> /\ Head(Pics(q)) = q[1][1]
    BY <1>1, <2>1
  <2>3. /\ Pics(Tail(q)) \in Seq(S) /\ Len(Pics(Tail(q))) = Len(q) - 1
        /\ \A i \in 1 .. Len(q) - 1 : Pics(Tail(q))[i] = q[i + 1][1]
    BY <2>1 DEF Pics
  <2>4. /\ Tail(Pics(q)) \in Seq(S) /\ Len(Tail(Pics(q))) = Len(q) - 1
        /\ \A i \in 1 .. Len(q) - 1 : Tail(Pics(q))[i] = q[i + 1][1]
    BY <1>1, <2>1, <2>2
  <2>5. Pics(Tail(q)) = Tail(Pics(q))
    BY <2>3, <2>4, SeqEqual
  <2> QED
    BY <2>1, <2>2, <2>5
<1> QED
  BY <1>1, <1>2

LEMMA PicsConcat ==
    ASSUME NEW T, NEW q \in Seq(T), NEW r \in Seq(T)
    PROVE  q \o r \in Seq(T) /\ Pics(q \o r) = Pics(q) \o Pics(r)
<1>0. PICK S : S = {x[1] : x \in T}
  OBVIOUS
<1>1. PICK m \in Nat : m = Len(q)
  OBVIOUS
<1>2. PICK n \in Nat : n = Len(r)
  OBVIOUS
<1>3. /\ q \o r \in Seq(T) /\ Len(q \o r) = m + n
      /\ \A i \in 1 .. m : (q \o r)[i] = q[i]
      /\ \A i \in m + 1 .. m + n : (q \o r)[i] = r[i - m]
  BY <1>1, <1>2
<1>4. /\ Pics(q \o r) \in Seq(S) /\ Len(Pics(q \o r)) = m + n
      /\ \A i \in 1 .. m + n : Pics(q \o r)[i] = (q \o r)[i][1]
  BY <1>0, <1>3 DEF Pics
<1>5. /\ Pics(q) \in Seq(S) /\ Len(Pics(q)) = m /\ \A i \in 1 .. m : Pics(q)[i] = q[i][1]
      /\ Pics(r) \in Seq(S) /\ Len(Pics(r)) = n /\ \A i \in 1 .. n : Pics(r)[i] = r[i][1]
  BY <1>0, <1>1, <1>2 DEF Pics
<1>6. /\ Pics(q) \o Pics(r) \in Seq(S) /\ Len(Pics(q) \o Pics(r)) = m + n
      /\ \A i \in 1 .. m : (Pics(q) \o Pics(r))[i] = q[i][1]
      /\ \A i \in m + 1 .. m + n : (Pics(q) \o Pics(r))[i] = r[i - m][1]
  <2>1. PICK v \in Seq(S) : v = Pics(q)
    BY <1>5
  <2>2. PICK w \in Seq(S) : w = Pics(r)
    BY <1>5
  <2>3. v \in Seq(S) /\ w \in Seq(S) /\ Len(v) = m /\ Len(w) = n /\ m \in Nat /\ n \in Nat
    BY <1>1, <1>2, <1>5, <2>1, <2>2
  <2>4. /\ v \o w \in Seq(S) /\ Len(v \o w) = m + n
        /\ \A i \in 1 .. m : (v \o w)[i] = v[i]
        /\ \A i \in m + 1 .. m + n : (v \o w)[i] = w[i - m]
    <3>1. /\ v \o w \in Seq(S) /\ Len(v \o w) = Len(v) + Len(w)
          /\ \A i \in 1 .. Len(v) + Len(w) :
                (v \o w)[i] = IF i <= Len(v) THEN v[i] ELSE w[i - Len(v)]
      BY <2>3, ConcatProperties
    <3>2. /\ v \o w \in Seq(S) /\ Len(v \o w) = m + n
          /\ \A i \in 1 .. m + n : (v \o w)[i] = IF i <= m THEN v[i] ELSE w[i - m]
      BY <2>3, <3>1, Zenon
    <3>3. m \in Nat /\ n \in Nat
      BY <2>3
    <3> QED
      BY <3>2, <3>3
  <2>5. \A i \in m + 1 .. m + n : i - m \in 1 .. n
    BY <2>3
  <2> QED
    BY <1>5, <2>1, <2>2, <2>4, <2>5
<1>7. \A i \in 1 .. m + n : Pics(q \o r)[i] = (Pics(q) \o Pics(r))[i]
  <2> SUFFICES ASSUME NEW i \in 1 .. m + n PROVE Pics(q \o r)[i] = (Pics(q) \o Pics(r))[i]
    OBVIOUS
  <2>1. i \in 1 .. m \/ i \in m + 1 .. m + n
    OBVIOUS
  <2> QED
    BY <1>3, <1>4, <1>6, <2>1
<1>8. Pics(q \o r) = Pics(q) \o Pics(r)
  BY <1>4, <1>6, <1>7, SeqEqual
<1> QED
  BY <1>3, <1>8

\* Pictures that are in fewer queues than before are counted as before.
LEMMA LessOwned ==
    ASSUME ListInv, Owned' \subseteq Owned, UNCHANGED <<count, refs>>
    PROVE  Counts'
BY DEF ListInv, Counts, Holders

\* getDecidedPicture() takes the oldest decision, or nothing.
LEMMA ListsTake ==
    ASSUME ListInv, UNCHANGED <<param, dpb, input, gop, cur>>,
           inHand' = IF output = <<>> THEN <<>> ELSE Head(output),
           output' = IF output = <<>> THEN <<>> ELSE Tail(output)
    PROVE  ListInv'
<1> USE DEF dpb
<1>1. output \in Seq(Typed)
  BY DEF ListInv, ListTypes
<1>2. /\ output' \in Seq(Typed) /\ (inHand' = <<>> \/ inHand' \in Typed)
      /\ Decided' \subseteq Decided /\ Handed' \subseteq Decided /\ Handed' \cap Decided' = {}
      /\ IsInjective(Pics(output'))
  <2>1. CASE output = <<>>
    <3>1. output' = output /\ inHand' = <<>>
      BY <2>1
    <3>2. Pics(output') = Pics(output)
      BY <3>1
    <3>3. Decided' = Decided /\ Handed' = {}
      BY <3>1, <3>2 DEF Decided, Handed
    <3> QED
      BY <1>1, <3>1, <3>2, <3>3 DEF ListInv, WayApart
  <2>2. CASE output # <<>>
    <3>1. /\ Pics(output) \in Seq(Made) /\ Pics(output) # <<>>
          /\ output' \in Seq(Typed) /\ inHand' \in Typed
          /\ Pics(output') = Tail(Pics(output)) /\ inHand'[1] = Head(Pics(output))
      BY <1>1, <2>2, PicsFacts DEF Typed
    <3>2. IsInjective(Pics(output))
      BY DEF ListInv, WayApart
    <3>3. inHand' # <<>>
      BY <3>1 DEF Typed
    <3>p. PICK p \in Seq(Made) : p = Pics(output)
      BY <3>1
    <3>4. p # <<>> /\ IsInjective(p) /\ p \in Seq(Made)
      BY <3>1, <3>2, <3>p
    <3>5. /\ Head(p) \in Range(p) /\ Range(Tail(p)) \subseteq Range(p)
          /\ IsInjective(Tail(p)) /\ Head(p) \notin Range(Tail(p))
      BY <3>4, TailFacts
    <3>6. Decided = Range(p) /\ Decided' = Range(Tail(p)) /\ Handed' = {Head(p)}
      BY <3>1, <3>3, <3>p DEF Decided, Handed
    <3> QED
      BY <3>1, <3>5, <3>6, <3>p
  <2> QED
    BY <2>1, <2>2
<1>3. /\ Queued' = Queued /\ Free' = Free /\ Present' = Present
      /\ \A t \in Deciders : Chosen(t)' = Chosen(t)
  BY DEF Queued, Free, Present, Chosen, Pics
<1>4. OnTheWay' \subseteq OnTheWay /\ Owned' \subseteq Owned
  BY <1>2, <1>3 DEF OnTheWay, Owned
<1>5. ListTypes'
  BY <1>2 DEF ListInv, ListTypes, Made, Typed
<1>6. WayApart'
  <2>1. \A t \in Deciders : IsInjective(Pics(gop[t]))'
    BY DEF ListInv, WayApart, Pics
  <2> QED
    BY <1>2, <1>3, <2>1 DEF ListInv, WayApart
<1>7. ListsApart'
  BY <1>3, <1>4 DEF ListInv, ListsApart
<1>8. Counts'
  BY <1>4, LessOwned
<1>9. LastPicture' /\ InDPB'
  BY <1>3 DEF ListInv, LastPicture, InDPB
<1> QED
  BY <1>5, <1>6, <1>7, <1>8, <1>9 DEF ListInv

\* The mini-GOP that slicetypeDecide() makes, and what it leaves.
LEMMA ChooseShape ==
    ASSUME NEW b \in Nat, b < Len(input), input \in Seq(Made)
    PROVE  /\ EncodeOrder(b) \in Seq(Typed) /\ Len(EncodeOrder(b)) = b + 1
           /\ EncodeOrder(b)[1] = <<input[b + 1], IF IsKey(input[b + 1]) THEN "I" ELSE "P">>
           /\ \A i \in 2 .. b + 1 : EncodeOrder(b)[i] = <<input[i - 1], "B">>
           /\ Rest(b) \in Seq(Made) /\ Len(Rest(b)) = Len(input) - (b + 1)
           /\ \A i \in 1 .. Len(input) - (b + 1) : Rest(b)[i] = input[i + (b + 1)]
<1>1. PICK n \in Nat : n = Len(input)
  OBVIOUS
<1>2. /\ DOMAIN input = 1 .. n /\ b < n
      /\ \A i \in 1 .. n : input[i] \in Made
  BY <1>1
<1>k. PICK k \in Kinds : k = IF IsKey(input[b + 1]) THEN "I" ELSE "P"
  BY DEF Kinds
<1>o. PICK o : o = EncodeOrder(b)
  OBVIOUS
<1>3. /\ o \in Seq(Typed) /\ Len(o) = b + 1
      /\ o[1] = <<input[b + 1], k>>
      /\ \A i \in 2 .. b + 1 : o[i] = <<input[i - 1], "B">>
  <2>1. PICK v : v = <<<<input[b + 1], k>>>>
    OBVIOUS
  <2>2. PICK w : w = [i \in 1 .. b |-> <<input[i], "B">>]
    OBVIOUS
  <2>3. b + 1 \in 1 .. n /\ \A i \in 1 .. b : i \in 1 .. n
    BY <1>2
  <2>4. <<input[b + 1], k>> \in Typed /\ \A i \in 1 .. b : <<input[i], "B">> \in Typed
    BY <1>2, <2>3 DEF Typed, Kinds
  <2>5. v \in Seq(Typed) /\ Len(v) = 1 /\ v[1] = <<input[b + 1], k>>
    BY <2>1, <2>4
  <2>6. w \in Seq(Typed) /\ Len(w) = b /\ \A i \in 1 .. b : w[i] = <<input[i], "B">>
    BY <2>2, <2>4
  <2>7. o = v \o w
    BY <1>k, <1>o, <2>1, <2>2 DEF EncodeOrder
  <2>8. /\ v \o w \in Seq(Typed) /\ Len(v \o w) = 1 + b
        /\ (v \o w)[1] = v[1]
        /\ \A i \in 2 .. b + 1 : (v \o w)[i] = w[i - 1]
    <3>1. /\ v \o w \in Seq(Typed) /\ Len(v \o w) = Len(v) + Len(w)
          /\ \A i \in 1 .. Len(v) + Len(w) :
                (v \o w)[i] = IF i <= Len(v) THEN v[i] ELSE w[i - Len(v)]
      BY <2>5, <2>6, ConcatProperties
    <3>2. /\ v \o w \in Seq(Typed) /\ Len(v \o w) = 1 + b
          /\ \A i \in 1 .. 1 + b : (v \o w)[i] = IF i <= 1 THEN v[i] ELSE w[i - 1]
      BY <2>5, <2>6, <3>1, Zenon
    <3>3. /\ 1 \in 1 .. 1 + b /\ 1 <= 1
          /\ \A i \in 2 .. b + 1 : i \in 1 .. 1 + b /\ ~ (i <= 1)
      OBVIOUS
    <3>4. PICK c : c = v \o w
      OBVIOUS
    <3>5. (v \o w)[1] = v[1]
      BY <3>2, <3>3
    <3>6. ASSUME NEW i \in 2 .. b + 1 PROVE c[i] = w[i - 1]
      BY <3>2, <3>3, <3>4
    <3> QED
      BY <3>2, <3>4, <3>5, <3>6
  <2>9. \A i \in 2 .. b + 1 : i - 1 \in 1 .. b
    OBVIOUS
  <2> QED
    BY <2>5, <2>6, <2>7, <2>8, <2>9
<1>r. PICK r : r = Rest(b)
  OBVIOUS
<1>5. /\ r \in Seq(Made) /\ Len(r) = n - (b + 1)
      /\ \A i \in 1 .. n - (b + 1) : r[i] = input[i + (b + 1)]
  <2>1. r = SubSeq(input, b + 2, n)
    BY <1>1, <1>r DEF Rest
  <2>2. \A i \in b + 2 .. n : input[i] \in Made
    BY <1>2
  <2>3. /\ SubSeq(input, b + 2, n) \in Seq(Made)
        /\ Len(SubSeq(input, b + 2, n)) = IF b + 2 <= n THEN n - (b + 2) + 1 ELSE 0
        /\ \A i \in 1 .. n - (b + 2) + 1 : SubSeq(input, b + 2, n)[i] = input[(b + 2) + i - 1]
    <3>1. b + 2 \in Int /\ n \in Int
      BY <1>2
    <3> QED
      BY <2>2, <3>1, SubSeqProperties
  <2>4. n - (b + 2) + 1 = n - (b + 1) /\ (b + 2 <= n \/ n - (b + 1) = 0)
        /\ \A i \in 1 .. n - (b + 1) : (b + 2) + i - 1 = i + (b + 1)
    BY <1>2
  <2> QED
    BY <2>1, <2>3, <2>4
<1>6. /\ EncodeOrder(b) \in Seq(Typed) /\ Len(EncodeOrder(b)) = b + 1
      /\ EncodeOrder(b)[1] = <<input[b + 1], IF IsKey(input[b + 1]) THEN "I" ELSE "P">>
      /\ \A i \in 2 .. b + 1 : EncodeOrder(b)[i] = <<input[i - 1], "B">>
  BY <1>3, <1>k, <1>o, Zenon
<1>7. /\ Rest(b) \in Seq(Made) /\ Len(Rest(b)) = Len(input) - (b + 1)
      /\ \A i \in 1 .. Len(input) - (b + 1) : Rest(b)[i] = input[i + (b + 1)]
  BY <1>1, <1>5, <1>r, Zenon
<1> QED
  BY <1>6, <1>7

\* The pictures chosen, and those that stay, were in the input queue.
LEMMA ChooseFacts ==
    ASSUME NEW b \in Nat, b < Len(input), input \in Seq(Made)
    PROVE  /\ EncodeOrder(b) \in Seq(Typed) /\ Rest(b) \in Seq(Made)
           /\ Range(Pics(EncodeOrder(b))) \subseteq Queued /\ Range(Rest(b)) \subseteq Queued
           /\ IsInjective(input) =>
                 /\ IsInjective(Pics(EncodeOrder(b))) /\ IsInjective(Rest(b))
                 /\ Range(Pics(EncodeOrder(b))) \cap Range(Rest(b)) = {}
<1>1. PICK n \in Nat : n = Len(input)
  OBVIOUS
<1>2. /\ DOMAIN input = 1 .. n /\ b < n
      /\ \A i \in 1 .. n : input[i] \in Made
  BY <1>1
<1>o. PICK o : o = EncodeOrder(b)
  OBVIOUS
<1>r. PICK r : r = Rest(b)
  OBVIOUS
<1>3. /\ o \in Seq(Typed) /\ Len(o) = b + 1
      /\ o[1][1] = input[b + 1]
      /\ \A i \in 2 .. b + 1 : o[i][1] = input[i - 1]
  <2>1. /\ o \in Seq(Typed) /\ Len(o) = b + 1
        /\ o[1] = <<input[b + 1], IF IsKey(input[b + 1]) THEN "I" ELSE "P">>
        /\ \A i \in 2 .. b + 1 : o[i] = <<input[i - 1], "B">>
    BY <1>o, ChooseShape
  <2> QED
    BY <2>1
<1>5. /\ r \in Seq(Made) /\ DOMAIN r = 1 .. n - (b + 1)
      /\ \A i \in 1 .. n - (b + 1) : r[i] = input[i + (b + 1)]
  <2>1. r \in Seq(Made) /\ Len(r) = n - (b + 1)
    BY <1>1, <1>r, ChooseShape
  <2> QED
    BY <1>1, <1>r, <2>1, ChooseShape
\* where the picture at place i of the mini-GOP was
<1> DEFINE at(i) == IF i = 1 THEN b + 1 ELSE i - 1
<1>4. /\ DOMAIN Pics(o) = 1 .. b + 1
      /\ \A i \in 1 .. b + 1 : Pics(o)[i] = input[at(i)] /\ at(i) \in 1 .. b + 1
      /\ \A i, j \in 1 .. b + 1 : at(i) = at(j) => i = j
  <2>1. \A i \in 1 .. b + 1 : i = 1 \/ i \in 2 .. b + 1
    OBVIOUS
  <2>2. DOMAIN Pics(o) = 1 .. b + 1 /\ \A i \in 1 .. b + 1 : Pics(o)[i] = o[i][1]
    BY <1>3 DEF Pics
  <2>3. \A i \in 1 .. b + 1 : Pics(o)[i] = input[at(i)]
    BY <1>3, <2>1, <2>2
  <2> QED
    BY <2>2, <2>3
<1>6. /\ \A i \in 1 .. b + 1 : i \in 1 .. n
      /\ \A i \in 1 .. n - (b + 1) : i + (b + 1) \in 1 .. n /\ i + (b + 1) \notin 1 .. b + 1
  BY <1>2
<1>p. PICK p : p = Pics(o)
  OBVIOUS
<1> HIDE DEF at
<1>7. Range(p) \subseteq Queued /\ Range(r) \subseteq Queued
  <2>1. \A i \in 1 .. b + 1 : p[i] \in Queued
    BY <1>2, <1>4, <1>6, <1>p DEF Range, Queued
  <2>2. \A i \in 1 .. n - (b + 1) : r[i] \in Queued
    BY <1>2, <1>5, <1>6 DEF Range, Queued
  <2>3. Range(p) \subseteq Queued
    BY <1>4, <1>p, <2>1 DEF Range
  <2>4. Range(r) \subseteq Queued
    BY <1>5, <2>2 DEF Range
  <2> QED
    BY <2>3, <2>4
<1>8. ASSUME IsInjective(input)
      PROVE  IsInjective(p) /\ IsInjective(r) /\ Range(p) \cap Range(r) = {}
  <2>1. \A i, j \in 1 .. n : input[i] = input[j] => i = j
    BY <1>2, <1>8 DEF IsInjective
  <2>2. \A i, j \in 1 .. b + 1 : p[i] = p[j] => i = j
    <3> SUFFICES ASSUME NEW i \in 1 .. b + 1, NEW j \in 1 .. b + 1, p[i] = p[j] PROVE i = j
      OBVIOUS
    <3>1. /\ p[i] = input[at(i)] /\ at(i) \in 1 .. n
          /\ p[j] = input[at(j)] /\ at(j) \in 1 .. n
      BY <1>4, <1>6, <1>p
    <3>2. at(i) = at(j)
      BY <2>1, <3>1
    <3> QED
      BY <1>4, <3>2
  <2>3. \A i, j \in 1 .. n - (b + 1) : r[i] = r[j] => i = j
    <3> SUFFICES ASSUME NEW i \in 1 .. n - (b + 1), NEW j \in 1 .. n - (b + 1), r[i] = r[j]
                 PROVE  i = j
      OBVIOUS
    <3>1. i + (b + 1) = j + (b + 1)
      BY <1>5, <1>6, <2>1
    <3> QED
      BY <3>1
  <2>4. ASSUME NEW i \in 1 .. b + 1, NEW j \in 1 .. n - (b + 1), p[i] = r[j] PROVE FALSE
    <3>1. at(i) \in 1 .. n /\ at(i) \in 1 .. b + 1 /\ p[i] = input[at(i)]
      BY <1>4, <1>6, <1>p
    <3>2. j + (b + 1) \in 1 .. n /\ j + (b + 1) \notin 1 .. b + 1 /\ r[j] = input[j + (b + 1)]
      BY <1>5, <1>6
    <3> QED
      BY <2>1, <2>4, <3>1, <3>2
  <2>5. DOMAIN p = 1 .. b + 1 /\ DOMAIN r = 1 .. n - (b + 1)
    BY <1>4, <1>5, <1>p
  <2>6. IsInjective(p) /\ IsInjective(r)
    BY <2>2, <2>3, <2>5 DEF IsInjective
  <2>7. Range(p) \cap Range(r) = {}
    BY <2>4, <2>5 DEF Range
  <2> QED
    BY <2>6, <2>7
<1> QED
  BY <1>3, <1>5, <1>7, <1>8, <1>o, <1>p, <1>r

-----------------------------------------------------------------------------
(* Steps of the lookahead *)

\* The lesser and the greater of two numbers.
LEMMA MinMaxFacts ==
    ASSUME NEW a \in Int, NEW b \in Int
    PROVE  /\ Min({a, b}) \in {a, b} /\ Min({a, b}) <= a /\ Min({a, b}) <= b
           /\ Max({a, b}) \in {a, b} /\ Max({a, b}) >= a /\ Max({a, b}) >= b
<1>1. \E x \in {a, b} : \A y \in {a, b} : x <= y
  <2>1. CASE a <= b
    BY <2>1
  <2>2. CASE b <= a
    BY <2>2
  <2> QED
    BY <2>1, <2>2
<1>2. \E x \in {a, b} : \A y \in {a, b} : x >= y
  <2>1. CASE a >= b
    BY <2>1
  <2>2. CASE b >= a
    BY <2>2
  <2> QED
    BY <2>1, <2>2
<1>3. Min({a, b}) \in {a, b} /\ \A y \in {a, b} : Min({a, b}) <= y
  BY <1>1 DEF Min
<1>4. Max({a, b}) \in {a, b} /\ \A y \in {a, b} : Max({a, b}) >= y
  BY <1>2 DEF Max
<1> QED
  BY <1>3, <1>4

\* A step in which no picture joins those on their way leaves the DPB as it was.
LEMMA NoneJoins ==
    ASSUME ListInv, OnTheWay' \subseteq OnTheWay, UNCHANGED dpb
    PROVE  LastPicture' /\ ListsApart' /\ Counts' /\ InDPB'
<1> USE DEF dpb
<1>1. Free' = Free /\ Present' = Present /\ Owned' \subseteq Owned
  BY DEF Free, Present, Owned
<1>2. LastPicture' /\ InDPB'
  BY <1>1 DEF ListInv, LastPicture, InDPB
<1>3. ListsApart'
  BY <1>1 DEF ListInv, ListsApart
<1>4. Counts'
  BY <1>1, LessOwned
<1> QED
  BY <1>2, <1>3, <1>4

\* slicetypeDecide() takes the pictures of a mini-GOP out of the input queue.
LEMMA ListsChoose ==
    ASSUME ListInv, NEW t \in Deciders, Choose(t),
           UNCHANGED <<param, inHand, cur, dpb>>
    PROVE  ListInv'
<1>1. PICK b \in 0 .. Min({BFrames, Len(input) - 1}) :
         gop' = [gop EXCEPT ![t] = EncodeOrder(b)] /\ input' = Rest(b)
  BY DEF Choose
<1>2. input \in Seq(Made) /\ gop \in [Deciders -> Seq(Typed)] /\ BFrames \in Nat
      /\ IsInjective(input) /\ output' = output
  BY ParamsAssumption DEF ListInv, ListTypes, WayApart, BFrames, Choose
<1>3. b \in Nat /\ b < Len(input)
  <2>0. Len(input) \in Nat
    BY <1>2
  <2>1. PICK n \in Int : n = Len(input) - 1
    BY <2>0
  <2>b. PICK a \in Int : a = BFrames
    BY <1>2
  <2>2. Min({a, n}) <= n /\ Min({a, n}) \in {a, n}
    BY MinMaxFacts
  <2> QED
    BY <1>1, <2>0, <2>1, <2>b, <2>2
<1>o. PICK o : o = EncodeOrder(b)
  OBVIOUS
<1>4. /\ o \in Seq(Typed) /\ input' \in Seq(Made)
      /\ Range(Pics(o)) \subseteq Queued /\ Queued' \subseteq Queued
      /\ IsInjective(Pics(o)) /\ IsInjective(input')
      /\ Range(Pics(o)) \cap Queued' = {}
  BY <1>1, <1>2, <1>3, <1>o, ChooseFacts DEF Queued
<1>5. /\ gop'[t] = o
      /\ \A u \in Deciders : u # t => gop'[u] = gop[u]
      /\ gop' \in [Deciders -> Seq(Typed)]
  BY <1>1, <1>2, <1>4, <1>o
<1>6. Decided' = Decided /\ Handed' = Handed
  BY <1>2 DEF Decided, Handed, Pics
<1>7. /\ Chosen(t)' = Range(Pics(o))
      /\ \A u \in Deciders : u # t => Chosen(u)' = Chosen(u)
  BY <1>5 DEF Chosen, Pics
<1>8. OnTheWay' \subseteq OnTheWay
  BY <1>4, <1>6, <1>7 DEF OnTheWay
<1>9. ListTypes'
  BY <1>2, <1>4, <1>5 DEF ListInv, ListTypes, Made, Typed, dpb
<1>10. WayApart'
  <2>1. \A u \in Deciders : IsInjective(Pics(gop'[u]))
    BY <1>4, <1>5 DEF ListInv, WayApart
  <2>2. IsInjective(Pics(output'))
    BY <1>2 DEF ListInv, WayApart
  <2>3. Queued' \cap Decided' = {} /\ Queued' \cap Handed' = {} /\ Decided' \cap Handed' = {}
    BY <1>4, <1>6 DEF ListInv, WayApart
  <2>4. \A u \in Deciders : Chosen(u)' \cap (Queued' \cup Decided' \cup Handed') = {}
    BY <1>4, <1>6, <1>7 DEF ListInv, WayApart
  <2>5. \A u, w \in Deciders : u # w => Chosen(u)' \cap Chosen(w)' = {}
    BY <1>4, <1>7 DEF ListInv, WayApart
  <2>6. \A u \in Deciders : IsInjective(Pics(gop[u]))'
    BY <2>1 DEF Pics
  <2>7. IsInjective(Pics(output))'
    BY <2>2 DEF Pics
  <2> QED
    BY <1>4, <2>3, <2>4, <2>5, <2>6, <2>7 DEF WayApart
<1> QED
  BY <1>8, <1>9, <1>10, NoneJoins DEF ListInv

\* It puts them into the output queue, in encode order.
LEMMA ListsPush ==
    ASSUME ListInv, NEW t \in Deciders, PushOutput(t), UNCHANGED <<param, inHand, cur, dpb>>
    PROVE  ListInv'
<1>1. output' = output \o gop[t] /\ gop' = [gop EXCEPT ![t] = <<>>] /\ input' = input
  BY DEF PushOutput
<1>2. output \in Seq(Typed) /\ gop \in [Deciders -> Seq(Typed)] /\ gop[t] \in Seq(Typed)
  BY DEF ListInv, ListTypes
<1>g. PICK g \in Seq(Typed) : g = gop[t]
  BY <1>2
<1>3. output' \in Seq(Typed) /\ Pics(output') = Pics(output) \o Pics(g)
  <2>1. PICK T : T = Typed
    OBVIOUS
  <2>2. PICK v \in Seq(T) : v = output
    BY <1>2, <2>1
  <2>3. g \in Seq(T)
    BY <2>1
  <2>4. v \o g \in Seq(T) /\ Pics(v \o g) = Pics(v) \o Pics(g)
    BY <2>3, PicsConcat
  <2> QED
    BY <1>1, <1>g, <2>1, <2>2, <2>4
<1>4. Pics(output) \in Seq(Made) /\ Pics(g) \in Seq(Made)
  BY <1>2, <1>g, PicsFacts DEF Typed
<1>5. /\ IsInjective(Pics(output)) /\ IsInjective(Pics(g))
      /\ Decided = Range(Pics(output)) /\ Chosen(t) = Range(Pics(g))
      /\ Decided \cap Chosen(t) = {}
  BY <1>g DEF ListInv, WayApart, Decided, Chosen
<1>p. PICK p \in Seq(Made) : p = Pics(output)
  BY <1>4
<1>q. PICK q \in Seq(Made) : q = Pics(g)
  BY <1>4
<1>6. Range(p \o q) = Range(p) \cup Range(q) /\ IsInjective(p \o q)
  BY <1>5, <1>p, <1>q, ConcatFacts
<1>7. Decided' = Decided \cup Chosen(t) /\ IsInjective(Pics(output'))
  <2>1. Pics(output') = p \o q
    BY <1>3, <1>p, <1>q
  <2> QED
    BY <1>5, <1>6, <1>p, <1>q, <2>1 DEF Decided
<1>8. Queued' = Queued /\ Handed' = Handed
  BY <1>1 DEF Queued, Handed
<1>9. /\ gop'[t] = <<>> /\ \A u \in Deciders : u # t => gop'[u] = gop[u]
      /\ gop' \in [Deciders -> Seq(Typed)]
  <2>1. <<>> \in Seq(Typed)
    OBVIOUS
  <2>2. PICK T : T = Seq(Typed)
    OBVIOUS
  <2>3. gop \in [Deciders -> T] /\ <<>> \in T
    BY <1>2, <2>1, <2>2
  <2>4. gop' \in [Deciders -> T]
    BY <1>1, <2>3
  <2> QED
    BY <1>1, <1>2, <2>2, <2>4
<1>10. Pics(<<>>) = <<>> /\ Range(<<>>) = {} /\ IsInjective(<<>>)
  BY DEF Pics, Range, IsInjective
<1>11. Chosen(t)' = {} /\ \A u \in Deciders : u # t => Chosen(u)' = Chosen(u)
  BY <1>9, <1>10 DEF Chosen, Pics
<1>12. OnTheWay' \subseteq OnTheWay
  BY <1>7, <1>8, <1>11 DEF OnTheWay
<1>13. ListTypes'
  BY <1>1, <1>3, <1>9 DEF ListInv, ListTypes, Made, Typed, dpb
<1>14. WayApart'
  <2>1. \A u \in Deciders : IsInjective(Pics(gop[u]))'
    <3> SUFFICES ASSUME NEW u \in Deciders PROVE IsInjective(Pics(gop'[u]))
      BY DEF Pics
    <3>1. CASE u = t
      BY <1>9, <1>10, <3>1
    <3>2. CASE u # t
      <4>1. IsInjective(Pics(gop[u]))
        BY DEF ListInv, WayApart
      <4> QED
        BY <1>9, <3>2, <4>1
    <3> QED
      BY <3>1, <3>2
  <2>2. IsInjective(Pics(output))' /\ IsInjective(input)'
    BY <1>1, <1>7 DEF ListInv, WayApart, Pics
  <2>3. Queued' \cap Decided' = {} /\ Queued' \cap Handed' = {} /\ Decided' \cap Handed' = {}
    BY <1>7, <1>8 DEF ListInv, WayApart
  <2>4. \A u \in Deciders : Chosen(u)' \cap (Queued' \cup Decided' \cup Handed') = {}
    BY <1>7, <1>8, <1>11 DEF ListInv, WayApart
  <2>5. \A u, w \in Deciders : u # w => Chosen(u)' \cap Chosen(w)' = {}
    BY <1>11 DEF ListInv, WayApart
  <2> QED
    BY <2>1, <2>2, <2>3, <2>4, <2>5 DEF WayApart
<1> QED
  BY <1>12, <1>13, <1>14, NoneJoins DEF ListInv

-----------------------------------------------------------------------------
(* Steps of the API thread *)

\* The next picture comes after all others, and there are no more Frames than
\* pictures.
LEMMA NextPocFacts ==
    ASSUME ListInv
    PROVE  /\ NextPoc \in Int /\ created <= NextPoc
           /\ \A f \in Frames : poc[f] < NextPoc
<1>1. poc \in [Frames -> Int] /\ created \in Nat
  BY DEF ListInv, ListTypes
<1>2. PICK g \in Frames : created <= poc[g] + 1 /\ \A f \in Frames : poc[f] <= poc[g]
  BY DEF ListInv, LastPicture
<1>3. \A y \in Range(poc) : poc[g] >= y /\ y \in Int
  BY <1>1, <1>2 DEF Range
<1>4. poc[g] \in Range(poc)
  BY <1>1, <1>2 DEF Range
<1>5. Max(Range(poc)) \in Range(poc) /\ \A y \in Range(poc) : Max(Range(poc)) >= y
  BY <1>3, <1>4 DEF Max
<1>6. Max(Range(poc)) = poc[g]
  BY <1>3, <1>4, <1>5
<1> QED
  BY <1>1, <1>2, <1>6 DEF NextPoc

LEMMA SeqWider == ASSUME NEW S, NEW T, S \subseteq T, NEW q \in Seq(S) PROVE q \in Seq(T)
OBVIOUS

\* The pictures on their way, and those in the lists, are made.
LEMMA AllMade ==
    ASSUME ListInv
    PROVE  /\ Made \subseteq Frames
           /\ OnTheWay \subseteq Made /\ Free \subseteq Made /\ Present \subseteq Made
           /\ \A e \in FEs : frame[e] # 0 => frame[e] \in Made
<1>1. /\ created \in Nat /\ created <= MaxPics
      /\ input \in Seq(Made) /\ freeList \in Seq(Made) /\ picList \in Seq(Made)
      /\ output \in Seq(Typed) /\ gop \in [Deciders -> Seq(Typed)]
      /\ inHand = <<>> \/ inHand \in Typed
  BY DEF ListInv, ListTypes
<1>2. Made \subseteq Frames
  BY <1>1, PicsAssumption DEF Made, Frames
<1>3. Queued \subseteq Made /\ Free \subseteq Made /\ Present \subseteq Made
  BY <1>1 DEF Queued, Free, Present, Range
<1>4. Handed \subseteq Made
  BY <1>1 DEF Handed, Typed
<1>5. ASSUME NEW q \in Seq(Typed) PROVE Range(Pics(q)) \subseteq Made
  BY DEF Typed, Pics, Range
<1>6. Decided \subseteq Made /\ \A t \in Deciders : Chosen(t) \subseteq Made
  BY <1>1, <1>5 DEF Decided, Chosen
<1> QED
  BY <1>2, <1>3, <1>4, <1>6 DEF OnTheWay, ListInv, InDPB

\* create() puts a picture into a Frame that nobody has, and Frame::m_countRefEncoders
\* counts the encoder.
LEMMA ListsAdd ==
    ASSUME ListInv, AddPicture, UNCHANGED param
    PROVE  ListInv'
<1>1. PICK f : /\ f = IF freeList = <<>> THEN created + 1 ELSE Last(freeList)
               /\ created' = IF freeList = <<>> THEN created + 1 ELSE created
               /\ freeList' = IF freeList = <<>> THEN <<>> ELSE Front(freeList)
               /\ poc' = [poc EXCEPT ![f] = NextPoc]
               /\ count' = [count EXCEPT ![f] = @ + 1]
               /\ input' = Append(input, f)
  BY DEF AddPicture
<1>2. /\ UNCHANGED <<output, gop, inHand, cur, picList, frame, refs>> /\ NextPoc < MaxPics
  BY DEF AddPicture, deciding, picture
<1>3. /\ created \in Nat /\ created <= MaxPics /\ input \in Seq(Made) /\ freeList \in Seq(Made)
      /\ poc \in [Frames -> Int] /\ count \in [Frames -> Int]
      /\ IsInjective(input) /\ IsInjective(freeList)
  BY DEF ListInv, ListTypes, WayApart, ListsApart
<1>4. NextPoc \in Int /\ created <= NextPoc /\ \A g \in Frames : poc[g] < NextPoc
  BY NextPocFacts
<1>5. /\ Made \subseteq Frames /\ OnTheWay \subseteq Made /\ Free \subseteq Made
      /\ Present \subseteq Made /\ \A e \in FEs : frame[e] # 0 => frame[e] \in Made
  BY AllMade
<1>6. /\ f \in Made' /\ Made \subseteq Made'
      /\ created' \in Nat /\ created' <= MaxPics /\ created' <= NextPoc + 1
      /\ freeList' \in Seq(Made) /\ IsInjective(freeList')
      /\ Free' \subseteq Free /\ f \notin Free'
      /\ f \notin OnTheWay /\ f \notin Present
  <2>1. CASE freeList = <<>>
    <3>1. f = created + 1 /\ created' = created + 1 /\ freeList' = <<>>
      BY <1>1, <2>1
    <3>2. <<>> \in Seq(Made) /\ Range(<<>>) = {} /\ IsInjective(<<>>)
      BY DEF Range, IsInjective
    <3>3. f \in Made' /\ Made \subseteq Made' /\ f \notin Made
      BY <1>3, <3>1 DEF Made
    <3>4. created' \in Nat /\ created' <= MaxPics /\ created' <= NextPoc + 1
      BY <1>2, <1>3, <1>4, <3>1, PicsAssumption
    <3> QED
      BY <1>5, <3>1, <3>2, <3>3, <3>4 DEF Free
  <2>2. CASE freeList # <<>>
    <3>1. f = Last(freeList) /\ created' = created /\ freeList' = Front(freeList)
      BY <1>1, <2>2
    <3>2. /\ freeList' \in Seq(Made) /\ f \in Made /\ f \in Free /\ Free' \subseteq Free
          /\ IsInjective(freeList') /\ f \notin Free'
      BY <1>3, <2>2, <3>1, FrontFacts DEF Free
    <3>3. f \notin OnTheWay /\ f \notin Present
      BY <3>2 DEF ListInv, ListsApart
    <3>4. created' <= NextPoc + 1
      BY <1>3, <1>4, <3>1
    <3> QED
      BY <1>3, <3>1, <3>2, <3>3, <3>4 DEF Made
  <2> QED
    BY <2>1, <2>2
<1>7. Made' \subseteq Frames /\ f \in Frames
  BY <1>6, PicsAssumption DEF Made, Frames
<1>8. /\ input' \in Seq(Made') /\ Queued' = Queued \cup {f} /\ IsInjective(input')
  <2>1. input \in Seq(Made')
    BY <1>3, <1>6, SeqWider
  <2>2. f \notin Queued
    BY <1>6 DEF OnTheWay
  <2> QED
    BY <1>1, <1>3, <1>6, <2>1, <2>2, AppendFacts DEF Queued
<1>9. /\ Decided' = Decided /\ Handed' = Handed /\ Present' = Present
      /\ \A t \in Deciders : Chosen(t)' = Chosen(t)
      /\ \A h : Holders(h)' = Holders(h)
  BY <1>2 DEF Decided, Handed, Present, Chosen, Pics, Holders
<1>10. OnTheWay' = OnTheWay \cup {f}
  BY <1>8, <1>9 DEF OnTheWay
<1>11. /\ poc'[f] = NextPoc /\ \A g \in Frames : g # f => poc'[g] = poc[g]
       /\ count'[f] = count[f] + 1 /\ \A g \in Frames : g # f => count'[g] = count[g]
  BY <1>1, <1>3, <1>7
<1>12. ListTypes'
  <2>1. poc' \in [Frames -> Int] /\ count' \in [Frames -> Int]
    BY <1>1, <1>3, <1>4, <1>7
  <2>2. freeList' \in Seq(Made') /\ picList' \in Seq(Made')
    BY <1>2, <1>6, SeqWider DEF ListInv, ListTypes
  <2>3. Typed \subseteq Typed'
    BY <1>6 DEF Typed
  <2>4. output' \in Seq(Typed')
    BY <1>2, <2>3, SeqWider DEF ListInv, ListTypes
  <2>5. gop' \in [Deciders -> Seq(Typed')]
    BY <1>2, <2>3, SeqWider DEF ListInv, ListTypes
  <2>6. inHand' = <<>> \/ inHand' \in Typed'
    BY <1>2, <2>3 DEF ListInv, ListTypes
  <2>7. refs' \in [FEs -> SUBSET (Made' \X Int)]
    BY <1>2, <1>6 DEF ListInv, ListTypes
  <2>8. frame' \in [FEs -> Nat] /\ param' \in Params /\ cur' \in FEs
    BY <1>2 DEF ListInv, ListTypes
  <2> QED
    BY <1>6, <1>8, <2>1, <2>2, <2>4, <2>5, <2>6, <2>7, <2>8 DEF ListTypes
<1>13. LastPicture'
  <2>1. ASSUME NEW g \in Frames PROVE poc'[g] <= NextPoc
    <3>1. CASE g = f
      BY <1>4, <1>11, <3>1
    <3>2. CASE g # f
      <4>1. poc'[g] = poc[g] /\ poc[g] < NextPoc /\ poc[g] \in Int
        BY <1>3, <1>4, <1>11, <3>2
      <4> QED
        BY <1>4, <4>1
    <3> QED
      BY <3>1, <3>2
  <2>2. created' <= poc'[f] + 1
    BY <1>6, <1>11
  <2>3. \A g \in Frames : poc'[g] <= poc'[f]
    BY <1>11, <2>1
  <2> QED
    BY <1>7, <2>2, <2>3 DEF LastPicture
<1>14. WayApart'
  <2>1. /\ IsInjective(Pics(output))' /\ \A t \in Deciders : IsInjective(Pics(gop[t]))'
    BY <1>2 DEF ListInv, WayApart, Pics
  <2>2. f \notin Decided /\ f \notin Handed /\ \A t \in Deciders : f \notin Chosen(t)
    BY <1>6 DEF OnTheWay
  <2> QED
    BY <1>8, <1>9, <2>1, <2>2 DEF ListInv, WayApart
<1>15. ListsApart'
  <2>1. IsInjective(picList)'
    BY <1>2 DEF ListInv, ListsApart
  <2> QED
    BY <1>6, <1>9, <1>10, <2>1 DEF ListInv, ListsApart
<1>16. Counts'
  <2>1. Owned' = Owned \cup {f}
    BY <1>2, <1>10 DEF Owned
  <2> SUFFICES ASSUME NEW g \in Frames
               PROVE  /\ Cardinality(Holders(g)) <= count'[g]
                      /\ g \in Owned' => Cardinality(Holders(g)) + 1 <= count'[g]
    BY <1>9 DEF Counts
  <2>2. Cardinality(Holders(g)) \in Nat /\ count[g] \in Int
    BY <1>3, HoldersFinite
  <2>3. Cardinality(Holders(g)) <= count[g]
        /\ (g \in Owned => Cardinality(Holders(g)) + 1 <= count[g])
    BY DEF ListInv, Counts
  <2>4. CASE g = f
    BY <1>11, <2>2, <2>3, <2>4
  <2>5. CASE g # f
    BY <1>11, <2>1, <2>3, <2>5
  <2> QED
    BY <2>4, <2>5
<1>17. InDPB'
  <2>1. \A h \in Present : h # f /\ h \in Frames
    BY <1>5, <1>6
  <2> QED
    BY <1>2, <1>9, <1>11, <2>1 DEF ListInv, InDPB
<1> QED
  BY <1>12, <1>13, <1>14, <1>15, <1>16, <1>17 DEF ListInv

\* getEncodedPicture() gives a picture back, and recycleUnreferenced() moves to
\* the free list what nobody counts on.
LEMMA ListsRecycle ==
    ASSUME ListInv, UNCHANGED <<way, created, poc, refs, cur>>, frame[cur] # 0,
           frame' = [frame EXCEPT ![cur] = 0],
           count' = [count EXCEPT ![frame[cur]] = @ - 1], Recycle(count')
    PROVE  ListInv'
<1> USE DEF way
<1>1. /\ cur \in FEs /\ frame \in [FEs -> Nat] /\ count \in [Frames -> Int]
      /\ picList \in Seq(Made) /\ freeList \in Seq(Made)
      /\ IsInjective(picList) /\ IsInjective(freeList) /\ Free \cap Present = {}
  BY DEF ListInv, ListTypes, ListsApart
<1>2. PICK x : x = frame[cur]
  OBVIOUS
<1>3. /\ Made \subseteq Frames /\ OnTheWay \subseteq Made /\ Free \subseteq Made
      /\ Present \subseteq Made /\ Made' = Made
  BY AllMade DEF Made
<1>4. x \in Present /\ x \in Frames /\ x \notin OnTheWay /\ x # 0
  BY <1>1, <1>2, <1>3 DEF ListInv, InDPB, ListsApart
<1>5. /\ frame'[cur] = 0 /\ \A e \in FEs : e # cur => frame'[e] = frame[e]
      /\ \A e \in FEs : e # cur => frame[e] # x
      /\ frame' \in [FEs -> Nat] /\ count' \in [Frames -> Int]
      /\ count'[x] = count[x] - 1 /\ \A f \in Frames : f # x => count'[f] = count[f]
  <2>1. \A e \in FEs : e # cur => frame[e] # x
    BY <1>1, <1>2, <1>4 DEF ListInv, InDPB
  <2> QED
    BY <1>1, <1>2, <1>4, <2>1
<1>6. /\ OnTheWay' = OnTheWay /\ Queued' = Queued /\ Decided' = Decided /\ Handed' = Handed
      /\ \A t \in Deciders : Chosen(t)' = Chosen(t)
      /\ \A f : Holders(f)' = Holders(f)
  BY DEF OnTheWay, Queued, Decided, Handed, Chosen, Pics, Holders
<1>7. Counts'
  <2> SUFFICES ASSUME NEW f \in Frames
               PROVE  /\ Cardinality(Holders(f)) <= count'[f]
                      /\ f \in Owned' => Cardinality(Holders(f)) + 1 <= count'[f]
    BY <1>6 DEF Counts
  <2>1. /\ Cardinality(Holders(f)) \in Nat /\ count[f] \in Int
        /\ Cardinality(Holders(f)) <= count[f]
        /\ f \in Owned => Cardinality(Holders(f)) + 1 <= count[f]
    BY <1>1, HoldersFinite DEF ListInv, Counts
  <2>2. CASE f = x
    <3>1. x \in Owned /\ x \notin Owned'
      BY <1>1, <1>2, <1>4, <1>5, <1>6 DEF Owned
    <3> QED
      BY <1>5, <2>1, <2>2, <3>1
  <2>3. CASE f # x
    <3>1. f \in Owned' => f \in Owned
      <4>1. f # 0
        BY DEF Frames
      <4> QED
        BY <1>1, <1>5, <1>6, <4>1 DEF Owned
    <3> QED
      BY <1>5, <2>1, <2>3, <3>1
  <2> QED
    BY <2>2, <2>3
\* the pictures that go
<1>u. PICK U : U = {f \in Frames : Unused(f, count')}
  OBVIOUS
<1>v. PICK V : V = {f \in Frames : ~Unused(f, count')}
  OBVIOUS
<1>8. \A f \in U : f \notin Owned' /\ Holders(f) = {}
  <2> SUFFICES ASSUME NEW f \in U PROVE f \notin Owned' /\ Holders(f) = {}
    OBVIOUS
  <2>1. f \in Frames /\ count'[f] = 0
    BY <1>u DEF Unused
  <2>2. /\ Cardinality(Holders(f)) <= count'[f]
        /\ f \in Owned' => Cardinality(Holders(f)) + 1 <= count'[f]
    BY <1>6, <1>7, <2>1 DEF Counts
  <2>3. IsFiniteSet(Holders(f)) /\ Cardinality(Holders(f)) \in Nat
    BY HoldersFinite
  <2>4. Cardinality(Holders(f)) = 0 /\ f \notin Owned'
    BY <2>1, <2>2, <2>3
  <2> QED
    BY <2>3, <2>4, FS_EmptySet
<1>l. PICK l \in Seq(Made) : l = picList
  BY <1>1
<1>9. /\ picList' \in Seq(Made) /\ IsInjective(picList') /\ Present' = Present \cap V
  <2>1. picList' = Select(l, V)
    BY <1>1, <1>l, <1>v DEF Recycle
  <2>2. /\ Select(l, V) \in Seq(Made) /\ Range(Select(l, V)) = Range(l) \cap V
        /\ IsInjective(l) => IsInjective(Select(l, V))
    BY SelectFacts
  <2> QED
    BY <1>1, <1>l, <2>1, <2>2 DEF Present
<1>g. PICK g \in Seq(Made) : g = Select(picList, U)
  BY <1>l, SelectFacts
<1>10. /\ g \in Seq(Made) /\ IsInjective(g) /\ Range(g) = Present \cap U
       /\ freeList' = freeList \o g
  <2>1. freeList' = freeList \o g /\ g = Select(l, U)
    BY <1>1, <1>g, <1>l, <1>u DEF Recycle
  <2>2. /\ Range(Select(l, U)) = Range(l) \cap U
        /\ IsInjective(l) => IsInjective(Select(l, U))
    BY SelectFacts
  <2> QED
    BY <1>1, <1>l, <2>1, <2>2 DEF Present
<1>11. /\ freeList' \in Seq(Made) /\ IsInjective(freeList') /\ Free' = Free \cup (Present \cap U)
  <2>1. PICK v \in Seq(Made) : v = freeList
    BY <1>1
  <2>2. IsInjective(v) /\ Range(v) = Free /\ Range(v) \cap Range(g) = {}
    BY <1>1, <1>10, <2>1 DEF Free
  <2>3. v \o g \in Seq(Made) /\ Range(v \o g) = Range(v) \cup Range(g) /\ IsInjective(v \o g)
    BY <1>10, <2>2, ConcatFacts
  <2> QED
    BY <1>10, <2>1, <2>2, <2>3 DEF Free
<1>12. U \cap V = {} /\ \A f \in Frames : f \in U \/ f \in V
  BY <1>u, <1>v
<1>13. ListTypes'
  BY <1>3, <1>5, <1>9, <1>11 DEF ListInv, ListTypes, Typed
<1>14. LastPicture'
  BY DEF ListInv, LastPicture
<1>15. WayApart'
  BY <1>6 DEF ListInv, WayApart, Pics
<1>16. ListsApart'
  BY <1>1, <1>6, <1>9, <1>11, <1>12 DEF ListInv, ListsApart
<1>17. InDPB'
  <2>1. \A e \in FEs : frame'[e] # 0 => e # cur /\ frame'[e] = frame[e] /\ frame[e] \in Present
    BY <1>1, <1>5 DEF ListInv, InDPB
  <2>2. \A e \in FEs : frame'[e] \in Owned'
    BY DEF Owned
  <2>3. \A e \in FEs : frame'[e] # 0 => frame'[e] \in Present'
    BY <1>3, <1>8, <1>9, <1>12, <2>1, <2>2
  <2>4. ASSUME NEW e \in FEs, NEW r \in refs[e] PROVE r[1] \in Present' /\ poc[r[1]] = r[2]
    <3>1. e \in Holders(r[1])
      BY DEF Holders
    <3>2. r[1] \in Present /\ poc[r[1]] = r[2]
      BY DEF ListInv, InDPB
    <3> QED
      BY <1>3, <1>8, <1>9, <1>12, <3>1, <3>2
  <2>5. \A d, e \in FEs : frame'[d] = frame'[e] /\ frame'[e] # 0 => d = e
    BY <2>1 DEF ListInv, InDPB
  <2> QED
    BY <2>3, <2>4, <2>5 DEF InDPB
<1> QED
  BY <1>7, <1>13, <1>14, <1>15, <1>16, <1>17 DEF ListInv

\* prepareEncode() refers to pictures of the picture list.
LEMMA RefPicsPresent ==
    ASSUME ListInv, NEW f, NEW k \in Kinds
    PROVE  RefPics(f, k) \subseteq Present
<1>1. RPS(f, k) \subseteq Present
  <2>1. PICK S : S = {g \in Frames : Marked(f, k)[g]}
    OBVIOUS
  <2>2. PICK l \in Seq(Made) : l = picList
    BY DEF ListInv, ListTypes
  <2>3. PICK all \in Seq(Made) : all = Select(l, S) /\ Range(all) = Range(l) \cap S
    BY SelectFacts
  <2>4. PICK n \in Nat : n = Len(all)
    OBVIOUS
  <2>5. MaxDec - 1 \in Int
    <3>m. \A x, y \in Int : Min({x, y}) \in Int /\ Max({x, y}) \in Int
      <4> SUFFICES ASSUME NEW x \in Int, NEW y \in Int
                   PROVE  Min({x, y}) \in Int /\ Max({x, y}) \in Int
        OBVIOUS
      <4>1. Min({x, y}) \in {x, y} /\ Max({x, y}) \in {x, y}
        BY MinMaxFacts
      <4> QED
        BY <4>1
    <3>1. BFrames \in Int /\ MaxRef \in Int
      BY ParamsAssumption, ThreadsAssumption DEF ListInv, ListTypes, BFrames
    <3>2. PICK r \in Int : r = NumReorder
      BY <3>1, <3>m DEF NumReorder
    <3>a. PICK a \in Int : a = r + 2
      OBVIOUS
    <3>3. PICK x \in Int : x = Max({r + 2, MaxRef})
      BY <3>1, <3>a, <3>m
    <3>4. PICK y \in Int : y = Min({16, x + r})
      BY <3>m
    <3>5. MaxDec = y
      BY <3>2, <3>3, <3>4 DEF MaxDec
    <3> QED
      BY <3>5
  <2>m. PICK m \in Int : m = MaxDec - 1
    BY <2>5
  <2>6. PICK u \in Int : u = Min({Len(all), MaxDec - 1}) /\ u <= n
    <3>1. n \in Int
      OBVIOUS
    <3>2. Min({n, m}) \in {n, m} /\ Min({n, m}) <= n
      BY <3>1, MinMaxFacts
    <3> QED
      BY <2>4, <2>m, <3>2
  <2>7. \A i \in 1 .. u : i \in 1 .. n /\ all[i] \in Made
    BY <2>4, <2>6
  <2>8. PICK s : s = SubSeq(all, 1, u)
    OBVIOUS
  <2>9. s \in Seq(Made) /\ \A i \in DOMAIN s : i \in 1 .. u /\ s[i] = all[i]
    <3>1. /\ s \in Seq(Made)
          /\ Len(s) = IF 1 <= u THEN u - 1 + 1 ELSE 0
          /\ \A i \in 1 .. u - 1 + 1 : s[i] = all[1 + i - 1]
      BY <2>7, <2>8, SubSeqProperties
    <3>2. DOMAIN s = 1 .. Len(s)
      BY <3>1
    <3>3. ASSUME NEW i \in DOMAIN s PROVE i \in 1 .. u /\ s[i] = all[i]
      <4>1. i \in 1 .. u /\ i \in 1 .. u - 1 + 1 /\ 1 + i - 1 = i
        BY <3>1, <3>2
      <4> QED
        BY <3>1, <4>1
    <3> QED
      BY <3>1, <3>3
  <2>10. Range(s) \subseteq Range(all)
    <3>1. DOMAIN all = 1 .. n
      BY <2>4
    <3> QED
      BY <2>7, <2>9, <3>1 DEF Range
  <2>11. RPS(f, k) = Range(s)
    BY <2>1, <2>2, <2>3, <2>6, <2>8 DEF RPS
  <2> QED
    BY <2>2, <2>3, <2>10, <2>11 DEF Present
<1>2. \A S, n : Nearest(S, f, n) \subseteq S
  BY DEF Nearest
<1>3. CASE k = "I"
  BY <1>3 DEF RefPics
<1>4. CASE k = "P"
  BY <1>1, <1>2, <1>4 DEF RefPics
<1>5. CASE k = "B"
  BY <1>1, <1>2, <1>5 DEF RefPics
<1> QED
  BY <1>3, <1>4, <1>5 DEF Kinds

\* An encoder refers to other pictures, or to none: one more or less is counted.
LEMMA HolderJoins ==
    ASSUME ListInv, NEW e \in FEs, NEW f, Holders(f)' \subseteq Holders(f) \cup {e}
    PROVE  /\ Cardinality(Holders(f)') \in Nat
           /\ Cardinality(Holders(f)') <= Cardinality(Holders(f)) + 1
<1>1. PICK H : H = Holders(f) /\ IsFiniteSet(H) /\ Cardinality(H) \in Nat
  BY HoldersFinite
<1>2. /\ IsFiniteSet(H \cup {e})
      /\ Cardinality(H \cup {e}) = IF e \in H THEN Cardinality(H) ELSE Cardinality(H) + 1
  BY <1>1, FS_AddElement
<1>3. Cardinality(Holders(f)') <= Cardinality(H \cup {e}) /\ Cardinality(Holders(f)') \in Nat
  <2>1. PICK J : J = Holders(f)'
    OBVIOUS
  <2>2. J \in SUBSET (H \cup {e})
    BY <1>1, <2>1
  <2>3. IsFiniteSet(J) /\ Cardinality(J) <= Cardinality(H \cup {e})
    BY <1>2, <2>2, FS_Subset
  <2> QED
    BY <2>1, <2>3, FS_CardinalityType
<1> QED
  BY <1>1, <1>2, <1>3

LEMMA HoldersLess ==
    ASSUME ListInv, NEW f, Holders(f)' \subseteq Holders(f)
    PROVE  /\ Cardinality(Holders(f)') \in Nat
           /\ Cardinality(Holders(f)') <= Cardinality(Holders(f))
<1>1. PICK H : H = Holders(f) /\ IsFiniteSet(H) /\ Cardinality(H) \in Nat
  BY HoldersFinite
<1>2. PICK J : J = Holders(f)'
  OBVIOUS
<1>3. Cardinality(J) <= Cardinality(H) /\ Cardinality(J) \in Nat
  BY <1>1, <1>2, FS_Subset, FS_CardinalityType
<1> QED
  BY <1>1, <1>2, <1>3

\* startCompressFrame(): the picture goes from the API thread to the DPB and to
\* an encoder, which counts on those it refers to.
LEMMA ListsStart ==
    ASSUME ListInv, StartFrame, UNCHANGED param
    PROVE  ListInv'
<1>1. PICK f : f = inHand[1]
  OBVIOUS
<1>2. PICK k : k = inHand[2]
  OBVIOUS
<1>3. /\ inHand # <<>> /\ inHand \in Typed /\ f \in Made /\ k \in Kinds /\ Handed = {f}
  BY <1>1, <1>2 DEF StartFrame, ListInv, ListTypes, Typed, Handed
<1>4. PICK used : used = RefPics(f, k)
  OBVIOUS
<1>5. /\ picList' = <<f>> \o picList
      /\ count' = [g \in Frames |-> IF g \in used THEN count[g] + 1 ELSE count[g]]
      /\ refs' = [refs EXCEPT ![cur] = {<<g, poc[g]>> : g \in used}]
      /\ frame' = [frame EXCEPT ![cur] = f]
      /\ inHand' = <<>> /\ cur' = (cur + 1) % NumThreads
      /\ UNCHANGED <<poc, input, output, gop, created, freeList>>
  BY <1>1, <1>2, <1>4 DEF StartFrame, PrepareEncode, Return, lookahead, queues, deciding
<1>6. /\ cur \in FEs /\ frame \in [FEs -> Nat] /\ refs \in [FEs -> SUBSET (Made \X Int)]
      /\ picList \in Seq(Made) /\ IsInjective(picList)
      /\ poc \in [Frames -> Int] /\ count \in [Frames -> Int]
  BY DEF ListInv, ListTypes, ListsApart
<1>7. /\ Made \subseteq Frames /\ Made' = Made /\ Typed' = Typed /\ Present \subseteq Made
  BY <1>5, AllMade DEF Made, Typed
<1>8. used \subseteq Present
  BY <1>3, <1>4, RefPicsPresent
<1>9. f \in OnTheWay /\ f \notin Present /\ f \notin Free /\ f # 0
  BY <1>3, <1>7 DEF OnTheWay, ListInv, ListsApart, Frames
<1>10. /\ picList' \in Seq(Made) /\ IsInjective(picList') /\ Present' = Present \cup {f}
  <2>0. f \in Made
    BY <1>3
  <2>1. PICK v : v = <<f>>
    OBVIOUS
  <2>2. v \in Seq(Made) /\ Range(v) = {f} /\ IsInjective(v)
    BY <2>0, <2>1 DEF Range, IsInjective
  <2>3. PICK l \in Seq(Made) : l = picList
    BY <1>6
  <2>4. IsInjective(l) /\ Range(l) = Present /\ Range(v) \cap Range(l) = {}
    BY <1>6, <1>9, <2>2, <2>3 DEF Present
  <2>5. v \o l \in Seq(Made) /\ Range(v \o l) = Range(v) \cup Range(l) /\ IsInjective(v \o l)
    BY <2>2, <2>4, ConcatFacts
  <2> QED
    BY <1>5, <2>1, <2>2, <2>3, <2>4, <2>5 DEF Present
<1>11. /\ Queued' = Queued /\ Decided' = Decided /\ Free' = Free /\ Handed' = {}
       /\ \A t \in Deciders : Chosen(t)' = Chosen(t)
  BY <1>5 DEF Queued, Decided, Free, Handed, Chosen, Pics
<1>12. OnTheWay' \subseteq OnTheWay /\ f \notin OnTheWay'
  BY <1>3, <1>11 DEF OnTheWay, ListInv, WayApart
<1>13. /\ frame'[cur] = f /\ \A e \in FEs : e # cur => frame'[e] = frame[e]
       /\ refs'[cur] = {<<g, poc[g]>> : g \in used}
       /\ \A e \in FEs : e # cur => refs'[e] = refs[e]
       /\ frame' \in [FEs -> Nat]
  BY <1>3, <1>5, <1>6 DEF Made
<1>14. refs' \in [FEs -> SUBSET (Made \X Int)]
  <2>1. {<<g, poc[g]>> : g \in used} \subseteq Made \X Int
    BY <1>6, <1>7, <1>8
  <2> QED
    BY <1>5, <1>6, <2>1
<1>15. ListTypes'
  <2>1. cur' \in FEs
    BY <1>5, <1>6, NextEncoder
  <2>2. count' \in [Frames -> Int]
    BY <1>5, <1>6
  <2> QED
    BY <1>5, <1>7, <1>10, <1>13, <1>14, <2>1, <2>2 DEF ListInv, ListTypes
<1>16. LastPicture'
  BY <1>5 DEF ListInv, LastPicture
<1>17. WayApart'
  <2>1. /\ IsInjective(Pics(output))' /\ \A t \in Deciders : IsInjective(Pics(gop[t]))'
        /\ IsInjective(input)'
    BY <1>5 DEF ListInv, WayApart, Pics
  <2> QED
    BY <1>11, <2>1 DEF ListInv, WayApart
<1>18. ListsApart'
  <2>1. IsInjective(freeList)'
    BY <1>5 DEF ListInv, ListsApart
  <2> QED
    BY <1>9, <1>10, <1>11, <1>12, <2>1 DEF ListInv, ListsApart
<1>19. Counts'
  <2> SUFFICES ASSUME NEW g \in Frames
               PROVE  /\ Cardinality(Holders(g)') <= count'[g]
                      /\ g \in Owned' => Cardinality(Holders(g)') + 1 <= count'[g]
    BY DEF Counts
  <2>1. g \in Owned' => g \in Owned
    BY <1>9, <1>12, <1>13 DEF Owned
  <2>2. /\ Cardinality(Holders(g)) \in Nat /\ count[g] \in Int
        /\ Cardinality(Holders(g)) <= count[g]
        /\ g \in Owned => Cardinality(Holders(g)) + 1 <= count[g]
    BY <1>6, HoldersFinite DEF ListInv, Counts
  <2>4. CASE g \in used
    <3>1. count'[g] = count[g] + 1
      BY <1>5, <2>4
    <3>2. Holders(g)' \subseteq Holders(g) \cup {cur}
      BY <1>13 DEF Holders
    <3>3. /\ Cardinality(Holders(g)') \in Nat
          /\ Cardinality(Holders(g)') <= Cardinality(Holders(g)) + 1
      BY <1>6, <3>2, HolderJoins
    <3> QED
      BY <2>1, <2>2, <3>1, <3>3
  <2>5. CASE g \notin used
    <3>1. count'[g] = count[g]
      BY <1>5, <2>5
    <3>2. Holders(g)' \subseteq Holders(g)
      BY <1>13, <2>5 DEF Holders
    <3>3. /\ Cardinality(Holders(g)') \in Nat
          /\ Cardinality(Holders(g)') <= Cardinality(Holders(g))
      BY <3>2, HoldersLess
    <3> QED
      BY <2>1, <2>2, <3>1, <3>3
  <2> QED
    BY <2>4, <2>5
<1>20. InDPB'
  <2>1. \A e \in FEs : frame'[e] # 0 => frame'[e] \in Present'
    BY <1>10, <1>13 DEF ListInv, InDPB
  <2>2. \A d, e \in FEs : frame'[d] = frame'[e] /\ frame'[e] # 0 => d = e
    BY <1>9, <1>13 DEF ListInv, InDPB
  <2>3. ASSUME NEW e \in FEs, NEW r \in refs'[e] PROVE r[1] \in Present' /\ poc'[r[1]] = r[2]
    <3>1. CASE e = cur
      BY <1>5, <1>8, <1>10, <1>13, <2>3, <3>1
    <3>2. CASE e # cur
      BY <1>5, <1>10, <1>13, <2>3, <3>2 DEF ListInv, InDPB
    <3> QED
      BY <3>1, <3>2
  <2> QED
    BY <2>1, <2>2, <2>3 DEF InDPB
<1> QED
  BY <1>15, <1>16, <1>17, <1>18, <1>19, <1>20 DEF ListInv

-----------------------------------------------------------------------------
(* Steps of the frame encoders, and of closing *)

\* The end of compressFrame() counts itself out of its references.
LEMMA ListsRelease ==
    ASSUME ListInv, NEW e \in FEs, Release(e), UNCHANGED param
    PROVE  ListInv'
<1>1. /\ count' = [f \in Frames |-> IF \E r \in refs[e] : r[1] = f THEN count[f] - 1 ELSE count[f]]
      /\ refs' = [refs EXCEPT ![e] = {}]
      /\ UNCHANGED <<way, created, poc, freeList, picList, frame, cur>>
  BY DEF Release, lookahead, caller, lists, queues, deciding, way
<1>2. /\ refs \in [FEs -> SUBSET (Made \X Int)] /\ count \in [Frames -> Int]
  BY DEF ListInv, ListTypes
<1>3. refs'[e] = {} /\ \A d \in FEs : d # e => refs'[d] = refs[d]
  BY <1>1, <1>2
<1>4. /\ Queued' = Queued /\ Decided' = Decided /\ Handed' = Handed
      /\ Free' = Free /\ Present' = Present /\ OnTheWay' = OnTheWay /\ Owned' = Owned
      /\ \A t \in Deciders : Chosen(t)' = Chosen(t)
  BY <1>1 DEF Queued, Decided, Handed, OnTheWay, Chosen, Free, Present, Owned, Pics, way
<1>5. ListTypes'
  <2>1. count' \in [Frames -> Int]
    BY <1>1, <1>2
  <2>2. Made' = Made /\ Typed' = Typed
    BY <1>1 DEF Made, Typed
  <2>3. refs' \in [FEs -> SUBSET (Made' \X Int)]
    BY <1>1, <1>2, <2>2
  <2> QED
    BY <1>1, <2>1, <2>2, <2>3 DEF ListInv, ListTypes, way
<1>6. LastPicture'
  BY <1>1 DEF ListInv, LastPicture
<1>7. WayApart'
  <2>1. /\ IsInjective(input)' /\ IsInjective(Pics(output))'
        /\ \A t \in Deciders : IsInjective(Pics(gop[t]))'
    BY <1>1 DEF ListInv, WayApart, Pics, way
  <2> QED
    BY <1>4, <2>1 DEF ListInv, WayApart
<1>8. ListsApart'
  BY <1>1, <1>4 DEF ListInv, ListsApart
<1>9. Counts'
  <2> SUFFICES ASSUME NEW f \in Frames
               PROVE  /\ Cardinality(Holders(f)') <= count'[f]
                      /\ f \in Owned => Cardinality(Holders(f)') + 1 <= count'[f]
    BY <1>4 DEF Counts
  <2>1. /\ Cardinality(Holders(f)) \in Nat /\ IsFiniteSet(Holders(f)) /\ count[f] \in Int
        /\ Cardinality(Holders(f)) <= count[f]
        /\ f \in Owned => Cardinality(Holders(f)) + 1 <= count[f]
    BY <1>2, HoldersFinite DEF ListInv, Counts
  <2>2. CASE e \in Holders(f)
    <3>1. count'[f] = count[f] - 1
      BY <1>1, <2>2 DEF Holders
    <3>2. Holders(f)' = Holders(f) \ {e}
      BY <1>3 DEF Holders
    <3>3. Cardinality(Holders(f) \ {e}) = Cardinality(Holders(f)) - 1
      BY <2>1, <2>2, FS_RemoveElement
    <3> QED
      BY <2>1, <3>1, <3>2, <3>3
  <2>3. CASE e \notin Holders(f)
    <3>1. count'[f] = count[f]
      BY <1>1, <2>3 DEF Holders
    <3>2. Holders(f)' = Holders(f)
      BY <1>3, <2>3 DEF Holders
    <3> QED
      BY <2>1, <3>1, <3>2
  <2> QED
    BY <2>2, <2>3
<1>10. InDPB'
  BY <1>1, <1>3, <1>4 DEF ListInv, InDPB
<1> QED
  BY <1>5, <1>6, <1>7, <1>8, <1>9, <1>10 DEF ListInv

\* stopJobs() takes the picture of an encoder away.
LEMMA ListsStopEncoder ==
    ASSUME ListInv, StopFrameEncoder, UNCHANGED param
    PROVE  ListInv'
<1>1. /\ frame' = [frame EXCEPT ![cur] = 0]
      /\ UNCHANGED <<way, created, poc, count, freeList, picList, refs, cur>>
  BY DEF StopFrameEncoder, lookahead, buffer, lists, queues, deciding, way
<1>2. cur \in FEs /\ frame \in [FEs -> Nat]
  BY DEF ListInv, ListTypes
<1>3. frame'[cur] = 0 /\ \A e \in FEs : e # cur => frame'[e] = frame[e]
  BY <1>1, <1>2
<1>4. /\ Queued' = Queued /\ Decided' = Decided /\ Handed' = Handed
      /\ Free' = Free /\ Present' = Present /\ OnTheWay' = OnTheWay
      /\ \A t \in Deciders : Chosen(t)' = Chosen(t)
      /\ \A f : Holders(f)' = Holders(f)
  BY <1>1 DEF Queued, Decided, Handed, OnTheWay, Chosen, Free, Present, Holders, Pics, way
<1>5. ListTypes'
  <2>1. Made' = Made /\ Typed' = Typed /\ frame' \in [FEs -> Nat]
    BY <1>1, <1>2 DEF Made, Typed
  <2> QED
    BY <1>1, <2>1 DEF ListInv, ListTypes, way
<1>6. LastPicture'
  BY <1>1 DEF ListInv, LastPicture
<1>7. WayApart'
  <2>1. /\ IsInjective(input)' /\ IsInjective(Pics(output))'
        /\ \A t \in Deciders : IsInjective(Pics(gop[t]))'
    BY <1>1 DEF ListInv, WayApart, Pics, way
  <2> QED
    BY <1>4, <2>1 DEF ListInv, WayApart
<1>8. ListsApart'
  BY <1>1, <1>4 DEF ListInv, ListsApart
<1>9. Counts'
  <2>1. ASSUME NEW f \in Frames, f \in Owned' PROVE f \in Owned
    <3>1. f # 0
      BY DEF Frames
    <3> QED
      BY <1>3, <1>4, <2>1, <3>1 DEF Owned
  <2> QED
    BY <1>1, <1>4, <2>1 DEF ListInv, Counts
<1>10. InDPB'
  BY <1>1, <1>2, <1>3, <1>4 DEF ListInv, InDPB
<1> QED
  BY <1>5, <1>6, <1>7, <1>8, <1>9, <1>10 DEF ListInv

LEMMA ListsStep == ListInv /\ [Next]_vars => ListInv'
<1> SUFFICES ASSUME ListInv, [Next]_vars PROVE ListInv'
  OBVIOUS
<1>p. UNCHANGED param /\ cur \in FEs /\ 0 \in FEs
  BY ThreadsAssumption DEF Next, Runs, vars, ListInv, ListTypes, FEs
<1>1. CASE AddPicture
  BY <1>1, <1>p, ListsAdd
<1>2. CASE StartFrame
  BY <1>2, <1>p, ListsStart
<1>3. CASE GetEncoded
  <2>1. UNCHANGED <<way, created, poc, refs, cur>>
    BY <1>3, <1>p DEF GetEncoded, lookahead, queues, deciding, way
  <2>2. CASE UNCHANGED <<picList, freeList, count, frame>>
    BY <1>p, <2>1, <2>2, ListsKept DEF dpb
  <2>3. CASE /\ frame[cur] # 0 /\ frame' = [frame EXCEPT ![cur] = 0]
             /\ count' = [count EXCEPT ![frame[cur]] = @ - 1] /\ Recycle(count')
    BY <2>1, <2>3, ListsRecycle
  <2> QED
    BY <1>3, <2>2, <2>3 DEF GetEncoded
<1>4. CASE TakeDecided \/ PopUnlocked
  <2>1. UNCHANGED <<param, dpb, input, gop, cur>>
    BY <1>4, <1>p DEF TakeDecided, PopUnlocked, dpb, buffer, lists, picture, deciding
  <2>2. CASE UNCHANGED <<output, inHand>>
    BY <1>p, <2>1, <2>2, ListsKept DEF way
  <2>3. CASE /\ inHand' = IF output = <<>> THEN <<>> ELSE Head(output)
             /\ output' = IF output = <<>> THEN <<>> ELSE Tail(output)
    BY <2>1, <2>3, ListsTake
  <2> QED
    BY <1>4, <2>2, <2>3 DEF TakeDecided, PopUnlocked
<1>5. CASE \/ Flush \/ FindJob \/ AwaitOutput \/ Terminate \/ StopLookahead
  <2>1. UNCHANGED <<way, dpb>>
    BY <1>5, <1>p DEF Flush, FindJob, AwaitOutput, Terminate, StopLookahead, BeginDecide, way, dpb,
                lookahead, queues, deciding, buffer, lists, picture
  <2>2. cur' \in FEs
    BY <1>5, <1>p DEF Flush, FindJob, AwaitOutput, Terminate, StopLookahead
  <2> QED
    BY <2>1, <2>2, ListsKept
<1>6. CASE NoFrame \/ Join
  <2>1. UNCHANGED <<way, dpb>>
    BY <1>6, <1>p DEF NoFrame, Join, way, dpb, lookahead, queues, deciding, buffer, lists, picture
  <2>2. CASE NoFrame
    <3>1. cur' \in FEs
      BY <1>p, <2>2, NextEncoder DEF NoFrame, Return
    <3> QED
      BY <2>1, <3>1, ListsKept
  <2>3. CASE Join
    <3>1. cur' \in FEs
      BY <1>p, <2>3, ThreadsAssumption DEF Join, FEs
    <3> QED
      BY <2>1, <3>1, ListsKept
  <2> QED
    BY <1>6, <2>2, <2>3
<1>7. CASE StopFrameEncoder
  BY <1>7, <1>p, ListsStopEncoder
<1>8. ASSUME NEW e \in FEs, EncoderStep(e) PROVE ListInv'
  <2>1. CASE Release(e)
    BY <1>p, <2>1, ListsRelease
  <2>2. CASE \/ Enabled(e) \/ RcStart(e) \/ EncodeRow(e) \/ RcEnd(e) \/ WaitForChange(e)
             \/ FinishRc(e)
    <3>1. UNCHANGED <<way, dpb>>
      BY <1>p, <2>2 DEF Enabled, RcStart, EncodeRow, RcEnd, WaitForChange, FinishRc, way, dpb,
                  lookahead, queues, deciding, buffer, lists, picture, caller
    <3>2. cur' = cur
      BY <2>2 DEF Enabled, RcStart, EncodeRow, RcEnd, WaitForChange, FinishRc, caller
    <3> QED
      BY <1>p, <3>1, <3>2, ListsKept
  <2> QED
    BY <1>8, <2>1, <2>2 DEF EncoderStep
<1>9. ASSUME NEW t \in Deciders, DeciderStep(t) PROVE ListInv'
  <2>1. /\ UNCHANGED <<inHand, cur, created, count, freeList, picList, frame, refs>>
        /\ GoOnDeciding(t)
    BY <1>9 DEF DeciderStep, pipe, caller, buffer, lists, picture
  <2>2. UNCHANGED dpb
    BY <2>1 DEF GoOnDeciding, Choose, LockOutput, PushOutput, EndDecide, dpb
  <2>3. CASE Choose(t)
    BY <1>p, <2>1, <2>2, <2>3, ListsChoose
  <2>4. CASE PushOutput(t)
    BY <1>p, <2>1, <2>2, <2>4, ListsPush
  <2>5. CASE LockOutput(t) \/ EndDecide(t)
    <3>1. UNCHANGED way
      BY <1>p, <2>1, <2>5 DEF LockOutput, EndDecide, way, queues
    <3> QED
      BY <1>p, <2>1, <2>2, <3>1, ListsKept
  <2> QED
    BY <2>1, <2>3, <2>4, <2>5 DEF GoOnDeciding
<1>10. ASSUME NEW t \in Helpers, BeginDecide(t), UNCHANGED pipe PROVE ListInv'
  <2>1. UNCHANGED <<way, dpb>> /\ cur' = cur
    BY <1>10, <1>p DEF BeginDecide, pipe, caller, buffer, lists, picture, way, dpb, queues
  <2> QED
    BY <1>p, <2>1, ListsKept
<1>11. CASE UNCHANGED vars
  <2>1. UNCHANGED <<way, dpb>> /\ cur' = cur
    BY <1>11 DEF vars, lookahead, queues, deciding, pipe, caller, buffer, lists, picture, way, dpb
  <2> QED
    BY <1>p, <2>1, ListsKept
<1> QED
  BY <1>1, <1>2, <1>3, <1>4, <1>5, <1>6, <1>7, <1>8, <1>9, <1>10, <1>11 DEF Next, ApiStep

\* A picture that is being encoded stays in the picture list, and so does each
\* that it refers to, which no other picture of the stream replaces until the
\* encoder is done with it (m_countRefEncoders, frameencoder.cpp and dpb.cpp).
THEOREM ReferencesAreHeld == Spec => []RefsHeld
<1>1. Spec => []ListInv
  BY ListsInit, ListsStep, PTL DEF Spec
<1>2. ListInv => RefsHeld
  <2> SUFFICES ASSUME ListInv, NEW e \in FEs, frame[e] # 0
               PROVE  /\ Contains(picList, frame[e])
                      /\ \A r \in refs[e] : Contains(picList, r[1]) /\ poc[r[1]] = r[2]
    BY DEF RefsHeld, Working
  <2>1. /\ frame[e] \in Present
        /\ \A r \in refs[e] : r[1] \in Present /\ poc[r[1]] = r[2]
    BY DEF ListInv, InDPB
  <2>2. picList \in Seq(Made)
    BY DEF ListInv, ListTypes
  <2>3. \A x \in Present : Contains(picList, x)
    BY <2>2 DEF Present, Range, Contains
  <2> QED
    BY <2>1, <2>3
<1> QED
  BY <1>1, <1>2, PTL

-----------------------------------------------------------------------------
(* The order of rate control *)

\* The API thread before encoder_close(), and there from the end of one picture
\* to the start of the next in the same frame encoder.
Choosing == {"decide", "find", "deciding", "mark", "wait", "pop", "start"}
Running  == Choosing \cup {"call", "get", "close"}

RateTypes ==
    /\ encoded \in Nat /\ order \in Nat /\ final \in Nat /\ terminated \in BOOLEAN
    /\ fe \in [FEs -> Steps] /\ number \in [FEs -> Nat]
    /\ enable \in [FEs -> Nat] /\ done \in [FEs -> Nat]
    /\ threadActive \in [FEs -> BOOLEAN]

\* A frame encoder has no picture, or is asked to encode it, or encodes it, or
\* has signalled that it is done.
Phase(e) ==
    /\ threadActive[e] /\ fe[e] # "exited"
    /\ enable[e] > 0 \/ fe[e] # "idle" => frame[e] # 0 /\ done[e] = 0
    /\ enable[e] > 0 => enable[e] = 1 /\ fe[e] = "idle"
    /\ done[e] > 0 => done[e] = 1 /\ frame[e] # 0

Handshake == ~terminated =>
    /\ api \in Running
    /\ api \in Choosing => frame[cur] = 0
    /\ \A e \in FEs : Phase(e)

\* The encoders whose picture rate control has not started yet.
Fresh == {e \in FEs : enable[e] > 0 \/ fe[e] = "rcStart"}

\* Rate control has started the first s pictures and ended the first n.
Ended == encoded - Cardinality(Unended)
InTurn(s, n) ==
    /\ Cardinality(Fresh) = encoded - s
    /\ order = s + (IF s < NumThreads - 1 THEN s ELSE NumThreads - 1) + n
    /\ n <= (IF s < NumThreads - 1 THEN 0 ELSE s - NumThreads + 1)
    /\ \A e \in Unended : n <= number[e] /\ number[e] < encoded
    /\ \A e \in Fresh : s <= number[e]
    /\ \A d, e \in Unended : number[d] = number[e] => d = e
    /\ \A e \in FEs : fe[e] = "finish" => order >= EndOrdinal(number[e])
InOrder == ~terminated /\ final = 0 => \E s \in Nat : InTurn(s, Ended)

RateInv == ListInv /\ RateTypes /\ Handshake /\ InOrder

LEMMA EncodersFinite == IsFiniteSet(FEs) /\ Cardinality(FEs) = NumThreads
<1>1. NumThreads \in Nat \ {0} /\ 0 \in Int /\ NumThreads - 1 \in Int
  BY ThreadsAssumption
<1>2. IsFiniteSet(0 .. NumThreads - 1)
      /\ Cardinality(0 .. NumThreads - 1)
            = IF 0 > NumThreads - 1 THEN 0 ELSE (NumThreads - 1) - 0 + 1
  BY <1>1, FS_Interval
<1> QED
  BY <1>1, <1>2 DEF FEs

\* How many encoders are at work.
LEMMA AtWork ==
    ASSUME Handshake, ~terminated
    PROVE  /\ Unended = {e \in FEs : /\ enable[e] > 0 \/ fe[e] # "idle"
                                     /\ fe[e] # "release"}
           /\ Fresh \subseteq Unended
           /\ IsFiniteSet(Unended) /\ IsFiniteSet(Fresh)
           /\ Cardinality(Unended) \in Nat /\ Cardinality(Fresh) \in Nat
           /\ Cardinality(Unended) <= NumThreads /\ Cardinality(Fresh) <= Cardinality(Unended)
<1>1. \A e \in FEs : Phase(e)
  BY DEF Handshake
<1>2. Unended = {e \in FEs : (enable[e] > 0 \/ fe[e] # "idle") /\ fe[e] # "release"}
  BY <1>1 DEF Unended, Working, Phase
<1>3. Fresh \subseteq Unended
  BY <1>1, <1>2 DEF Fresh, Phase
<1>4. Unended \in SUBSET FEs
  BY <1>2
<1>5. IsFiniteSet(Unended) /\ Cardinality(Unended) <= NumThreads
  BY <1>4, EncodersFinite, FS_Subset
<1>6. IsFiniteSet(Fresh) /\ Cardinality(Fresh) <= Cardinality(Unended)
  BY <1>3, <1>5, FS_Subset
<1>7. Cardinality(Unended) \in Nat /\ Cardinality(Fresh) \in Nat
  BY <1>5, <1>6, FS_CardinalityType
<1> QED
  BY <1>2, <1>3, <1>5, <1>6, <1>7

\* Steps that start and end no picture in rate control keep the order.
LEMMA OrderKept ==
    ASSUME RateInv, UNCHANGED <<encoded, order, number>>, Fresh' = Fresh, Unended' = Unended,
           ~terminated' /\ final' = 0 =>
              /\ ~terminated /\ final = 0
              /\ \A e \in FEs : fe'[e] = "finish" =>
                    fe[e] = "finish" \/ order >= EndOrdinal(number[e])
    PROVE  InOrder'
<1> SUFFICES ASSUME ~terminated', final' = 0 PROVE \E s \in Nat : InTurn(s, Ended)'
  BY DEF InOrder
<1>1. PICK s \in Nat : InTurn(s, Ended)
  BY DEF RateInv, InOrder
<1>2. Ended' = Ended
  BY DEF Ended
<1>3. InTurn(s, Ended)'
  BY <1>1, <1>2 DEF InTurn, EndOrdinal
<1> QED
  BY <1>3

\* Nothing of it changes.
rates == <<encoded, order, final, terminated, fe, number, enable, done, threadActive>>
LEMMA RateUnchanged ==
    ASSUME RateInv, UNCHANGED <<rates, frame>>
    PROVE  RateTypes' /\ InOrder'
<1> USE DEF rates
<1>1. RateTypes'
  BY DEF RateInv, RateTypes
<1>2. Fresh' = Fresh /\ Unended' = Unended
  BY DEF Fresh, Unended, Working
<1>3. InOrder'
  BY <1>2, OrderKept
<1> QED
  BY <1>1, <1>3

\* Neither does the agreement with the frame encoders.
LEMMA HandshakeUnchanged ==
    ASSUME RateInv, UNCHANGED <<rates, frame>>,
           ~terminated => api' \in Running /\ (api' \in Choosing => frame[cur'] = 0)
    PROVE  Handshake'
BY DEF RateInv, Handshake, Phase, rates

\* Steps of the API thread that do not touch a frame encoder.
LEMMA RateApi ==
    ASSUME RateInv,
           AddPicture \/ Flush \/ TakeDecided \/ FindJob \/ AwaitOutput \/ PopUnlocked
    PROVE  RateTypes' /\ Handshake' /\ InOrder'
<1>1. UNCHANGED <<rates, frame, cur>>
  BY DEF AddPicture, Flush, TakeDecided, FindJob, AwaitOutput, PopUnlocked, rates, rate, picture,
         events
<1>2. CASE (AddPicture \/ Flush)
  <2>1. api' = "get"
    BY <1>2 DEF AddPicture, Flush
  <2> QED
    BY <1>1, <2>1, RateUnchanged, HandshakeUnchanged DEF Running, Choosing
<1>3. CASE (TakeDecided \/ FindJob \/ AwaitOutput \/ PopUnlocked)
  <2>1. /\ api \in Choosing \/ api \notin Running
        /\ api \in Running => api' \in Choosing
    BY <1>3 DEF TakeDecided, FindJob, AwaitOutput, PopUnlocked, Running, Choosing
  <2>2. ~terminated => api' \in Running /\ frame[cur'] = 0
    BY <1>1, <2>1 DEF RateInv, Handshake, Running
  <2> QED
    BY <1>1, <2>2, RateUnchanged, HandshakeUnchanged
<1> QED
  BY <1>2, <1>3

\* getEncodedPicture() waits for m_done.
LEMMA RateGetEncoded ==
    ASSUME RateInv, GetEncoded
    PROVE  RateTypes' /\ Handshake' /\ InOrder'
<1>1. /\ api' = "decide"
      /\ UNCHANGED <<encoded, order, final, terminated, fe, number, enable, threadActive, cur>>
  BY DEF GetEncoded, rate
<1>2. cur \in FEs /\ frame \in [FEs -> Nat]
  BY DEF RateInv, ListInv, ListTypes
<1>3. CASE frame[cur] = 0 /\ UNCHANGED <<frame, done>>
  <2>1. UNCHANGED <<rates, frame>>
    BY <1>1, <1>3 DEF rates
  <2>2. ~terminated => api' \in Running /\ (api' \in Choosing => frame[cur'] = 0)
    BY <1>1, <1>3 DEF Running, Choosing
  <2> QED
    BY <2>1, <2>2, RateUnchanged, HandshakeUnchanged
<1>4. CASE /\ frame[cur] # 0 /\ done[cur] > 0
           /\ done' = [done EXCEPT ![cur] = @ - 1] /\ frame' = [frame EXCEPT ![cur] = 0]
  <2>1. RateTypes'
    <3>1. done' \in [FEs -> Nat]
      <4>1. done[cur] - 1 \in Nat
        BY <1>2, <1>4 DEF RateInv, RateTypes
      <4> QED
        BY <1>4, <4>1 DEF RateInv, RateTypes
    <3> QED
      BY <1>1, <3>1 DEF RateInv, RateTypes
  <2>2. /\ frame'[cur] = 0 /\ done'[cur] = done[cur] - 1
        /\ \A e \in FEs : e # cur => frame'[e] = frame[e] /\ done'[e] = done[e]
    BY <1>2, <1>4 DEF RateInv, RateTypes
  <2>3. ASSUME ~terminated PROVE enable[cur] = 0 /\ fe[cur] = "idle" /\ done'[cur] = 0
    <3>1. Phase(cur)
      BY <1>2, <2>3 DEF RateInv, Handshake
    <3>2. done[cur] = 1 /\ ~ (enable[cur] > 0) /\ fe[cur] = "idle"
      BY <1>4, <3>1 DEF Phase
    <3> QED
      BY <1>2, <2>2, <3>2 DEF RateInv, RateTypes
  <2>4. Handshake'
    <3> SUFFICES ASSUME ~terminated PROVE /\ api' \in Running /\ frame'[cur'] = 0
                                          /\ \A e \in FEs : Phase(e)'
      BY <1>1 DEF Handshake
    <3>1. ASSUME NEW e \in FEs PROVE Phase(e)'
      <4>1. Phase(e)
        BY DEF RateInv, Handshake
      <4>2. CASE e = cur
        BY <1>1, <2>2, <2>3, <4>1, <4>2 DEF Phase
      <4>3. CASE e # cur
        BY <1>1, <2>2, <4>1, <4>3 DEF Phase
      <4> QED
        BY <4>2, <4>3
    <3> QED
      BY <1>1, <2>2, <3>1 DEF Running, Choosing
  <2>5. InOrder'
    <3> SUFFICES ASSUME ~terminated PROVE InOrder'
      BY <1>1 DEF InOrder
    <3>1. Fresh' = Fresh
      BY <1>1 DEF Fresh
    <3>2. Unended' = Unended
      BY <1>1, <2>2, <2>3 DEF Unended, Working
    <3> QED
      BY <1>1, <3>1, <3>2, OrderKept
  <2> QED
    BY <2>1, <2>4, <2>5
<1> QED
  BY <1>3, <1>4 DEF GetEncoded

\* startCompressFrame(): one more is to be started, after all others.
LEMMA RateStart ==
    ASSUME RateInv, StartFrame
    PROVE  RateTypes' /\ Handshake' /\ InOrder'
<1>1. /\ api = "start" /\ api' \in {"close", "call"} /\ inHand # <<>>
      /\ frame' = [frame EXCEPT ![cur] = inHand[1]]
      /\ number' = [number EXCEPT ![cur] = encoded]
      /\ encoded' = encoded + 1
      /\ enable' = [enable EXCEPT ![cur] = @ + 1]
      /\ UNCHANGED <<order, final, terminated, fe, done, threadActive>>
  BY DEF StartFrame, Return, rate
<1>2. cur \in FEs /\ frame \in [FEs -> Nat] /\ inHand[1] # 0
  BY <1>1 DEF RateInv, ListInv, ListTypes, Typed, Made
<1>3. RateTypes'
  BY <1>1, <1>2 DEF RateInv, RateTypes
<1>4. /\ frame'[cur] # 0 /\ enable'[cur] = enable[cur] + 1 /\ number'[cur] = encoded
      /\ \A e \in FEs : e # cur => /\ frame'[e] = frame[e] /\ enable'[e] = enable[e]
                                   /\ number'[e] = number[e]
  BY <1>1, <1>2 DEF RateInv, RateTypes
<1>5. ASSUME ~terminated
      PROVE  /\ enable[cur] = 0 /\ enable'[cur] = 1 /\ done[cur] = 0 /\ fe[cur] = "idle"
             /\ frame[cur] = 0
  <2>1. Phase(cur) /\ frame[cur] = 0
    BY <1>1, <1>2, <1>5 DEF RateInv, Handshake, Choosing
  <2>2. enable[cur] \in Nat /\ done[cur] \in Nat
    BY <1>2 DEF RateInv, RateTypes
  <2> QED
    BY <1>4, <2>1, <2>2 DEF Phase
<1>6. Handshake'
  <2> SUFFICES ASSUME ~terminated PROVE /\ api' \in Running /\ api' \notin Choosing
                                        /\ \A e \in FEs : Phase(e)'
    BY <1>1 DEF Handshake
  <2>1. ASSUME NEW e \in FEs PROVE Phase(e)'
    <3>1. Phase(e)
      BY DEF RateInv, Handshake
    <3>2. CASE e = cur
      BY <1>1, <1>4, <1>5, <3>1, <3>2 DEF Phase
    <3>3. CASE e # cur
      BY <1>1, <1>4, <3>1, <3>3 DEF Phase
    <3> QED
      BY <3>2, <3>3
  <2> QED
    BY <1>1, <2>1 DEF Running, Choosing
<1>7. InOrder'
  <2> SUFFICES ASSUME ~terminated, final = 0 PROVE \E s \in Nat : InTurn(s, Ended)'
    BY <1>1 DEF InOrder
  <2>1. PICK s \in Nat : InTurn(s, Ended)
    BY DEF RateInv, InOrder
  <2>2. PICK F : F = Fresh
    OBVIOUS
  <2>3. PICK U : U = Unended
    OBVIOUS
  <2>4. /\ IsFiniteSet(U) /\ IsFiniteSet(F) /\ Cardinality(U) \in Nat /\ Cardinality(F) \in Nat
        /\ cur \notin U /\ cur \notin F
    BY <1>5, <2>2, <2>3, AtWork DEF RateInv
  <2>5. Fresh' = F \cup {cur}
    BY <1>1, <1>2, <1>4, <1>5, <2>2 DEF Fresh
  <2>6. Unended' = U \cup {cur}
    <3>1. ASSUME NEW e \in FEs, e # cur PROVE e \in Unended' <=> e \in Unended
      BY <1>1, <1>2, <1>4, <1>5, <3>1 DEF Unended, Working
    <3>2. cur \in Unended'
      BY <1>1, <1>2, <1>4, <1>5 DEF Unended, Working
    <3>3. Unended' \subseteq FEs /\ U \subseteq FEs
      BY <2>3 DEF Unended, Working
    <3> QED
      BY <2>3, <3>1, <3>2, <3>3
  <2>7. /\ Cardinality(U \cup {cur}) = Cardinality(U) + 1
        /\ Cardinality(F \cup {cur}) = Cardinality(F) + 1
    BY <2>4, FS_AddElement
  <2>8. encoded \in Nat /\ order \in Nat /\ number \in [FEs -> Nat]
    BY DEF RateInv, RateTypes
  <2>9. Ended' = Ended /\ Ended \in Int /\ Ended <= encoded
    <3>1. PICK c \in Nat : c = Cardinality(U)
      BY <2>4
    <3>2. Ended = encoded - c
      BY <2>3, <3>1 DEF Ended
    <3>3. encoded' = encoded + 1
      BY <1>1
    <3>4. Ended' = (encoded + 1) - (c + 1)
      BY <2>6, <2>7, <3>1, <3>3 DEF Ended
    <3>5. encoded \in Nat
      BY <2>8
    <3> QED
      BY <3>1, <3>2, <3>4, <3>5
  <2>10. Cardinality(F) = encoded - s
    BY <2>1, <2>2 DEF InTurn
  <2>11. Cardinality(Fresh') = encoded' - s /\ s <= encoded
    BY <1>1, <2>4, <2>5, <2>7, <2>8, <2>10
  <2>12. /\ \A e \in U : Ended <= number[e] /\ number[e] < encoded
         /\ \A e \in F : s <= number[e]
         /\ \A d, e \in U : number[d] = number[e] => d = e
         /\ \A e \in U : e \in FEs /\ e # cur
         /\ F \subseteq U
    BY <2>1, <2>2, <2>3, <2>4, AtWork DEF InTurn, RateInv, Unended, Working
  <2>13. \A e \in U \cup {cur} : Ended <= number'[e] /\ number'[e] < encoded'
    <3>1. \A e \in U : number[e] \in Nat
      BY <2>8, <2>12
    <3> QED
      BY <1>1, <1>4, <2>8, <2>9, <2>12, <3>1
  <2>14. \A e \in F \cup {cur} : s <= number'[e]
    BY <1>4, <2>11, <2>12
  <2>15. \A d, e \in U \cup {cur} : number'[d] = number'[e] => d = e
    <3>1. \A e \in U : number'[e] = number[e] /\ number'[e] # number'[cur]
      BY <1>4, <2>8, <2>12
    <3> QED
      BY <2>12, <3>1
  <2>16. \A e \in FEs : fe'[e] = "finish" => order' >= EndOrdinal(number'[e])
    BY <1>1, <1>4, <1>5, <2>1 DEF InTurn, EndOrdinal
  <2>17. /\ order' = s + (IF s < NumThreads - 1 THEN s ELSE NumThreads - 1) + Ended'
         /\ Ended' <= (IF s < NumThreads - 1 THEN 0 ELSE s - NumThreads + 1)
    BY <1>1, <2>1, <2>9 DEF InTurn
  <2>18. InTurn(s, Ended)'
    BY <2>5, <2>6, <2>9, <2>11, <2>13, <2>14, <2>15, <2>16, <2>17 DEF InTurn
  <2> QED
    BY <2>18
<1> QED
  BY <1>3, <1>6, <1>7

\* What incr() and poke() do to the encoders that sleep.
LEMMA WakeFacts ==
    ASSUME NEW steps \in [FEs -> Steps]
    PROVE  /\ Wake(steps) \in [FEs -> Steps]
           /\ \A e \in FEs : Wake(steps)[e] = steps[e]
                             \/ (steps[e] = "asleep" /\ Wake(steps)[e] = "rcEnd")
BY DEF Wake, Steps

\* An empty call ends the premise: the final count is set.
LEMMA RateNoFrame ==
    ASSUME RateInv, NoFrame
    PROVE  RateTypes' /\ Handshake' /\ InOrder'
<1>1. /\ api' \in {"close", "call"}
      /\ final' = IF encoded > 0 THEN encoded ELSE final
      /\ fe' = IF encoded > 0 THEN Wake(fe) ELSE fe
      /\ UNCHANGED <<encoded, order, terminated, number, enable, done, threadActive, frame>>
  BY DEF NoFrame, Return, picture, events
<1>2. /\ fe' \in [FEs -> Steps]
      /\ \A e \in FEs : fe'[e] = fe[e] \/ (fe[e] = "asleep" /\ fe'[e] = "rcEnd")
  BY <1>1, WakeFacts DEF RateInv, RateTypes
<1>3. RateTypes'
  BY <1>1, <1>2 DEF RateInv, RateTypes
<1>4. Handshake'
  <2> SUFFICES ASSUME ~terminated, NEW e \in FEs PROVE Phase(e)'
    BY <1>1 DEF Handshake, Running, Choosing
  <2>1. Phase(e)
    BY DEF RateInv, Handshake
  <2> QED
    BY <1>1, <1>2, <2>1 DEF Phase
<1>5. InOrder'
  <2>1. Fresh' = Fresh
    BY <1>1, <1>2 DEF Fresh
  <2>2. Unended' = Unended
    BY <1>1, <1>2 DEF Unended, Working
  <2>3. final' = 0 => final = 0
    BY <1>1 DEF RateInv, RateTypes
  <2> QED
    BY <1>1, <1>2, <2>1, <2>2, <2>3, OrderKept
<1> QED
  BY <1>3, <1>4, <1>5

\* encoder_close(): nothing is said of the order any more.
LEMMA RateClose ==
    ASSUME RateInv, Terminate \/ StopLookahead \/ StopFrameEncoder \/ Join
    PROVE  RateTypes' /\ Handshake' /\ InOrder'
<1>1. terminated'
  <2>1. CASE Terminate
    BY <2>1 DEF Terminate
  <2>2. CASE StopLookahead \/ StopFrameEncoder \/ Join
    <3>1. terminated' = terminated /\ api \notin Running
      BY <2>2 DEF StopLookahead, StopFrameEncoder, Join, Running, Choosing, rate
    <3>2. terminated \in BOOLEAN /\ terminated
      BY <3>1 DEF RateInv, Handshake, RateTypes
    <3> QED
      BY <3>1, <3>2
  <2> QED
    BY <2>1, <2>2
<1>2. terminated' \in BOOLEAN
  BY DEF Terminate, StopLookahead, StopFrameEncoder, Join, rate, RateInv, RateTypes
<1>3. RateTypes'
  <2>1. CASE Terminate
    <3>1. fe' \in [FEs -> Steps]
      BY <2>1, WakeFacts DEF Terminate, RateInv, RateTypes
    <3> QED
      BY <1>2, <2>1, <3>1 DEF Terminate, events, picture, RateInv, RateTypes
  <2>2. CASE StopLookahead \/ Join
    BY <2>2 DEF StopLookahead, Join, rate, events, picture, RateInv, RateTypes
  <2>3. CASE StopFrameEncoder
    <3>1. cur \in FEs
      BY DEF RateInv, ListInv, ListTypes
    <3>2. /\ enable' = [enable EXCEPT ![cur] = @ + 1]
          /\ threadActive' = [threadActive EXCEPT ![cur] = FALSE]
          /\ done' = [done EXCEPT ![cur] = IF frame[cur] # 0 THEN @ - 1 ELSE @]
          /\ frame[cur] # 0 => done[cur] > 0
          /\ UNCHANGED <<encoded, order, final, terminated, fe, number>>
      BY <2>3 DEF StopFrameEncoder, rate
    <3>3. (IF frame[cur] # 0 THEN done[cur] - 1 ELSE done[cur]) \in Nat
      BY <3>1, <3>2 DEF RateInv, RateTypes
    <3>4. done' \in [FEs -> Nat] /\ enable' \in [FEs -> Nat] /\ threadActive' \in [FEs -> BOOLEAN]
      BY <3>1, <3>2, <3>3 DEF RateInv, RateTypes
    <3> QED
      BY <3>2, <3>4 DEF RateInv, RateTypes
  <2> QED
    BY <2>1, <2>2, <2>3
<1> QED
  BY <1>1, <1>3 DEF Handshake, InOrder

\* threadMain() takes the picture it is given.
LEMMA RateEnabled ==
    ASSUME RateInv, NEW e \in FEs, Enabled(e)
    PROVE  RateTypes' /\ Handshake' /\ InOrder'
<1>1. /\ fe[e] = "idle" /\ enable[e] > 0
      /\ enable' = [enable EXCEPT ![e] = @ - 1]
      /\ fe' = [fe EXCEPT ![e] = IF threadActive[e] THEN "rcStart" ELSE "exited"]
      /\ UNCHANGED <<encoded, order, final, terminated, number, done, threadActive, frame, api, cur>>
  BY DEF Enabled, rate, caller, picture
<1>2. RateTypes'
  <2>1. enable[e] - 1 \in Nat
    BY <1>1 DEF RateInv, RateTypes
  <2>2. enable' \in [FEs -> Nat] /\ fe' \in [FEs -> Steps]
    BY <1>1, <2>1 DEF RateInv, RateTypes, Steps
  <2> QED
    BY <1>1, <2>2 DEF RateInv, RateTypes
<1>3. ASSUME ~terminated
      PROVE  /\ enable'[e] = 0 /\ fe'[e] = "rcStart"
             /\ \A d \in FEs : d # e => enable'[d] = enable[d] /\ fe'[d] = fe[d]
             /\ frame[e] # 0 /\ done[e] = 0
  <2>1. Phase(e)
    BY <1>3 DEF RateInv, Handshake
  <2> QED
    BY <1>1, <2>1 DEF RateInv, RateTypes, Phase
<1>4. Handshake'
  <2> SUFFICES ASSUME ~terminated, NEW d \in FEs PROVE Phase(d)'
    BY <1>1 DEF RateInv, Handshake
  <2>1. Phase(d)
    BY DEF RateInv, Handshake
  <2>2. CASE d = e
    BY <1>1, <1>3, <2>1, <2>2 DEF Phase
  <2>3. CASE d # e
    BY <1>1, <1>3, <2>1, <2>3 DEF Phase
  <2> QED
    BY <2>2, <2>3
<1>5. InOrder'
  <2> SUFFICES ASSUME ~terminated PROVE InOrder'
    BY <1>1 DEF InOrder
  <2>1. Fresh' = Fresh
    BY <1>1, <1>3 DEF Fresh
  <2>2. Unended' = Unended
    BY <1>1, <1>3 DEF Unended, Working
  <2>3. \A d \in FEs : fe'[d] = "finish" => fe[d] = "finish"
    BY <1>3
  <2> QED
    BY <1>1, <2>1, <2>2, <2>3, OrderKept
<1> QED
  BY <1>2, <1>4, <1>5

\* The rows, and the loop of rateControlEnd() until it may go on.
LEMMA RateBetween ==
    ASSUME RateInv, NEW e \in FEs, EncodeRow(e) \/ RcEnd(e) \/ WaitForChange(e)
    PROVE  RateTypes' /\ Handshake' /\ InOrder'
<1> DEFINE Middle == {"row", "rcEnd", "toWait", "asleep", "finish"}
<1>1. UNCHANGED <<encoded, order, final, terminated, number, enable, done, threadActive, frame,
                  api, cur>>
  BY DEF EncodeRow, RcEnd, WaitForChange, rate, caller, picture, events
<1>2. PICK l \in Middle : /\ fe' = [fe EXCEPT ![e] = l] /\ fe[e] \in Middle
                          /\ l = "finish" => MayEnd(e)
  BY DEF EncodeRow, RcEnd, WaitForChange
<1>3. /\ fe'[e] = l /\ \A d \in FEs : d # e => fe'[d] = fe[d]
      /\ fe' \in [FEs -> Steps]
  BY <1>2 DEF RateInv, RateTypes, Steps
<1>4. RateTypes'
  BY <1>1, <1>3 DEF RateInv, RateTypes
<1>5. Handshake'
  <2> SUFFICES ASSUME ~terminated, NEW d \in FEs PROVE Phase(d)'
    BY <1>1 DEF RateInv, Handshake
  <2>1. Phase(d)
    BY DEF RateInv, Handshake
  <2>2. CASE d = e
    BY <1>1, <1>2, <1>3, <2>1, <2>2 DEF Phase
  <2>3. CASE d # e
    BY <1>1, <1>3, <2>1, <2>3 DEF Phase
  <2> QED
    BY <2>2, <2>3
<1>6. InOrder'
  <2>1. Fresh' = Fresh
    BY <1>1, <1>2, <1>3 DEF Fresh
  <2>2. Unended' = Unended
    BY <1>1, <1>2, <1>3 DEF Unended, Working
  <2>3. ASSUME ~terminated, final = 0, NEW d \in FEs, fe'[d] = "finish"
        PROVE  fe[d] = "finish" \/ order >= EndOrdinal(number[d])
    BY <1>2, <1>3, <2>3 DEF MayEnd
  <2> QED
    BY <1>1, <2>1, <2>2, <2>3, OrderKept
<1> QED
  BY <1>4, <1>5, <1>6

\* A step of e to l that wakes others.
LEMMA RateWake ==
    ASSUME RateInv, NEW e \in FEs, NEW l \in Steps, l # "exited",
           fe[e] \notin {"idle", "asleep"}, l # "asleep",
           fe' = Wake([fe EXCEPT ![e] = l]), order' \in Nat,
           UNCHANGED <<encoded, final, terminated, number, enable, done, threadActive, frame,
                       api, cur>>
    PROVE  /\ RateTypes' /\ Handshake'
           /\ fe'[e] = l
           /\ \A d \in FEs : d # e => fe'[d] = fe[d] \/ (fe[d] = "asleep" /\ fe'[d] = "rcEnd")
<1>1. PICK g \in [FEs -> Steps] : g = [fe EXCEPT ![e] = l]
  BY DEF RateInv, RateTypes
<1>2. g[e] = l /\ \A d \in FEs : d # e => g[d] = fe[d]
  BY <1>1 DEF RateInv, RateTypes
<1>3. /\ fe' \in [FEs -> Steps]
      /\ \A d \in FEs : fe'[d] = g[d] \/ (g[d] = "asleep" /\ fe'[d] = "rcEnd")
  BY <1>1, WakeFacts
<1>4. /\ fe'[e] = l
      /\ \A d \in FEs : d # e => fe'[d] = fe[d] \/ (fe[d] = "asleep" /\ fe'[d] = "rcEnd")
  BY <1>2, <1>3
<1>5. RateTypes'
  BY <1>3 DEF RateInv, RateTypes
<1>6. Handshake'
  <2> SUFFICES ASSUME ~terminated, NEW d \in FEs PROVE Phase(d)'
    BY DEF RateInv, Handshake
  <2>1. Phase(d)
    BY DEF RateInv, Handshake
  <2>2. CASE d = e
    BY <1>4, <2>1, <2>2 DEF Phase
  <2>3. CASE d # e
    BY <1>4, <2>1, <2>3 DEF Phase
  <2> QED
    BY <2>2, <2>3
<1> QED
  BY <1>4, <1>5, <1>6

\* rateControlStart() of e: e has the least number of those not started, and
\* exactly those have ended that are NumThreads - 1 before it.
LEMMA StartsInTurn ==
    ASSUME RateInv, ~terminated, final = 0, NEW e \in FEs, RcStart(e), NEW s \in Nat,
           InTurn(s, Ended)
    PROVE  /\ number[e] = s
           /\ Ended = IF s < NumThreads - 1 THEN 0 ELSE s - NumThreads + 1
<1>1. order >= 2 * number[e] /\ e \in Fresh
  BY DEF RcStart, StartOrdinal, Fresh
<1>2. number[e] \in Nat /\ order \in Nat /\ NumThreads \in Nat \ {0} /\ s <= number[e]
  BY <1>1, ThreadsAssumption DEF RateInv, RateTypes, InTurn
<1>3. PICK n : n = Ended
  OBVIOUS
<1>4. n \in Int
  BY <1>3, AtWork DEF Ended, RateInv, RateTypes
<1>5. /\ order = s + (IF s < NumThreads - 1 THEN s ELSE NumThreads - 1) + n
      /\ n <= (IF s < NumThreads - 1 THEN 0 ELSE s - NumThreads + 1)
  BY <1>3 DEF InTurn
<1>6. CASE s < NumThreads - 1
  BY <1>1, <1>2, <1>3, <1>4, <1>5, <1>6
<1>7. CASE ~ (s < NumThreads - 1)
  BY <1>1, <1>2, <1>3, <1>4, <1>5, <1>7
<1> QED
  BY <1>6, <1>7

LEMMA RateRcStart ==
    ASSUME RateInv, NEW e \in FEs, RcStart(e)
    PROVE  RateTypes' /\ Handshake' /\ InOrder'
<1>1. /\ fe[e] = "rcStart" /\ order' = order + (IF number[e] < NumThreads - 1 THEN 2 ELSE 1)
      /\ fe' = Wake([fe EXCEPT ![e] = "row"])
      /\ UNCHANGED <<encoded, final, terminated, number, enable, done, threadActive, frame, api,
                     cur>>
  BY DEF RcStart, caller, picture, events
<1>2. order' \in Nat /\ order' >= order /\ order \in Nat
  BY <1>1 DEF RateInv, RateTypes
<1>3. /\ RateTypes' /\ Handshake' /\ fe'[e] = "row"
      /\ \A d \in FEs : d # e => fe'[d] = fe[d] \/ (fe[d] = "asleep" /\ fe'[d] = "rcEnd")
  BY <1>1, <1>2, RateWake DEF Steps
<1>4. InOrder'
  <2> SUFFICES ASSUME ~terminated, final = 0 PROVE \E s \in Nat : InTurn(s, Ended)'
    BY <1>1 DEF InOrder
  <2>1. PICK s \in Nat : InTurn(s, Ended)
    BY DEF RateInv, InOrder
  <2>2. /\ number[e] = s /\ Ended = IF s < NumThreads - 1 THEN 0 ELSE s - NumThreads + 1
    BY <2>1, StartsInTurn
  <2>3. PICK F : F = Fresh
    OBVIOUS
  <2>4. /\ IsFiniteSet(F) /\ Cardinality(F) \in Nat /\ e \in F /\ F \subseteq Unended
    BY <1>1, <2>3, AtWork DEF RateInv, Fresh
  <2>5. Fresh' = F \ {e}
    <3>1. enable[e] = 0
      BY <1>1 DEF RateInv, RateTypes, Handshake, Phase
    <3>2. e \in F /\ \A d \in FEs : d \in F <=> enable[d] > 0 \/ fe[d] = "rcStart"
      BY <2>3, <2>4 DEF Fresh
    <3>3. \A d \in FEs : d \in Fresh' <=> enable[d] > 0 \/ fe'[d] = "rcStart"
      BY <1>1 DEF Fresh
    <3>4. \A d \in FEs : d # e => (fe'[d] = "rcStart" <=> fe[d] = "rcStart")
      BY <1>3
    <3>5. e \notin Fresh'
      BY <1>3, <3>1, <3>3
    <3>6. F \subseteq FEs /\ Fresh' \subseteq FEs
      BY <2>3 DEF Fresh
    <3> QED
      BY <3>2, <3>3, <3>4, <3>5, <3>6
  <2>6. Unended' = Unended
    BY <1>1, <1>3 DEF Unended, Working
  <2>7. Cardinality(F \ {e}) = Cardinality(F) - 1
    BY <2>4, FS_RemoveElement
  <2>8. encoded \in Nat /\ number \in [FEs -> Nat] /\ NumThreads \in Nat \ {0}
    BY ThreadsAssumption DEF RateInv, RateTypes
  <2>9. Ended' = Ended
    BY <1>1, <2>6 DEF Ended
  <2>n. PICK n : n = Ended
    OBVIOUS
  <2>10. Cardinality(F) = encoded - s
    BY <2>1, <2>3 DEF InTurn
  <2>t. PICK t \in Nat : t = s + 1
    OBVIOUS
  <2>11. Cardinality(Fresh') = encoded' - t
    BY <1>1, <2>4, <2>5, <2>7, <2>8, <2>10, <2>t
  <2>12. /\ order' = t + (IF t < NumThreads - 1 THEN t ELSE NumThreads - 1) + n
         /\ n <= (IF t < NumThreads - 1 THEN 0 ELSE t - NumThreads + 1)
    <3>1. order = s + (IF s < NumThreads - 1 THEN s ELSE NumThreads - 1) + n
      BY <2>1, <2>n DEF InTurn
    <3>2. n = IF s < NumThreads - 1 THEN 0 ELSE s - NumThreads + 1
      BY <2>2, <2>n
    <3>3. order' = order + (IF s < NumThreads - 1 THEN 2 ELSE 1)
      BY <1>1, <2>2
    <3> QED
      BY <2>8, <2>t, <3>1, <3>2, <3>3
  <2>13. /\ \A d \in Unended : n <= number[d] /\ number[d] < encoded
         /\ \A c, d \in Unended : number[c] = number[d] => c = d
         /\ \A d \in F : s <= number[d]
    BY <2>1, <2>3, <2>n DEF InTurn
  <2>14. \A d \in F \ {e} : t <= number[d]
    <3> SUFFICES ASSUME NEW d \in F, d # e PROVE t <= number[d]
      OBVIOUS
    <3>1. s <= number[d] /\ number[d] # number[e] /\ number[d] \in Nat
      BY <2>4, <2>8, <2>13 DEF Unended, Working
    <3> QED
      BY <2>2, <2>t, <3>1
  <2>15. \A d \in FEs : fe'[d] = "finish" => order' >= EndOrdinal(number'[d])
    <3> SUFFICES ASSUME NEW d \in FEs, fe'[d] = "finish" PROVE order' >= EndOrdinal(number'[d])
      OBVIOUS
    <3>1. order >= EndOrdinal(number[d])
      BY <1>3, <2>1 DEF InTurn
    <3>2. EndOrdinal(number[d]) \in Int /\ number'[d] = number[d]
      BY <1>1, <2>8 DEF EndOrdinal
    <3> QED
      BY <1>2, <3>1, <3>2
  <2>16. InTurn(t, Ended)'
    BY <1>1, <2>5, <2>6, <2>9, <2>n, <2>11, <2>12, <2>13, <2>14, <2>15, <2>t DEF InTurn
  <2> QED
    BY <2>16
<1> QED
  BY <1>3, <1>4

\* rateControlEnd() of e: e is the next to end, and there are NumThreads pictures
\* that have started and not ended.
LEMMA EndsInTurn ==
    ASSUME RateInv, ~terminated, final = 0, NEW e \in FEs, fe[e] = "finish", NEW s \in Nat,
           InTurn(s, Ended)
    PROVE  number[e] = Ended /\ s = Ended + NumThreads
<1>1. PICK n : n = Ended
  OBVIOUS
<1>2. PICK m : m = number[e]
  OBVIOUS
<1>3. /\ order >= (m + NumThreads) * 2 - 1
      /\ order = s + (IF s < NumThreads - 1 THEN s ELSE NumThreads - 1) + n
      /\ n <= (IF s < NumThreads - 1 THEN 0 ELSE s - NumThreads + 1)
  BY <1>1, <1>2 DEF InTurn, EndOrdinal
<1>4. m \in Nat /\ order \in Nat /\ encoded \in Nat /\ NumThreads \in Nat \ {0}
  BY <1>2, ThreadsAssumption DEF RateInv, RateTypes
<1>5. PICK u \in Nat : u = Cardinality(Unended) /\ u <= NumThreads
  BY AtWork DEF RateInv
<1>6. PICK f \in Nat : f = Cardinality(Fresh)
  BY AtWork DEF RateInv
<1>7. n = encoded - u /\ f = encoded - s
  BY <1>1, <1>5, <1>6 DEF InTurn, Ended
<1>8. n <= m
  <2>1. e \in Unended
    BY AtWork DEF RateInv
  <2> QED
    BY <1>1, <1>2, <2>1 DEF InTurn
<1>9. s <= n + NumThreads /\ n \in Int
  BY <1>4, <1>5, <1>6, <1>7
<1>10. CASE s < NumThreads - 1
  BY <1>3, <1>4, <1>8, <1>9, <1>10
<1>11. CASE ~ (s < NumThreads - 1)
  <2>1. s + n >= 2 * m + NumThreads
    BY <1>3, <1>4, <1>9, <1>11
  <2>2. m = n /\ s = n + NumThreads
    BY <1>4, <1>8, <1>9, <2>1
  <2> QED
    BY <1>1, <1>2, <2>2
<1> QED
  BY <1>10, <1>11

LEMMA RateFinish ==
    ASSUME RateInv, NEW e \in FEs, FinishRc(e)
    PROVE  RateTypes' /\ Handshake' /\ InOrder'
<1>1. /\ fe[e] = "finish" /\ order' = order + 1
      /\ fe' = Wake([fe EXCEPT ![e] = "release"])
      /\ UNCHANGED <<encoded, final, terminated, number, enable, done, threadActive, frame, api,
                     cur>>
  BY DEF FinishRc, caller, picture, events
<1>2. order' \in Nat /\ order' >= order /\ order \in Nat
  BY <1>1 DEF RateInv, RateTypes
<1>3. /\ RateTypes' /\ Handshake' /\ fe'[e] = "release"
      /\ \A d \in FEs : d # e => fe'[d] = fe[d] \/ (fe[d] = "asleep" /\ fe'[d] = "rcEnd")
  BY <1>1, <1>2, RateWake DEF Steps
<1>4. InOrder'
  <2> SUFFICES ASSUME ~terminated, final = 0 PROVE \E s \in Nat : InTurn(s, Ended)'
    BY <1>1 DEF InOrder
  <2>1. PICK s \in Nat : InTurn(s, Ended)
    BY DEF RateInv, InOrder
  <2>2. number[e] = Ended /\ s = Ended + NumThreads
    BY <1>1, <2>1, EndsInTurn
  <2>3. PICK U : U = Unended
    OBVIOUS
  <2>4. /\ U = {d \in FEs : (enable[d] > 0 \/ fe[d] # "idle") /\ fe[d] # "release"}
        /\ IsFiniteSet(U) /\ Cardinality(U) \in Nat /\ e \in U
    BY <1>1, <2>3, AtWork DEF RateInv
  <2>5. Fresh' = Fresh
    <3>1. enable[e] = 0
      BY <1>1 DEF RateInv, RateTypes, Handshake, Phase
    <3> QED
      BY <1>1, <1>3, <3>1 DEF Fresh
  <2>6. Unended' = U \ {e}
    <3>1. Unended' = {d \in FEs : (enable'[d] > 0 \/ fe'[d] # "idle") /\ fe'[d] # "release"}
      <4>1. \A d \in FEs : Phase(d)'
        BY <1>1, <1>3 DEF Handshake
      <4> QED
        BY <4>1 DEF Unended, Working, Phase
    <3> QED
      BY <1>1, <1>3, <2>4, <3>1
  <2>7. Cardinality(U \ {e}) = Cardinality(U) - 1
    BY <2>4, FS_RemoveElement
  <2>8. encoded \in Nat /\ number \in [FEs -> Nat] /\ NumThreads \in Nat \ {0}
    BY ThreadsAssumption DEF RateInv, RateTypes
  <2>n. PICK n : n = Ended /\ n = encoded - Cardinality(U)
    BY <2>3 DEF Ended
  <2>9. Ended' = n + 1 /\ n \in Int
    BY <1>1, <2>4, <2>6, <2>7, <2>8, <2>n DEF Ended
  <2>10. Cardinality(Fresh') = encoded' - s
    BY <1>1, <2>1, <2>5 DEF InTurn
  <2>11. /\ order' = s + (IF s < NumThreads - 1 THEN s ELSE NumThreads - 1) + (n + 1)
         /\ n + 1 <= (IF s < NumThreads - 1 THEN 0 ELSE s - NumThreads + 1)
    <3>1. order = s + (IF s < NumThreads - 1 THEN s ELSE NumThreads - 1) + n
      BY <2>1, <2>n DEF InTurn
    <3>2. s = n + NumThreads
      BY <2>2, <2>n
    <3> QED
      BY <1>1, <2>8, <2>9, <3>1, <3>2
  <2>12. /\ \A d \in U : n <= number[d] /\ number[d] < encoded
         /\ \A c, d \in U : number[c] = number[d] => c = d
         /\ \A d \in Fresh : s <= number[d]
    BY <2>1, <2>3, <2>n DEF InTurn
  <2>13. \A d \in U \ {e} : n + 1 <= number[d]
    <3> SUFFICES ASSUME NEW d \in U, d # e PROVE n + 1 <= number[d]
      OBVIOUS
    <3>1. n <= number[d] /\ number[d] # n /\ number[d] \in Nat
      BY <2>2, <2>4, <2>8, <2>12, <2>n
    <3> QED
      BY <2>9, <3>1
  <2>14. \A d \in FEs : fe'[d] = "finish" => order' >= EndOrdinal(number'[d])
    <3> SUFFICES ASSUME NEW d \in FEs, fe'[d] = "finish" PROVE order' >= EndOrdinal(number'[d])
      OBVIOUS
    <3>1. order >= EndOrdinal(number[d])
      BY <1>3, <2>1 DEF InTurn
    <3>2. EndOrdinal(number[d]) \in Int /\ number'[d] = number[d]
      BY <1>1, <2>8 DEF EndOrdinal
    <3> QED
      BY <1>2, <3>1, <3>2
  <2>15. InTurn(s, Ended)'
    BY <1>1, <2>5, <2>6, <2>9, <2>10, <2>11, <2>12, <2>13, <2>14 DEF InTurn
  <2> QED
    BY <2>15
<1> QED
  BY <1>3, <1>4

\* m_done says that the picture is there.
LEMMA RateRelease ==
    ASSUME RateInv, NEW e \in FEs, Release(e)
    PROVE  RateTypes' /\ Handshake' /\ InOrder'
<1>1. /\ fe[e] = "release" /\ done' = [done EXCEPT ![e] = @ + 1]
      /\ fe' = [fe EXCEPT ![e] = "idle"]
      /\ UNCHANGED <<encoded, order, final, terminated, number, enable, threadActive, frame, api,
                     cur>>
  BY DEF Release, rate, caller
<1>2. /\ fe'[e] = "idle" /\ done'[e] = done[e] + 1
      /\ \A d \in FEs : d # e => fe'[d] = fe[d] /\ done'[d] = done[d]
      /\ RateTypes'
  BY <1>1 DEF RateInv, RateTypes, Steps
<1>3. ASSUME ~terminated PROVE enable[e] = 0 /\ done[e] = 0 /\ frame[e] # 0
  BY <1>1, <1>3 DEF RateInv, RateTypes, Handshake, Phase
<1>4. Handshake'
  <2> SUFFICES ASSUME ~terminated, NEW d \in FEs PROVE Phase(d)'
    BY <1>1 DEF RateInv, Handshake
  <2>1. Phase(d)
    BY DEF RateInv, Handshake
  <2>2. CASE d = e
    BY <1>1, <1>2, <1>3, <2>1, <2>2 DEF Phase
  <2>3. CASE d # e
    BY <1>1, <1>2, <2>1, <2>3 DEF Phase
  <2> QED
    BY <2>2, <2>3
<1>5. InOrder'
  <2> SUFFICES ASSUME ~terminated PROVE InOrder'
    BY <1>1 DEF InOrder
  <2>1. Fresh' = Fresh
    BY <1>1, <1>2, <1>3 DEF Fresh
  <2>2. Unended' = Unended
    BY <1>1, <1>2, <1>3 DEF Unended, Working
  <2>3. \A d \in FEs : fe'[d] = "finish" => fe[d] = "finish"
    BY <1>2
  <2> QED
    BY <1>1, <2>1, <2>2, <2>3, OrderKept
<1> QED
  BY <1>2, <1>4, <1>5

LEMMA RateInit == Init => RateInv
<1> SUFFICES ASSUME Init PROVE RateInv
  OBVIOUS
<1>1. /\ encoded = 0 /\ order = 0 /\ final = 0 /\ terminated = FALSE /\ api = "call"
      /\ fe = [e \in FEs |-> "idle"] /\ number = [e \in FEs |-> 0] /\ frame = [e \in FEs |-> 0]
      /\ enable = [e \in FEs |-> 0] /\ done = [e \in FEs |-> 0]
      /\ threadActive = [e \in FEs |-> TRUE]
  BY DEF Init, PipeInit
<1>2. RateTypes
  BY <1>1 DEF RateTypes, Steps
<1>3. Handshake
  BY <1>1 DEF Handshake, Phase, Running, Choosing
<1>4. Unended = {} /\ Fresh = {}
  BY <1>1 DEF Unended, Working, Fresh
<1>5. InTurn(0, Ended)
  <2>1. Cardinality({}) = 0
    BY FS_EmptySet
  <2> QED
    BY <1>1, <1>4, <2>1, ThreadsAssumption DEF InTurn, Ended
<1> QED
  BY <1>2, <1>3, <1>5, ListsInit DEF RateInv, InOrder

LEMMA RateStep == RateInv /\ [Next]_vars => RateInv'
<1> SUFFICES ASSUME RateInv, [Next]_vars PROVE RateInv'
  OBVIOUS
<1>1. ListInv'
  BY ListsStep DEF RateInv
<1>2. CASE AddPicture \/ Flush \/ TakeDecided \/ FindJob \/ AwaitOutput \/ PopUnlocked
  BY <1>1, <1>2, RateApi DEF RateInv
<1>3. CASE GetEncoded
  BY <1>1, <1>3, RateGetEncoded DEF RateInv
<1>4. CASE StartFrame
  BY <1>1, <1>4, RateStart DEF RateInv
<1>5. CASE NoFrame
  BY <1>1, <1>5, RateNoFrame DEF RateInv
<1>6. CASE Terminate \/ StopLookahead \/ StopFrameEncoder \/ Join
  BY <1>1, <1>6, RateClose DEF RateInv
<1>7. ASSUME NEW e \in FEs, EncoderStep(e) PROVE RateInv'
  BY <1>1, <1>7, RateEnabled, RateBetween, RateRcStart, RateFinish, RateRelease
     DEF EncoderStep, RateInv
<1>8. CASE UNCHANGED pipe \/ UNCHANGED vars
  <2>1. UNCHANGED <<rates, frame, api, cur>>
    BY <1>8 DEF vars, pipe, caller, rate, picture, events, rates
  <2>2. RateTypes' /\ InOrder'
    BY <2>1, RateUnchanged
  <2>3. Handshake'
    <3>1. ~terminated => api' \in Running /\ (api' \in Choosing => frame[cur'] = 0)
      BY <2>1 DEF RateInv, Handshake
    <3> QED
      BY <2>1, <3>1, HandshakeUnchanged
  <2> QED
    BY <1>1, <2>2, <2>3 DEF RateInv
<1> QED
  BY <1>2, <1>3, <1>4, <1>5, <1>6, <1>7, <1>8 DEF Next, ApiStep, DeciderStep

\* Rate control starts a picture when all those before it have started and
\* exactly those that are NumThreads or more before it have ended, whatever the
\* speed of the frame encoders (m_startEndOrder, ratecontrol.cpp), up to the call
\* of setFinalFrameCount().
THEOREM RateControlIsInOrder == Spec => SameRateControl
<1> DEFINE Same(e) ==
             /\ encoded - Cardinality(Unended) = Max({0, number[e] - NumThreads + 1})
             /\ \A d \in Working : number[d] < number[e] => enable[d] = 0 /\ fe[d] # "rcStart"
           A == \A e \in FEs : fe[e] = "rcStart" /\ fe'[e] = "row" /\ ~terminated /\ final = 0
                                 => Same(e)
<1>1. Spec => []RateInv
  BY RateInit, RateStep, PTL DEF Spec
<1>2. RateInv /\ [Next]_vars => [A]_vars
  <2> SUFFICES ASSUME RateInv, Next, NEW e \in FEs, fe[e] = "rcStart", fe'[e] = "row",
                      ~terminated, final = 0
               PROVE  Same(e)
    OBVIOUS
  <2>1. RcStart(e)
    <3>1. fe \in [FEs -> Steps] /\ fe'[e] # fe[e]
      BY DEF RateInv, RateTypes
    <3>2. fe' # Wake(fe)
      BY <3>1 DEF Wake
    <3>3. \E d \in FEs : EncoderStep(d)
      BY <3>1, <3>2 DEF Next, ApiStep, AddPicture, Flush, GetEncoded, TakeDecided, FindJob,
            AwaitOutput, PopUnlocked, StartFrame, NoFrame, Terminate, StopLookahead,
            StopFrameEncoder, Join, DeciderStep, pipe
    <3>4. PICK d \in FEs : EncoderStep(d)
      BY <3>3
    <3>5. CASE d = e
      BY <3>4, <3>5 DEF EncoderStep, Enabled, EncodeRow, RcEnd, WaitForChange, FinishRc, Release
    <3>6. CASE d # e
      <4>1. PICK l \in Steps : \/ fe' = [fe EXCEPT ![d] = l]
                               \/ fe' = Wake([fe EXCEPT ![d] = l])
        BY <3>4 DEF EncoderStep, Enabled, RcStart, EncodeRow, RcEnd, WaitForChange, FinishRc,
              Release, Steps
      <4>2. [fe EXCEPT ![d] = l][e] = "rcStart"
        BY <3>1, <3>6
      <4>3. fe'[e] = "rcStart"
        BY <4>1, <4>2 DEF Wake
      <4> QED
        BY <4>3
    <3> QED
      BY <3>5, <3>6
  <2>2. PICK s \in Nat : InTurn(s, Ended)
    BY DEF RateInv, InOrder
  <2>3. number[e] = s /\ Ended = IF s < NumThreads - 1 THEN 0 ELSE s - NumThreads + 1
    BY <2>1, <2>2, StartsInTurn
  <2>4. Ended = Max({0, s - NumThreads + 1})
    <3>1. PICK x \in Int : x = s - NumThreads + 1
      BY ThreadsAssumption
    <3>2. PICK o \in Int : o = 0
      OBVIOUS
    <3>3. Max({o, x}) \in {o, x} /\ Max({o, x}) >= o /\ Max({o, x}) >= x
      BY MinMaxFacts
    <3>4. Max({0, x}) \in {0, x} /\ Max({0, x}) >= 0 /\ Max({0, x}) >= x
      BY <3>2, <3>3
    <3> QED
      BY <2>3, <3>1, <3>4, ThreadsAssumption
  <2>5. \A d \in Working : number[d] < number[e] => enable[d] = 0 /\ fe[d] # "rcStart"
    <3> SUFFICES ASSUME NEW d \in Working, number[d] < number[e]
                 PROVE  enable[d] = 0 /\ fe[d] # "rcStart"
      OBVIOUS
    <3>1. d \in FEs /\ d \notin Fresh
      <4>1. d \in FEs
        BY DEF Working
      <4>2. d \in Fresh => s <= number[d]
        BY <2>2 DEF InTurn
      <4>3. number[d] \in Nat
        BY <4>1 DEF RateInv, RateTypes
      <4> QED
        BY <2>3, <4>1, <4>2, <4>3
    <3> QED
      BY <3>1 DEF Fresh, RateInv, RateTypes
  <2> QED
    BY <2>3, <2>4, <2>5 DEF Ended
<1>3. SameRateControl <=> [][A]_vars
  BY DEF SameRateControl
<1> QED
  BY <1>1, <1>2, <1>3, PTL DEF Spec

-----------------------------------------------------------------------------
(* The types, and the count of the pictures on their way *)

Closing == {"stop", "waitStop", "stopFE", "join", "closed"}

\* What the steps do not relate to anything else.
Scalars ==
    /\ full \in {1, Max({1, Depth})} /\ filled \in BOOLEAN /\ active \in BOOLEAN
    /\ ret \in {0, 1} /\ eof \in BOOLEAN /\ crashed \in BOOLEAN
    /\ lastKey \in -KeyInt .. MaxPics /\ cra \in 0 .. MaxPics - 1 /\ pending \in BOOLEAN
    /\ hasRef \in [Frames -> BOOLEAN] /\ kind \in [FEs -> Kinds]
    /\ poc \in [Frames -> -1 .. MaxPics - 1] /\ \A f \in Made : poc[f] >= 0

\* A frame encoder that stopJobs() has told to exit.
Stopped(e) ==
    /\ frame[e] = 0 /\ done[e] = 0 /\ ~threadActive[e]
    /\ \/ enable[e] = 1 /\ fe[e] = "idle"
       \/ enable[e] = 0 /\ fe[e] = "exited"

\* Handshake, and how it goes on while the encoder is closed.  A frame encoder
\* refers to pictures only from when it is asked to encode one until it is done.
Threads ==
    /\ IF terminated THEN api \in Closing ELSE api \in Running
    /\ \A e \in FEs : Phase(e) \/ Stopped(e)
    /\ \A e \in FEs : Stopped(e) \/ (enable[e] = 0 /\ fe[e] = "idle") => refs[e] = {}
    /\ api \in Running \cup {"stop", "waitStop"} => \A e \in FEs : Phase(e)
    /\ api = "stopFE" => \A e \in FEs : e >= cur => Phase(e)
    /\ api = "join" => \A e \in FEs : e > cur => Phase(e)
    /\ inHand # <<>> => api = "start"

scalars == <<param, full, filled, active, ret, eof, crashed, lastKey, cra, pending, hasRef, kind,
             poc, created>>
LEMMA ScalarsKept == ASSUME Scalars, UNCHANGED scalars PROVE Scalars'
BY DEF scalars, Scalars, Depth, Made

LEMMA ScalarsInit == Init => Scalars
<1> SUFFICES ASSUME Init PROVE Scalars
  OBVIOUS
<1>1. /\ full = Max({1, Depth}) /\ filled = FALSE /\ active = TRUE /\ ret = 0 /\ eof = FALSE
      /\ crashed = FALSE /\ lastKey = -KeyInt /\ cra = 0 /\ pending = FALSE /\ created = 0
      /\ hasRef = [f \in Frames |-> FALSE] /\ kind = [e \in FEs |-> "I"]
      /\ poc = [f \in Frames |-> -1]
  BY DEF Init, LookaheadInit, PipeInit
<1>2. lastKey \in -KeyInt .. MaxPics /\ cra \in 0 .. MaxPics - 1 /\ -1 \in -1 .. MaxPics - 1
  BY <1>1, PicsAssumption, KeyAssumption
<1>3. poc \in [Frames -> -1 .. MaxPics - 1] /\ \A f \in Made : poc[f] >= 0
  BY <1>1, <1>2 DEF Made
<1> QED
  BY <1>1, <1>2, <1>3 DEF Scalars, Kinds

\* create() numbers the pictures.
LEMMA ScalarsAdd ==
    ASSUME ListInv, Scalars, AddPicture, UNCHANGED param
    PROVE  Scalars'
<1>1. PICK f : /\ f = IF freeList = <<>> THEN created + 1 ELSE Last(freeList)
               /\ created' = IF freeList = <<>> THEN created + 1 ELSE created
               /\ poc' = [poc EXCEPT ![f] = NextPoc]
  BY DEF AddPicture
<1>2. NextPoc < MaxPics /\ NextPoc \in Int /\ created <= NextPoc
  BY NextPocFacts DEF AddPicture
<1>3. created \in Nat /\ poc \in [Frames -> -1 .. MaxPics - 1] /\ \A g \in Made : poc[g] >= 0
  BY DEF ListInv, ListTypes, Scalars
<1>4. NextPoc \in -1 .. MaxPics - 1 /\ NextPoc >= 0
  BY <1>2, <1>3, PicsAssumption
<1>5. poc' \in [Frames -> -1 .. MaxPics - 1]
  BY <1>1, <1>3, <1>4
<1>6. \A g \in Made' : g = f \/ g \in Made
  BY <1>1, <1>3 DEF Made
<1>7. Made \subseteq Frames
  BY AllMade
<1>8. ASSUME NEW g \in Made', g \in Frames PROVE poc'[g] >= 0
  BY <1>1, <1>3, <1>4, <1>6, <1>8
<1>9. Made' \subseteq Frames
  BY <1>1, <1>2, <1>3, PicsAssumption DEF Made, Frames, ListInv, ListTypes
<1>10. /\ UNCHANGED <<param, full, active, eof, crashed, lastKey, cra, pending, hasRef, kind>>
       /\ ret' = 0 /\ filled' \in BOOLEAN
  BY DEF AddPicture, marks, picture, Scalars
<1> QED
  BY <1>5, <1>8, <1>9, <1>10 DEF Scalars, Depth

\* slicetypeDecide() keeps the number of the key frame.
LEMMA ScalarsDecide ==
    ASSUME ListInv, Scalars, NEW t \in Deciders, GoOnDeciding(t), UNCHANGED <<param, pipe>>
    PROVE  Scalars'
<1>1. /\ UNCHANGED <<param, full, filled, active, ret, eof, crashed, cra, pending, hasRef, kind,
                     poc, created>>
      /\ UNCHANGED lastKey \/ Choose(t)
  BY DEF GoOnDeciding, Choose, LockOutput, PushOutput, EndDecide, pipe, caller, rate, buffer,
         lists, marks, picture
<1>2. CASE UNCHANGED lastKey
  BY <1>1, <1>2, ScalarsKept DEF scalars
<1>3. CASE Choose(t)
  <2>1. PICK b \in 0 .. Min({BFrames, Len(input) - 1}) :
           lastKey' = IF IsKey(input[b + 1]) THEN poc[input[b + 1]] ELSE lastKey
    BY <1>3 DEF Choose
  <2>2. b + 1 \in DOMAIN input
    <3>1. Len(input) \in Nat /\ BFrames \in Int
      BY ParamsAssumption DEF ListInv, ListTypes, BFrames
    <3>2. PICK n \in Int : n = Len(input) - 1
      BY <3>1
    <3>3. PICK a \in Int : a = BFrames
      BY <3>1
    <3>4. Min({a, n}) <= n /\ Min({a, n}) \in Int
      BY MinMaxFacts
    <3> QED
      BY <2>1, <3>1, <3>2, <3>3, <3>4 DEF ListInv, ListTypes
  <2>3. input[b + 1] \in Frames
    BY <2>2, AllMade DEF ListInv, ListTypes
  <2>4. lastKey' \in -KeyInt .. MaxPics
    <3>1. poc[input[b + 1]] \in -1 .. MaxPics - 1
      BY <2>3 DEF Scalars
    <3> QED
      BY <2>1, <3>1, KeyAssumption, PicsAssumption DEF Scalars
  <2> QED
    BY <1>1, <2>4 DEF Scalars, Depth, Made
<1> QED
  BY <1>1, <1>2, <1>3

\* prepareEncode() keeps the number of a key frame, and marks pictures.
LEMMA ScalarsStart ==
    ASSUME ListInv, Scalars, StartFrame, UNCHANGED param
    PROVE  Scalars'
<1>1. PICK f : f = inHand[1]
  OBVIOUS
<1>2. PICK k : k = inHand[2]
  OBVIOUS
<1>3. f \in Frames /\ k \in Kinds
  BY <1>1, <1>2, AllMade DEF StartFrame, ListInv, ListTypes, Typed
<1>4. /\ UNCHANGED <<full, filled, active, ret, eof, crashed, lastKey, poc, created>>
      /\ hasRef' = [g \in Frames |-> Marked(f, k)[g] /\ (g = f \/ g \in RPS(f, k))]
      /\ cra' = IF k = "I" /\ poc[f] > 0 THEN poc[f] ELSE cra
      /\ pending' = ((k = "I" /\ poc[f] > 0) \/ (pending /\ ~Refresh(f)))
      /\ kind' = [kind EXCEPT ![cur] = k]
  BY <1>1, <1>2 DEF StartFrame, PrepareEncode, lookahead
<1>5. hasRef' \in [Frames -> BOOLEAN] /\ pending' \in BOOLEAN /\ kind' \in [FEs -> Kinds]
  BY <1>3, <1>4 DEF Scalars
<1>6. cra' \in 0 .. MaxPics - 1
  <2>1. poc[f] \in -1 .. MaxPics - 1
    BY <1>3 DEF Scalars
  <2> QED
    BY <1>4, <2>1 DEF Scalars
<1>7. Made' = Made
  BY <1>4 DEF Made
<1> QED
  BY <1>4, <1>5, <1>6, <1>7 DEF Scalars, Depth

LEMMA ScalarsStep == ListInv /\ Scalars /\ [Next]_vars => Scalars'
<1> SUFFICES ASSUME ListInv, Scalars, [Next]_vars PROVE Scalars'
  OBVIOUS
<1>p. UNCHANGED param
  BY DEF Next, Runs, vars
<1>1. CASE AddPicture
  BY <1>1, <1>p, ScalarsAdd
<1>2. CASE StartFrame
  BY <1>2, <1>p, ScalarsStart
<1>3. ASSUME NEW t \in Deciders, DeciderStep(t) PROVE Scalars'
  BY <1>3, <1>p, ScalarsDecide DEF DeciderStep
<1>4. CASE Flush \/ GetEncoded \/ PopUnlocked \/ StopLookahead
  <2>1. /\ UNCHANGED <<param, lastKey, cra, pending, hasRef, kind, poc, created>>
        /\ ret' \in {ret, 0, 1} /\ eof' \in {eof, TRUE} /\ full' \in {full, 1}
        /\ filled' \in {filled, TRUE} /\ active' \in {active, FALSE}
        /\ crashed' \in {crashed, TRUE, FALSE}
    BY <1>4, <1>p DEF Flush, GetEncoded, PopUnlocked, StopLookahead, lookahead, buffer, lists, marks,
          picture
  <2>2. /\ full' \in {1, Max({1, Depth})} /\ Depth' = Depth /\ filled' \in BOOLEAN
        /\ active' \in BOOLEAN /\ ret' \in {0, 1} /\ eof' \in BOOLEAN /\ crashed' \in BOOLEAN
    BY <2>1 DEF Scalars, Depth
  <2> QED
    BY <2>1, <2>2 DEF Scalars, Made
<1>5. CASE TakeDecided \/ FindJob \/ AwaitOutput \/ NoFrame \/ Terminate
           \/ StopFrameEncoder \/ Join
  <2>1. UNCHANGED scalars
    BY <1>5, <1>p DEF TakeDecided, FindJob, BeginDecide, AwaitOutput, NoFrame, Terminate,
          StopFrameEncoder, Join, lookahead, buffer, lists, marks, picture, scalars
  <2> QED
    BY <2>1, ScalarsKept
<1>6. ASSUME NEW e \in FEs, EncoderStep(e) PROVE Scalars'
  <2>1. UNCHANGED scalars
    BY <1>6, <1>p DEF EncoderStep, Enabled, RcStart, EncodeRow, RcEnd, WaitForChange, FinishRc,
          Release, lookahead, caller, buffer, lists, marks, picture, scalars
  <2> QED
    BY <2>1, ScalarsKept
<1>7. ASSUME NEW t \in Helpers, BeginDecide(t), UNCHANGED pipe PROVE Scalars'
  <2>1. UNCHANGED scalars
    BY <1>7, <1>p DEF BeginDecide, pipe, caller, rate, buffer, lists, marks, picture, scalars
  <2> QED
    BY <2>1, ScalarsKept
<1>8. CASE UNCHANGED vars
  <2>1. UNCHANGED scalars
    BY <1>8 DEF vars, lookahead, pipe, caller, rate, buffer, lists, marks, picture, scalars
  <2> QED
    BY <2>1, ScalarsKept
<1> QED
  BY <1>1, <1>2, <1>3, <1>4, <1>5, <1>6, <1>7, <1>8 DEF Next, ApiStep

-----------------------------------------------------------------------------
(* The threads *)

LEMMA ThreadsInit == Init => Threads
<1> SUFFICES ASSUME Init PROVE Threads
  OBVIOUS
<1>1. /\ terminated = FALSE /\ api = "call" /\ inHand = <<>>
      /\ fe = [e \in FEs |-> "idle"] /\ frame = [e \in FEs |-> 0]
      /\ enable = [e \in FEs |-> 0] /\ done = [e \in FEs |-> 0] /\ refs = [e \in FEs |-> {}]
      /\ threadActive = [e \in FEs |-> TRUE]
  BY DEF Init, PipeInit
<1>2. \A e \in FEs : Phase(e)
  BY <1>1 DEF Phase
<1> QED
  BY <1>1, <1>2 DEF Threads, Running

\* Only the API thread moves.
threads == <<fe, frame, enable, done, threadActive, refs>>
LEMMA ThreadsApi ==
    ASSUME Threads, UNCHANGED <<threads, terminated>>,
           IF terminated THEN api' \in Closing ELSE api' \in Running,
           api' \in {"stop", "waitStop"} => api \in Running \cup {"stop", "waitStop"},
           api' = "stopFE" => \/ \A e \in FEs : Phase(e)
                              \/ \A e \in FEs : e >= cur' => Phase(e),
           api' = "join" => \A e \in FEs : e > cur' => Phase(e),
           inHand' # <<>> => api' = "start"
    PROVE  Threads'
<1>1. \A e \in FEs : (Phase(e)' <=> Phase(e)) /\ (Stopped(e)' <=> Stopped(e))
  BY DEF threads, Phase, Stopped
<1>2. api' \in Running => ~terminated
  BY DEF Running, Choosing, Closing
<1>3. ~terminated => \A e \in FEs : Phase(e)
  BY DEF Threads
<1>4. api \in Running \cup {"stop", "waitStop"} => \A e \in FEs : Phase(e)
  BY DEF Threads
<1> QED
  BY <1>1, <1>2, <1>3, <1>4 DEF Threads, threads

\* Steps of the API thread that do not touch a frame encoder.
LEMMA ThreadsCalls ==
    ASSUME Threads, RateTypes,
           AddPicture \/ Flush \/ TakeDecided \/ FindJob \/ AwaitOutput \/ PopUnlocked
           \/ StopLookahead
    PROVE  Threads'
<1>1. UNCHANGED <<threads, terminated>>
  BY DEF AddPicture, Flush, TakeDecided, FindJob, AwaitOutput, PopUnlocked, StopLookahead, rate,
         picture, events, threads
<1>2. IF terminated THEN api \in Closing ELSE api \in Running
  BY DEF Threads
<1>3. /\ api \in Running => api' \in Choosing \cup {"get"}
      /\ api \in Closing => /\ api \in {"stop", "waitStop"} /\ api' \in {"waitStop", "stopFE"}
  BY DEF AddPicture, Flush, TakeDecided, FindJob, AwaitOutput, PopUnlocked, StopLookahead, Running,
         Choosing, Closing
<1>4. inHand' # <<>> => api' = "start"
  <2>1. CASE TakeDecided
    <3>1. inHand = <<>>
      BY <2>1 DEF TakeDecided, Threads
    <3> QED
      BY <2>1, <3>1 DEF TakeDecided
  <2>2. CASE PopUnlocked
    BY <2>2 DEF PopUnlocked
  <2>3. CASE AddPicture \/ Flush \/ FindJob \/ AwaitOutput \/ StopLookahead
    <3>1. inHand' = inHand /\ api # "start"
      BY <2>3 DEF AddPicture, Flush, FindJob, AwaitOutput, StopLookahead
    <3> QED
      BY <3>1 DEF Threads
  <2> QED
    BY <2>1, <2>2, <2>3
<1>5. api' = "stopFE" => \A e \in FEs : Phase(e)
  BY <1>2, <1>3 DEF Threads, Running, Choosing, Closing
<1> QED
  BY <1>1, <1>2, <1>3, <1>4, <1>5, ThreadsApi DEF RateTypes, Running, Choosing, Closing

\* getEncodedPicture() takes the picture of an encoder that is done.
LEMMA ThreadsGetEncoded ==
    ASSUME RateInv, Threads, GetEncoded
    PROVE  Threads'
<1>1. /\ api = "get" /\ api' = "decide"
      /\ UNCHANGED <<terminated, fe, enable, threadActive, refs, inHand, cur>>
  BY DEF GetEncoded, rate
<1>2. cur \in FEs /\ frame \in [FEs -> Nat] /\ ~terminated /\ \A e \in FEs : Phase(e)
  BY <1>1 DEF RateInv, ListInv, ListTypes, Threads, Running, Choosing, Closing
<1>3. \A e \in FEs : Phase(e)'
  <2>1. ~terminated' /\ Handshake'
    BY <1>1, <1>2, RateGetEncoded
  <2> QED
    BY <2>1 DEF Handshake
<1>4. \A e \in FEs : Phase(e)' => ~Stopped(e)'
  BY DEF Phase, Stopped
<1>5. \A e \in FEs : enable'[e] = 0 /\ fe'[e] = "idle" => refs'[e] = {}
  BY <1>1 DEF Threads
<1>6. inHand' = <<>>
  BY <1>1 DEF Threads
<1> QED
  BY <1>1, <1>2, <1>3, <1>4, <1>5, <1>6 DEF Threads, Running, Choosing

\* startCompressFrame() gives a picture to an encoder that has none.
LEMMA ThreadsStart ==
    ASSUME RateInv, Threads, StartFrame
    PROVE  Threads'
<1>1. /\ api = "start" /\ api' \in {"call", "close"} /\ inHand' = <<>>
      /\ enable' = [enable EXCEPT ![cur] = @ + 1]
      /\ refs' = [refs EXCEPT ![cur] = {<<g, poc[g]>> : g \in RefPics(inHand[1], inHand[2])}]
      /\ UNCHANGED <<terminated, fe>>
  BY DEF StartFrame, PrepareEncode, Return, rate
<1>2. /\ cur \in FEs /\ enable \in [FEs -> Nat] /\ refs \in [FEs -> SUBSET (Made \X Int)]
      /\ ~terminated
  BY <1>1 DEF RateInv, ListInv, ListTypes, RateTypes, Threads, Running, Choosing, Closing
<1>3. \A e \in FEs : Phase(e)'
  <2>1. ~terminated' /\ Handshake'
    BY <1>1, <1>2, RateStart
  <2> QED
    BY <2>1 DEF Handshake
<1>4. \A e \in FEs : Phase(e)' => ~Stopped(e)'
  BY DEF Phase, Stopped
<1>5. ASSUME NEW e \in FEs, enable'[e] = 0, fe'[e] = "idle" PROVE refs'[e] = {}
  <2>1. e # cur
    BY <1>1, <1>2, <1>5
  <2>2. enable[e] = 0 /\ fe[e] = "idle" /\ refs'[e] = refs[e]
    BY <1>1, <1>2, <1>5, <2>1
  <2> QED
    BY <2>2 DEF Threads
<1> QED
  BY <1>1, <1>2, <1>3, <1>4, <1>5 DEF Threads, Running, Choosing

\* An empty call, and encoder_close(), wake the encoders that sleep.
LEMMA ThreadsWake ==
    ASSUME RateTypes, Threads, NoFrame \/ Terminate
    PROVE  Threads'
<1>1. /\ UNCHANGED <<frame, enable, done, threadActive, refs, inHand>>
      /\ fe' = Wake(fe) \/ fe' = fe
      /\ inHand = <<>>
      /\ IF terminated' THEN api' = "stop" ELSE api' \in {"call", "close"}
      /\ terminated' = terminated \/ terminated'
  <2>1. CASE NoFrame
    <3>1. api = "start" /\ terminated' = terminated /\ api' \in {"call", "close"}
      BY <2>1 DEF NoFrame, Return
    <3>2. ~terminated
      BY <3>1 DEF Threads, Closing
    <3> QED
      BY <2>1, <3>1, <3>2 DEF NoFrame, picture, events
  <2>2. CASE Terminate
    BY <2>2 DEF Terminate, picture, events, Threads
  <2> QED
    BY <2>1, <2>2
<1>2. \A e \in FEs : Phase(e)
  <2>1. api \in Running
    BY DEF NoFrame, Terminate, Running, Choosing
  <2> QED
    BY <2>1 DEF Threads
<1>3. \A e \in FEs : fe'[e] = fe[e] \/ (fe[e] = "asleep" /\ fe'[e] = "rcEnd")
  <2>1. fe \in [FEs -> Steps]
    BY DEF RateTypes
  <2>2. \A e \in FEs : Wake(fe)[e] = fe[e] \/ (fe[e] = "asleep" /\ Wake(fe)[e] = "rcEnd")
    BY <2>1, WakeFacts
  <2> QED
    BY <1>1, <2>2
<1>4. ASSUME NEW e \in FEs PROVE Phase(e)' /\ ~Stopped(e)'
  BY <1>1, <1>2, <1>3 DEF Phase, Stopped
<1>5. \A e \in FEs : enable'[e] = 0 /\ fe'[e] = "idle" => refs'[e] = {}
  BY <1>1, <1>3 DEF Threads
<1>6. inHand' = <<>>
  BY <1>1
<1> QED
  BY <1>1, <1>4, <1>5, <1>6 DEF Threads, Running, Choosing, Closing

\* stopJobs() tells one encoder after the other to exit.
LEMMA ThreadsStopEncoder ==
    ASSUME RateInv, Threads, StopFrameEncoder
    PROVE  Threads'
<1>1. /\ api = "stopFE" /\ api' = "join" /\ (frame[cur] # 0 => done[cur] > 0)
      /\ done' = [done EXCEPT ![cur] = IF frame[cur] # 0 THEN @ - 1 ELSE @]
      /\ frame' = [frame EXCEPT ![cur] = 0]
      /\ threadActive' = [threadActive EXCEPT ![cur] = FALSE]
      /\ enable' = [enable EXCEPT ![cur] = @ + 1]
      /\ UNCHANGED <<cur, terminated, fe, refs, inHand>>
  BY DEF StopFrameEncoder, rate
<1>2. /\ cur \in FEs /\ frame \in [FEs -> Nat] /\ enable \in [FEs -> Nat] /\ done \in [FEs -> Nat]
      /\ threadActive \in [FEs -> BOOLEAN] /\ FEs \subseteq Int
  BY DEF RateInv, ListInv, ListTypes, RateTypes, FEs
<1>3. \A e \in FEs : e # cur => /\ done'[e] = done[e] /\ frame'[e] = frame[e]
                                /\ threadActive'[e] = threadActive[e] /\ enable'[e] = enable[e]
  BY <1>1, <1>2
<1>4. \A e \in FEs : e >= cur => Phase(e)
  BY <1>1 DEF Threads
<1>5. enable[cur] = 0 /\ fe[cur] = "idle" /\ (frame[cur] # 0 => done[cur] = 1)
      /\ (frame[cur] = 0 => done[cur] = 0)
  <2>1. Phase(cur)
    BY <1>2, <1>4
  <2>2. frame[cur] = 0 \/ done[cur] > 0
    BY <1>1
  <2>3. ~ (enable[cur] > 0 \/ fe[cur] # "idle")
    BY <1>2, <2>1, <2>2 DEF Phase
  <2> QED
    BY <1>2, <2>1, <2>2, <2>3 DEF Phase
<1>6. Stopped(cur)'
  <2>1. frame'[cur] = 0 /\ ~threadActive'[cur] /\ enable'[cur] = 1 /\ fe'[cur] = "idle"
    BY <1>1, <1>2, <1>5
  <2>2. done'[cur] = 0
    BY <1>1, <1>2, <1>5
  <2> QED
    BY <1>1, <2>1, <2>2 DEF Stopped
<1>7. ASSUME NEW e \in FEs, e # cur PROVE (Phase(e)' <=> Phase(e)) /\ (Stopped(e)' <=> Stopped(e))
  <2>1. /\ done'[e] = done[e] /\ frame'[e] = frame[e] /\ enable'[e] = enable[e]
        /\ threadActive'[e] = threadActive[e] /\ fe'[e] = fe[e]
    BY <1>1, <1>3, <1>7
  <2>2. Phase(e)' <=> Phase(e)
    BY <2>1 DEF Phase
  <2>3. Stopped(e)' <=> Stopped(e)
    BY <2>1 DEF Stopped
  <2> QED
    BY <2>2, <2>3
<1>8. refs[cur] = {}
  BY <1>2, <1>5 DEF Threads
<1>9. ASSUME NEW e \in FEs, Stopped(e)' \/ (enable'[e] = 0 /\ fe'[e] = "idle")
      PROVE  refs'[e] = {}
  <2>1. CASE e = cur
    BY <1>1, <1>8, <2>1
  <2>2. CASE e # cur
    BY <1>1, <1>3, <1>7, <1>9, <2>2 DEF Threads
  <2> QED
    BY <2>1, <2>2
<1>10. \A e \in FEs : e > cur => Phase(e)'
  BY <1>2, <1>4, <1>7
<1>11. ASSUME NEW e \in FEs PROVE Phase(e)' \/ Stopped(e)'
  <2>1. Phase(e) \/ Stopped(e)
    BY DEF Threads
  <2>2. CASE e = cur
    BY <1>1, <1>6, <2>2 DEF Stopped
  <2>3. CASE e # cur
    BY <1>7, <2>1, <2>3
  <2> QED
    BY <2>2, <2>3
<1> QED
  BY <1>1, <1>9, <1>10, <1>11 DEF Threads, Running, Choosing, Closing

LEMMA ThreadsJoin ==
    ASSUME RateInv, Threads, Join
    PROVE  Threads'
<1>1. /\ api = "join" /\ UNCHANGED <<threads, terminated, inHand>>
      /\ \/ api' = "stopFE" /\ cur' = cur + 1
         \/ api' = "closed"
  BY DEF Join, rate, picture, events, threads
<1>2. terminated /\ inHand' = <<>>
  BY <1>1 DEF Threads, Running, Choosing
<1>3. cur \in Int /\ FEs \subseteq Int
  BY DEF RateInv, ListInv, ListTypes, FEs
<1>4. api' = "stopFE" => \A e \in FEs : e >= cur' => Phase(e)
  BY <1>1, <1>3 DEF Threads
<1> QED
  BY <1>1, <1>2, <1>4, ThreadsApi DEF Closing

\* A step of a frame encoder, that has a picture or is told to exit.
LEMMA ThreadsEncoder ==
    ASSUME RateInv, Threads, NEW e \in FEs, EncoderStep(e)
    PROVE  Threads'
<1>1. UNCHANGED <<frame, threadActive, terminated, api, inHand, cur>>
  BY DEF EncoderStep, Enabled, RcStart, EncodeRow, RcEnd, WaitForChange, FinishRc, Release, caller,
         picture, events, rate
<1>2. /\ fe \in [FEs -> Steps] /\ enable \in [FEs -> Nat] /\ done \in [FEs -> Nat]
      /\ threadActive \in [FEs -> BOOLEAN] /\ refs \in [FEs -> SUBSET (Made \X Int)]
  BY DEF RateInv, RateTypes, ListInv, ListTypes
\* what becomes of the encoder
<1>3. /\ Phase(e) => Phase(e)'
      /\ Stopped(e) => Stopped(e)'
      /\ Stopped(e)' \/ (enable'[e] = 0 /\ fe'[e] = "idle") => refs'[e] = {}
  <2>1. CASE Enabled(e)
    <3>1. /\ fe[e] = "idle" /\ enable[e] > 0 /\ enable'[e] = enable[e] - 1
          /\ fe'[e] = IF threadActive[e] THEN "rcStart" ELSE "exited"
          /\ UNCHANGED <<done, refs>>
      BY <1>2, <2>1 DEF Enabled, picture
    <3>2. Phase(e) => Phase(e)' /\ ~Stopped(e)'
      BY <1>1, <1>2, <3>1 DEF Phase, Stopped
    <3>3. Stopped(e) => Stopped(e)'
      BY <1>1, <1>2, <3>1 DEF Stopped
    <3>4. Stopped(e) => refs[e] = {}
      BY DEF Threads
    <3>5. Phase(e) \/ Stopped(e)
      BY DEF Threads
    <3>6. fe'[e] # "idle"
      BY <3>1
    <3> QED
      BY <3>1, <3>2, <3>3, <3>4, <3>5, <3>6
  <2>2. CASE \/ RcStart(e) \/ EncodeRow(e) \/ RcEnd(e) \/ WaitForChange(e) \/ FinishRc(e)
    <3>0. /\ fe[e] \notin {"idle", "exited"} /\ UNCHANGED <<enable, done, refs>>
          /\ \E l \in Steps \ {"idle", "exited"} :
                fe' = [fe EXCEPT ![e] = l] \/ fe' = Wake([fe EXCEPT ![e] = l])
      BY <2>2 DEF RcStart, EncodeRow, RcEnd, WaitForChange, FinishRc, Steps, picture, events
    <3>1. fe'[e] \notin {"idle", "exited"}
      <4>1. PICK l \in Steps \ {"idle", "exited"} :
               fe' = [fe EXCEPT ![e] = l] \/ fe' = Wake([fe EXCEPT ![e] = l])
        BY <3>0
      <4>2. [fe EXCEPT ![e] = l][e] = l
        BY <1>2
      <4> QED
        BY <4>1, <4>2 DEF Wake
    <3> QED
      BY <1>1, <3>0, <3>1 DEF Phase, Stopped
  <2>3. CASE Release(e)
    <3>1. /\ fe[e] = "release" /\ fe'[e] = "idle" /\ done'[e] = done[e] + 1 /\ refs'[e] = {}
          /\ enable' = enable
      BY <1>2, <2>3 DEF Release
    <3>2. Phase(e) => enable[e] = 0 /\ done[e] = 0 /\ frame[e] # 0
      BY <1>2, <3>1 DEF Phase
    <3>3. Phase(e) => Phase(e)'
      BY <1>1, <3>1, <3>2 DEF Phase
    <3> QED
      BY <3>1, <3>3 DEF Stopped
  <2> QED
    BY <2>1, <2>2, <2>3 DEF EncoderStep
\* the others may be woken
<1>4. ASSUME NEW d \in FEs, d # e
      PROVE  /\ Phase(d) => Phase(d)'
             /\ Stopped(d) => Stopped(d)'
             /\ Stopped(d)' \/ (enable'[d] = 0 /\ fe'[d] = "idle") => refs'[d] = {}
  <2>1. /\ enable'[d] = enable[d] /\ done'[d] = done[d] /\ refs'[d] = refs[d]
        /\ fe'[d] = fe[d] \/ (fe[d] = "asleep" /\ fe'[d] = "rcEnd")
    <3>1. enable'[d] = enable[d] /\ done'[d] = done[d] /\ refs'[d] = refs[d]
      BY <1>2, <1>4 DEF EncoderStep, Enabled, RcStart, EncodeRow, RcEnd, WaitForChange, FinishRc,
            Release, events, picture
    <3>2. PICK l \in Steps : \/ fe' = [fe EXCEPT ![e] = l]
                             \/ fe' = Wake([fe EXCEPT ![e] = l])
      BY DEF EncoderStep, Enabled, RcStart, EncodeRow, RcEnd, WaitForChange, FinishRc,
            Release, Steps
    <3>3. [fe EXCEPT ![e] = l][d] = fe[d]
      BY <1>2, <1>4
    <3> QED
      BY <3>1, <3>2, <3>3 DEF Wake
  <2>2. Phase(d) => Phase(d)'
    BY <1>1, <2>1 DEF Phase
  <2>3. (Stopped(d) => Stopped(d)') /\ (Stopped(d)' => Stopped(d))
    BY <1>1, <2>1 DEF Stopped
  <2>4. Stopped(d) \/ (enable[d] = 0 /\ fe[d] = "idle") => refs[d] = {}
    BY DEF Threads
  <2> QED
    BY <2>1, <2>2, <2>3, <2>4
<1>5. \A d \in FEs : /\ Phase(d) => Phase(d)'
                     /\ Stopped(d) => Stopped(d)'
                     /\ Stopped(d)' \/ (enable'[d] = 0 /\ fe'[d] = "idle") => refs'[d] = {}
  BY <1>3, <1>4
<1> QED
  BY <1>1, <1>5 DEF Threads

LEMMA ThreadsStep == RateInv /\ Threads /\ [Next]_vars => Threads'
<1> SUFFICES ASSUME RateInv, Threads, [Next]_vars PROVE Threads'
  OBVIOUS
<1>1. CASE \/ AddPicture \/ Flush \/ TakeDecided \/ FindJob \/ AwaitOutput \/ PopUnlocked
           \/ StopLookahead
  BY <1>1, ThreadsCalls DEF RateInv
<1>2. CASE GetEncoded
  BY <1>2, ThreadsGetEncoded
<1>3. CASE StartFrame
  BY <1>3, ThreadsStart
<1>4. CASE NoFrame \/ Terminate
  BY <1>4, ThreadsWake DEF RateInv
<1>5. CASE StopFrameEncoder
  BY <1>5, ThreadsStopEncoder
<1>6. CASE Join
  BY <1>6, ThreadsJoin
<1>7. ASSUME NEW e \in FEs, EncoderStep(e) PROVE Threads'
  BY <1>7, ThreadsEncoder
<1>8. CASE UNCHANGED pipe \/ UNCHANGED vars
  <2>1. UNCHANGED <<threads, terminated, api, cur, inHand>>
    BY <1>8 DEF vars, pipe, caller, rate, picture, events, threads
  <2>2. \A e \in FEs : (Phase(e)' <=> Phase(e)) /\ (Stopped(e)' <=> Stopped(e))
    BY <2>1 DEF threads, Phase, Stopped
  <2> QED
    BY <2>1, <2>2 DEF Threads, threads
<1> QED
  BY <1>1, <1>2, <1>3, <1>4, <1>5, <1>6, <1>7, <1>8 DEF Next, ApiStep, DeciderStep

-----------------------------------------------------------------------------
(* The reconstructed rows *)

\* The next row of a picture that is encoded is the one after those that are
\* reconstructed; a picture outside the DPB has none.
RowsDone ==
    /\ recon \in [Frames -> 0 .. NumRows] /\ row \in [FEs -> 0 .. NumRows - 1]
    /\ \A f \in Frames : f \notin Present => recon[f] = 0
    /\ \A e \in FEs : row[e] # 0 => fe[e] = "row"
    /\ \A e \in FEs : frame[e] # 0 /\ (enable[e] > 0 \/ fe[e] \in {"rcStart", "row"})
                         => recon[frame[e]] = row[e]

rows == <<recon, row, picList, frame, enable>>
LEMMA RowsKept ==
    ASSUME RowsDone, UNCHANGED rows,
           \A e \in FEs : fe'[e] = fe[e] \/ {fe[e], fe'[e]} \cap {"idle", "rcStart", "row"} = {}
    PROVE  RowsDone'
BY DEF rows, RowsDone, Present

LEMMA RowsInit == Init => RowsDone
<1> SUFFICES ASSUME Init PROVE RowsDone
  OBVIOUS
<1>1. /\ recon = [f \in Frames |-> 0] /\ row = [e \in FEs |-> 0] /\ frame = [e \in FEs |-> 0]
  BY DEF Init, PipeInit
<1>2. 0 \in 0 .. NumRows /\ 0 \in 0 .. NumRows - 1
  BY RowsAssumption
<1> QED
  BY <1>1, <1>2 DEF RowsDone

\* recycleUnreferenced() moves the unused pictures of the picture list to the
\* free list, and their rows are reconstructed no more.
LEMMA RecycleFacts ==
    ASSUME ListInv, NEW c, Recycle(c)
    PROVE  /\ Present' = {f \in Present : ~Unused(f, c)}
           /\ Free' = Free \cup {f \in Present : Unused(f, c)}
           /\ \A f \in Frames : recon'[f] = IF f \in Present /\ Unused(f, c) THEN 0 ELSE recon[f]
<1>1. PICK l \in Seq(Made) : l = picList
  BY DEF ListInv, ListTypes
<1>2. Range(Select(l, {f \in Frames : ~Unused(f, c)})) = Range(l) \cap {f \in Frames : ~Unused(f, c)}
  BY SelectFacts
<1>3. Present \subseteq Frames
  BY AllMade
<1>4. picList' = Select(l, {f \in Frames : ~Unused(f, c)})
  BY <1>1 DEF Recycle
<1>5. Present' = Range(l) \cap {f \in Frames : ~Unused(f, c)}
  BY <1>2, <1>4 DEF Present
<1>6. Present' = {f \in Present : ~Unused(f, c)}
  BY <1>1, <1>3, <1>5 DEF Present
<1>7. \A f \in Frames : Contains(picList, f) <=> f \in Present
  BY <1>1 DEF Present, Range, Contains
<1>8. \A f \in Frames : recon'[f] = RowsLeft(f, c)
  BY DEF Recycle
<1>9. Free' = Free \cup {f \in Present : Unused(f, c)}
  <2>1. PICK v \in Seq(Made) : v = freeList
    BY DEF ListInv, ListTypes
  <2>2. PICK u \in Seq(Made) : /\ u = Select(l, {f \in Frames : Unused(f, c)})
                               /\ Range(u) = Range(l) \cap {f \in Frames : Unused(f, c)}
    BY SelectFacts
  <2>3. Range(v \o u) = Range(v) \cup Range(u)
    BY ConcatFacts
  <2>4. freeList' = v \o u
    BY <1>1, <2>1, <2>2 DEF Recycle
  <2> QED
    BY <1>1, <1>3, <2>1, <2>2, <2>3, <2>4 DEF Free, Present
<1> QED
  BY <1>6, <1>7, <1>8, <1>9 DEF RowsLeft

LEMMA RowsGetEncoded ==
    ASSUME ListInv, ListInv', RowsDone, GetEncoded
    PROVE  RowsDone'
<1>1. UNCHANGED <<row, fe, enable, cur>>
  BY DEF GetEncoded
<1>2. CASE UNCHANGED <<picList, recon, frame>>
  BY <1>1, <1>2, RowsKept DEF rows
<1>3. CASE frame' = [frame EXCEPT ![cur] = 0] /\ Recycle(count')
  <2>1. PICK c : c = count'
    OBVIOUS
  <2>2. /\ Present' = {f \in Present : ~Unused(f, c)}
        /\ \A f \in Frames : recon'[f] = IF f \in Present /\ Unused(f, c) THEN 0 ELSE recon[f]
        /\ recon' = [f \in Frames |-> RowsLeft(f, c)]
    BY <1>3, <2>1, RecycleFacts DEF Recycle
  <2>3. recon' \in [Frames -> 0 .. NumRows]
    <3>1. \A f \in Frames : recon'[f] \in 0 .. NumRows
      BY <2>2, RowsAssumption DEF RowsDone
    <3> QED
      BY <2>2, <3>1
  <2>4. \A f \in Frames : f \notin Present' => recon'[f] = 0
    BY <2>2 DEF RowsDone
  <2>5. ASSUME NEW e \in FEs, frame'[e] # 0
        PROVE  frame'[e] = frame[e] /\ recon'[frame'[e]] = recon[frame[e]]
    <3>1. frame'[e] \in Present' /\ frame \in [FEs -> Nat] /\ cur \in FEs
      BY <2>5 DEF ListInv, ListTypes, InDPB
    <3>2. frame'[e] = frame[e]
      BY <1>3, <2>5, <3>1
    <3>3. Present \subseteq Frames
      BY AllMade
    <3> QED
      BY <2>2, <3>1, <3>2, <3>3
  <2> QED
    BY <1>1, <2>3, <2>4, <2>5 DEF RowsDone
<1> QED
  BY <1>2, <1>3 DEF GetEncoded

LEMMA RowsStart ==
    ASSUME RateInv, ListInv', Threads, RowsDone, StartFrame
    PROVE  RowsDone'
<1>1. PICK f : f = inHand[1]
  OBVIOUS
<1>2. /\ api = "start" /\ inHand # <<>> /\ picList' = <<f>> \o picList
      /\ frame' = [frame EXCEPT ![cur] = f] /\ enable' = [enable EXCEPT ![cur] = @ + 1]
      /\ UNCHANGED <<recon, row, fe>>
  BY <1>1 DEF StartFrame, PrepareEncode
<1>3. /\ cur \in FEs /\ frame \in [FEs -> Nat] /\ enable \in [FEs -> Nat]
      /\ picList \in Seq(Made) /\ f \in Made
  BY <1>1, <1>2 DEF RateInv, ListInv, ListTypes, RateTypes, Typed
<1>4. f \in OnTheWay
  BY <1>1, <1>2 DEF OnTheWay, Handed
<1>5. f \notin Present /\ f \in Frames
  BY <1>4, AllMade DEF RateInv, ListInv, ListsApart
<1>6. fe[cur] = "idle" /\ row[cur] = 0
  <2>1. ~terminated
    BY <1>2 DEF Threads, Closing
  <2>2. frame[cur] = 0 /\ Phase(cur)
    BY <1>2, <1>3, <2>1 DEF RateInv, Handshake, Choosing
  <2> QED
    BY <1>3, <2>2 DEF Phase, RowsDone
<1>7. Present \subseteq Present'
  <2>1. PICK v : v = <<f>>
    OBVIOUS
  <2>2. v \in Seq(Made)
    BY <1>3, <2>1
  <2>3. PICK l \in Seq(Made) : l = picList
    BY <1>3
  <2>4. Range(v \o l) = Range(v) \cup Range(l)
    BY <2>2, ConcatFacts
  <2> QED
    BY <1>2, <2>1, <2>3, <2>4 DEF Present
<1>8. ASSUME NEW e \in FEs, frame'[e] # 0, enable'[e] > 0 \/ fe[e] \in {"rcStart", "row"}
      PROVE  recon[frame'[e]] = row[e]
  <2>1. CASE e = cur
    BY <1>2, <1>3, <1>5, <1>6, <2>1 DEF RowsDone
  <2>2. CASE e # cur
    BY <1>2, <1>3, <1>8, <2>2 DEF RowsDone
  <2> QED
    BY <2>1, <2>2
<1> QED
  BY <1>2, <1>7, <1>8 DEF RowsDone

\* An encoder takes the picture it is given, and encodes its rows.
LEMMA RowsEncoder ==
    ASSUME RateInv, Threads, RowsDone, NEW e \in FEs, EncoderStep(e)
    PROVE  RowsDone'
<1>1. /\ UNCHANGED <<picList, frame>> /\ Present' = Present
      /\ fe \in [FEs -> Steps] /\ enable \in [FEs -> Nat] /\ frame \in [FEs -> Nat]
  BY DEF EncoderStep, Enabled, RcStart, EncodeRow, RcEnd, WaitForChange, FinishRc, Release, buffer,
         lists, picture, Present, RateInv, RateTypes, ListInv, ListTypes
<1>2. ASSUME NEW d \in FEs, d # e
      PROVE  fe'[d] = fe[d] \/ (fe[d] = "asleep" /\ fe'[d] = "rcEnd")
  <2>1. PICK l \in Steps : \/ fe' = [fe EXCEPT ![e] = l]
                           \/ fe' = Wake([fe EXCEPT ![e] = l])
    BY DEF EncoderStep, Enabled, RcStart, EncodeRow, RcEnd, WaitForChange, FinishRc, Release, Steps
  <2>2. [fe EXCEPT ![e] = l][d] = fe[d]
    BY <1>1, <1>2
  <2> QED
    BY <2>1, <2>2 DEF Wake
<1>3. CASE Enabled(e)
  <2>1. /\ fe[e] = "idle" /\ enable[e] > 0 /\ UNCHANGED <<recon, row>>
        /\ enable' = [enable EXCEPT ![e] = @ - 1] /\ fe'[e] \in {"rcStart", "exited"}
    BY <1>1, <1>3 DEF Enabled, buffer
  <2>2. row[e] = 0
    BY <2>1 DEF RowsDone
  <2>3. ASSUME NEW d \in FEs PROVE row[d] # 0 => fe'[d] = "row"
    BY <1>2, <2>1, <2>2 DEF RowsDone
  <2>4. ASSUME NEW d \in FEs, frame[d] # 0, enable'[d] > 0 \/ fe'[d] \in {"rcStart", "row"}
        PROVE  recon[frame[d]] = row[d]
    <3>1. CASE d = e
      BY <2>1, <2>4, <3>1 DEF RowsDone
    <3>2. CASE d # e
      BY <1>1, <1>2, <2>1, <2>4, <3>2 DEF RowsDone
    <3> QED
      BY <3>1, <3>2
  <2> QED
    BY <1>1, <2>1, <2>3, <2>4 DEF RowsDone
<1>4. CASE EncodeRow(e)
  <2>1. /\ fe[e] = "row" /\ recon' = [recon EXCEPT ![frame[e]] = @ + 1]
        /\ row' = [row EXCEPT ![e] = (@ + 1) % NumRows]
        /\ fe' = [fe EXCEPT ![e] = IF row[e] = NumRows - 1 THEN "rcEnd" ELSE "row"]
        /\ enable' = enable
    BY <1>4 DEF EncodeRow, events
  <2>2. Phase(e)
    BY <2>1 DEF Threads, Stopped
  <2>3. frame[e] # 0 /\ ~(enable[e] > 0)
    BY <2>1, <2>2 DEF Phase
  <2>4. frame[e] \in Present /\ frame[e] \in Frames
    BY <2>3, AllMade DEF RateInv, ListInv, InDPB
  <2>5. /\ recon[frame[e]] = row[e] /\ row[e] \in 0 .. NumRows - 1 /\ NumRows \in Nat \ {0}
        /\ recon \in [Frames -> 0 .. NumRows] /\ row \in [FEs -> 0 .. NumRows - 1]
    BY <2>1, <2>3, RowsAssumption DEF RowsDone
  <2>6. /\ row[e] = NumRows - 1 => (row[e] + 1) % NumRows = 0
        /\ row[e] # NumRows - 1 => (row[e] + 1) % NumRows = row[e] + 1
        /\ (row[e] + 1) % NumRows \in 0 .. NumRows - 1
    <3>1. PICK n \in Nat \ {0} : n = NumRows
      BY <2>5
    <3>2. PICK r \in 0 .. n - 1 : r = row[e]
      BY <2>5, <3>1
    <3>3. r # n - 1 => r + 1 \in 0 .. n - 1
      OBVIOUS
    <3>4. n % n = 0 /\ \A x \in 0 .. n - 1 : x % n = x
      OBVIOUS
    <3> QED
      BY <3>1, <3>2, <3>3, <3>4
  <2>7. recon[frame[e]] + 1 \in 0 .. NumRows
    BY <2>5
  <2>8. recon' \in [Frames -> 0 .. NumRows] /\ row' \in [FEs -> 0 .. NumRows - 1]
    BY <2>1, <2>5, <2>6, <2>7
  <2>9. \A f \in Frames : f \notin Present' => recon'[f] = 0
    BY <1>1, <2>1, <2>4, <2>5 DEF RowsDone
  <2>10. row'[e] # 0 => fe'[e] = "row"
    BY <1>1, <2>1, <2>5, <2>6
  <2>11. ASSUME NEW d \in FEs, d # e
         PROVE  /\ row'[d] = row[d] /\ fe'[d] = fe[d]
                /\ frame[d] # 0 => recon'[frame[d]] = recon[frame[d]]
    <3>1. frame[d] # 0 => frame[d] # frame[e] /\ frame[d] \in Frames
      BY <2>11, AllMade DEF RateInv, ListInv, InDPB
    <3> QED
      BY <1>1, <2>1, <2>5, <2>11, <3>1
  <2>12. fe'[e] = "row" => recon'[frame[e]] = row'[e]
    <3>1. fe'[e] = "row" => row[e] # NumRows - 1
      BY <1>1, <2>1
    <3>2. recon'[frame[e]] = row[e] + 1 /\ row'[e] = (row[e] + 1) % NumRows
      BY <2>1, <2>4, <2>5
    <3> QED
      BY <2>6, <3>1, <3>2
  <2>13. fe'[e] # "rcStart"
    BY <1>1, <2>1
  <2>14. ASSUME NEW d \in FEs PROVE row'[d] # 0 => fe'[d] = "row"
    BY <2>10, <2>11 DEF RowsDone
  <2>15. ASSUME NEW d \in FEs, frame[d] # 0, enable'[d] > 0 \/ fe'[d] \in {"rcStart", "row"}
         PROVE  recon'[frame[d]] = row'[d]
    <3>1. CASE d = e
      BY <2>1, <2>3, <2>12, <2>13, <2>15, <3>1
    <3>2. CASE d # e
      BY <2>1, <2>11, <2>15, <3>2 DEF RowsDone
    <3> QED
      BY <3>1, <3>2
  <2> QED
    BY <1>1, <2>8, <2>9, <2>14, <2>15 DEF RowsDone
<1>5. CASE RcStart(e)
  <2>1. /\ UNCHANGED <<recon, row, enable>> /\ fe[e] = "rcStart"
        /\ fe' = Wake([fe EXCEPT ![e] = "row"])
    BY <1>5 DEF RcStart, buffer, events
  <2>2. fe'[e] = "row"
    BY <1>1, <2>1 DEF Wake
  <2> QED
    BY <1>1, <1>2, <2>1, <2>2 DEF RowsDone
<1>6. CASE RcEnd(e) \/ WaitForChange(e) \/ FinishRc(e)
  <2>1. /\ UNCHANGED <<recon, row, enable>> /\ fe[e] \in {"rcEnd", "toWait", "finish"}
        /\ \E l \in {"finish", "toWait", "asleep", "rcEnd", "release"} :
              fe' = [fe EXCEPT ![e] = l] \/ fe' = Wake([fe EXCEPT ![e] = l])
    BY <1>6 DEF RcEnd, WaitForChange, FinishRc, buffer, events
  <2>2. fe'[e] \in {"finish", "toWait", "asleep", "rcEnd", "release"}
    <3>1. PICK l \in {"finish", "toWait", "asleep", "rcEnd", "release"} :
              fe' = [fe EXCEPT ![e] = l] \/ fe' = Wake([fe EXCEPT ![e] = l])
      BY <2>1
    <3>2. [fe EXCEPT ![e] = l][e] = l
      BY <1>1
    <3> QED
      BY <3>1, <3>2 DEF Wake
  <2> QED
    BY <1>1, <1>2, <2>1, <2>2, RowsKept DEF rows
<1>7. CASE Release(e)
  <2>1. /\ UNCHANGED <<recon, row, enable>> /\ fe[e] = "release" /\ fe'[e] = "idle"
    BY <1>1, <1>7 DEF Release
  <2> QED
    BY <1>1, <1>2, <2>1 DEF RowsDone
<1> QED
  BY <1>3, <1>4, <1>5, <1>6, <1>7 DEF EncoderStep

LEMMA RowsStep == RateInv /\ Threads /\ ListInv' /\ RowsDone /\ [Next]_vars => RowsDone'
<1> SUFFICES ASSUME RateInv, Threads, ListInv', RowsDone, [Next]_vars PROVE RowsDone'
  OBVIOUS
<1>1. fe \in [FEs -> Steps] /\ enable \in [FEs -> Nat] /\ frame \in [FEs -> Nat] /\ cur \in FEs
  BY DEF RateInv, RateTypes, ListInv, ListTypes
<1>2. CASE GetEncoded
  BY <1>2, RowsGetEncoded DEF RateInv
<1>3. CASE StartFrame
  BY <1>3, RowsStart
<1>4. ASSUME NEW e \in FEs, EncoderStep(e) PROVE RowsDone'
  BY <1>4, RowsEncoder
<1>5. CASE NoFrame \/ Terminate
  <2>1. UNCHANGED rows /\ (fe' = fe \/ fe' = Wake(fe))
    BY <1>5 DEF NoFrame, Terminate, buffer, lists, picture, events, rows
  <2>2. \A e \in FEs : fe'[e] = fe[e] \/ (fe[e] = "asleep" /\ fe'[e] = "rcEnd")
    BY <1>1, <2>1 DEF Wake
  <2> QED
    BY <2>1, <2>2, RowsKept
<1>6. CASE StopFrameEncoder
  <2>1. /\ frame' = [frame EXCEPT ![cur] = 0] /\ enable' = [enable EXCEPT ![cur] = @ + 1]
        /\ UNCHANGED <<recon, row, picList, fe>>
    BY <1>6 DEF StopFrameEncoder, buffer, lists
  <2>2. \A e \in FEs : frame'[e] # 0 => frame'[e] = frame[e] /\ enable'[e] = enable[e]
    BY <1>1, <2>1
  <2> QED
    BY <2>1, <2>2 DEF RowsDone, Present
<1>7. CASE \/ AddPicture \/ Flush \/ TakeDecided \/ FindJob \/ AwaitOutput \/ PopUnlocked
           \/ StopLookahead \/ Join \/ UNCHANGED pipe \/ UNCHANGED vars
  <2>1. UNCHANGED rows /\ fe' = fe
    BY <1>7 DEF AddPicture, Flush, TakeDecided, FindJob, AwaitOutput, PopUnlocked, StopLookahead,
          Join, vars, pipe, buffer, lists, picture, events, rows
  <2> QED
    BY <2>1, RowsKept
<1> QED
  BY <1>2, <1>3, <1>4, <1>5, <1>6, <1>7 DEF Next, ApiStep, DeciderStep

-----------------------------------------------------------------------------
(* The reference counts *)

\* With Counts: m_countRefEncoders counts nothing else, and nobody counts on a
\* Frame that is free or not made yet.
CountsUp ==
    /\ \A f \in Frames : count[f] <= Cardinality(Holders(f)) + 1
    /\ \A f \in Frames : f \in Free \/ f \notin Made => count[f] = 0

LEMMA CountsUpInit == Init => CountsUp
<1> SUFFICES ASSUME Init PROVE CountsUp
  OBVIOUS
<1>1. count = [f \in Frames |-> 0]
  BY DEF Init, PipeInit
<1>2. \A f \in Frames : Cardinality(Holders(f)) \in Nat /\ count[f] = 0
  BY <1>1, HoldersFinite
<1> QED
  BY <1>2 DEF CountsUp

LEMMA CountsUpKept ==
    ASSUME CountsUp, UNCHANGED <<count, refs, freeList, created>>
    PROVE  CountsUp'
BY DEF CountsUp, Holders, Free, Made

\* A new picture is counted once.
LEMMA CountsUpAdd ==
    ASSUME ListInv, CountsUp, AddPicture
    PROVE  CountsUp'
<1>1. PICK f : /\ f = IF freeList = <<>> THEN created + 1 ELSE Last(freeList)
               /\ created' = IF freeList = <<>> THEN created + 1 ELSE created
               /\ freeList' = IF freeList = <<>> THEN <<>> ELSE Front(freeList)
               /\ count' = [count EXCEPT ![f] = @ + 1]
               /\ UNCHANGED refs
  BY DEF AddPicture, picture
<1>2. freeList \in Seq(Made) /\ IsInjective(freeList) /\ count \in [Frames -> Int] /\ created \in Nat
  BY DEF ListInv, ListTypes, ListsApart
<1>3. (f \in Free \/ f \notin Made) /\ Free' \subseteq Free /\ f \notin Free' /\ Made \subseteq Made'
      /\ f \in Made'
  <2>1. CASE freeList = <<>>
    BY <1>1, <1>2, <2>1 DEF Made, Free, Range
  <2>2. CASE freeList # <<>>
    <3>1. /\ Range(Front(freeList)) \subseteq Range(freeList)
          /\ Last(freeList) \in Range(freeList) /\ Last(freeList) \notin Range(Front(freeList))
          /\ Last(freeList) \in Made
      BY <1>2, <2>2, FrontFacts
    <3> QED
      BY <1>1, <2>2, <3>1 DEF Free, Made
  <2> QED
    BY <2>1, <2>2
<1>4. ASSUME NEW g \in Frames
      PROVE  count'[g] = IF g = f THEN count[g] + 1 ELSE count[g]
  BY <1>1, <1>2
<1>5. \A g \in Frames : Holders(g)' = Holders(g) /\ Cardinality(Holders(g)) \in Nat
  BY <1>1, HoldersFinite DEF Holders
<1>6. ASSUME NEW g \in Frames PROVE count'[g] <= Cardinality(Holders(g)') + 1
  <2>1. count[g] \in Int /\ count[g] <= Cardinality(Holders(g)) + 1 /\ (g = f => count[g] = 0)
    BY <1>2, <1>3 DEF CountsUp
  <2> QED
    BY <1>4, <1>5, <2>1
<1>7. ASSUME NEW g \in Frames, g \in Free' \/ g \notin Made' PROVE count'[g] = 0
  BY <1>3, <1>4, <1>7 DEF CountsUp
<1> QED
  BY <1>6, <1>7 DEF CountsUp

\* What is recycled is counted by nobody.
LEMMA CountsUpRecycle ==
    ASSUME ListInv, CountsUp, UNCHANGED <<created, refs, cur>>, frame[cur] # 0,
           count' = [count EXCEPT ![frame[cur]] = @ - 1], Recycle(count')
    PROVE  CountsUp'
<1>1. PICK c : c = count'
  OBVIOUS
<1>2. Free' = Free \cup {f \in Present : Unused(f, c)}
  BY <1>1, RecycleFacts
<1>3. PICK x : x = frame[cur]
  OBVIOUS
<1>4. x \in Present /\ x \in Frames /\ x \in Made /\ x \notin Free /\ count \in [Frames -> Int]
  BY <1>3, AllMade DEF ListInv, InDPB, ListTypes, ListsApart
<1>5. \A g \in Frames : c[g] = IF g = x THEN count[g] - 1 ELSE count[g]
  BY <1>1, <1>3, <1>4
<1>6. \A g \in Frames : Holders(g)' = Holders(g) /\ Cardinality(Holders(g)) \in Nat
  BY HoldersFinite DEF Holders
<1>7. ASSUME NEW g \in Frames PROVE c[g] <= Cardinality(Holders(g)') + 1
  <2>1. count[g] \in Int /\ count[g] <= Cardinality(Holders(g)) + 1
    BY <1>4 DEF CountsUp
  <2> QED
    BY <1>5, <1>6, <2>1
<1>8. ASSUME NEW g \in Frames, g \in Free' \/ g \notin Made' PROVE c[g] = 0
  <2>1. Made' = Made
    BY DEF Made
  <2>2. CASE g \in Present /\ Unused(g, c)
    BY <2>2 DEF Unused
  <2>3. CASE g \in Free \/ g \notin Made
    BY <1>4, <1>5, <2>3 DEF CountsUp
  <2> QED
    BY <1>2, <1>8, <2>1, <2>2, <2>3
<1> QED
  BY <1>1, <1>7, <1>8 DEF CountsUp

\* One more encoder counts on the pictures it refers to.
LEMMA CountsUpStart ==
    ASSUME RateInv, Threads, CountsUp, StartFrame
    PROVE  CountsUp'
<1>1. PICK f : f = inHand[1]
  OBVIOUS
<1>2. PICK k : k = inHand[2]
  OBVIOUS
<1>3. PICK used : used = RefPics(f, k)
  OBVIOUS
<1>4. /\ api = "start" /\ inHand # <<>>
      /\ count' = [g \in Frames |-> IF g \in used THEN count[g] + 1 ELSE count[g]]
      /\ refs' = [refs EXCEPT ![cur] = {<<g, poc[g]>> : g \in used}]
      /\ UNCHANGED <<created, freeList>>
  BY <1>1, <1>2, <1>3 DEF StartFrame, PrepareEncode
<1>5. /\ k \in Kinds /\ cur \in FEs /\ refs \in [FEs -> SUBSET (Made \X Int)]
      /\ count \in [Frames -> Int]
  BY <1>2, <1>4 DEF RateInv, ListInv, ListTypes, Typed
<1>6. used \subseteq Present
  BY <1>3, <1>5, RefPicsPresent DEF RateInv
<1>7. refs[cur] = {}
  <2>1. ~terminated
    BY <1>4 DEF Threads, Closing
  <2>2. frame[cur] = 0 /\ Phase(cur)
    BY <1>4, <1>5, <2>1 DEF RateInv, Handshake, Choosing
  <2>3. enable[cur] = 0 /\ fe[cur] = "idle"
    BY <1>5, <2>2 DEF Phase, RateInv, RateTypes
  <2> QED
    BY <1>5, <2>3 DEF Threads
<1>8. ASSUME NEW g \in Frames PROVE count'[g] <= Cardinality(Holders(g)') + 1
  <2>1. IsFiniteSet(Holders(g)) /\ Cardinality(Holders(g)) \in Nat /\ cur \notin Holders(g)
    BY <1>7, HoldersFinite DEF Holders
  <2>2. count[g] \in Int /\ count[g] <= Cardinality(Holders(g)) + 1
    BY <1>5 DEF CountsUp
  <2>3. refs'[cur] = {<<h, poc[h]>> : h \in used} /\ \A e \in FEs : e # cur => refs'[e] = refs[e]
    BY <1>4, <1>5
  <2>4. CASE g \in used
    <3>1. PICK r : r = <<g, poc[g]>>
      OBVIOUS
    <3>2. Holders(g)' = Holders(g) \cup {cur}
      <4>1. r[1] = g /\ r \in refs'[cur]
        BY <2>3, <2>4, <3>1
      <4> QED
        BY <1>5, <2>3, <4>1 DEF Holders
    <3>3. Cardinality(Holders(g) \cup {cur}) = Cardinality(Holders(g)) + 1
      BY <2>1, FS_AddElement
    <3> QED
      BY <1>4, <2>1, <2>2, <2>4, <3>2, <3>3
  <2>5. CASE g \notin used
    <3>1. Holders(g)' = Holders(g)
      BY <1>5, <1>7, <2>3, <2>5 DEF Holders
    <3> QED
      BY <1>4, <2>2, <2>5, <3>1
  <2> QED
    BY <2>4, <2>5
<1>9. ASSUME NEW g \in Frames, g \in Free' \/ g \notin Made' PROVE count'[g] = 0
  <2>1. g \in Free \/ g \notin Made
    BY <1>4, <1>9 DEF Free, Made
  <2>2. g \notin used
    BY <1>6, <2>1, AllMade DEF RateInv, ListInv, ListsApart
  <2> QED
    BY <1>4, <2>1, <2>2 DEF CountsUp
<1> QED
  BY <1>8, <1>9 DEF CountsUp

\* One less.
LEMMA CountsUpRelease ==
    ASSUME ListInv, CountsUp, NEW e \in FEs, Release(e)
    PROVE  CountsUp'
<1>1. /\ count' = [f \in Frames |-> IF \E r \in refs[e] : r[1] = f THEN count[f] - 1 ELSE count[f]]
      /\ refs' = [refs EXCEPT ![e] = {}]
      /\ UNCHANGED <<created, freeList>>
  BY DEF Release, lists
<1>2. /\ refs \in [FEs -> SUBSET (Made \X Int)] /\ count \in [Frames -> Int]
  BY DEF ListInv, ListTypes
<1>3. refs'[e] = {} /\ \A d \in FEs : d # e => refs'[d] = refs[d]
  BY <1>1, <1>2
<1>4. ASSUME NEW f \in Frames PROVE count'[f] <= Cardinality(Holders(f)') + 1
  <2>1. /\ IsFiniteSet(Holders(f)) /\ Cardinality(Holders(f)) \in Nat
        /\ count[f] \in Int /\ count[f] <= Cardinality(Holders(f)) + 1
    BY <1>2, HoldersFinite DEF CountsUp
  <2>2. CASE e \in Holders(f)
    <3>1. count'[f] = count[f] - 1
      BY <1>1, <2>2 DEF Holders
    <3>2. Holders(f)' = Holders(f) \ {e}
      BY <1>3 DEF Holders
    <3>3. Cardinality(Holders(f) \ {e}) = Cardinality(Holders(f)) - 1
      BY <2>1, <2>2, FS_RemoveElement
    <3> QED
      BY <2>1, <3>1, <3>2, <3>3
  <2>3. CASE e \notin Holders(f)
    <3>1. count'[f] = count[f]
      BY <1>1, <2>3 DEF Holders
    <3>2. Holders(f)' = Holders(f)
      BY <1>3, <2>3 DEF Holders
    <3> QED
      BY <2>1, <3>1, <3>2
  <2> QED
    BY <2>2, <2>3
<1>5. ASSUME NEW f \in Frames, f \in Free' \/ f \notin Made' PROVE count'[f] = 0
  <2>1. f \in Free \/ f \notin Made
    BY <1>1, <1>5 DEF Free, Made
  <2>2. f \notin Present
    BY <2>1, AllMade DEF ListInv, ListsApart
  <2>3. ~ \E r \in refs[e] : r[1] = f
    BY <2>2 DEF ListInv, InDPB
  <2> QED
    BY <1>1, <2>1, <2>3 DEF CountsUp
<1> QED
  BY <1>4, <1>5 DEF CountsUp

LEMMA CountsUpStep == RateInv /\ Threads /\ CountsUp /\ [Next]_vars => CountsUp'
<1> SUFFICES ASSUME RateInv, Threads, CountsUp, [Next]_vars PROVE CountsUp'
  OBVIOUS
<1>l. ListInv
  BY DEF RateInv
<1>1. CASE AddPicture
  BY <1>1, <1>l, CountsUpAdd
<1>2. CASE GetEncoded
  <2>1. UNCHANGED <<created, refs, cur>>
    BY <1>2 DEF GetEncoded
  <2>2. CASE UNCHANGED <<freeList, count>>
    BY <2>1, <2>2, CountsUpKept
  <2>3. CASE /\ frame[cur] # 0 /\ count' = [count EXCEPT ![frame[cur]] = @ - 1] /\ Recycle(count')
    BY <1>l, <2>1, <2>3, CountsUpRecycle
  <2> QED
    BY <1>2, <2>2, <2>3 DEF GetEncoded
<1>3. CASE StartFrame
  BY <1>3, CountsUpStart
<1>4. ASSUME NEW e \in FEs, EncoderStep(e) PROVE CountsUp'
  <2>1. CASE Release(e)
    BY <1>l, <2>1, CountsUpRelease
  <2>2. CASE \/ Enabled(e) \/ RcStart(e) \/ EncodeRow(e) \/ RcEnd(e) \/ WaitForChange(e)
             \/ FinishRc(e)
    <3>1. UNCHANGED <<count, refs, freeList, created>>
      BY <2>2 DEF Enabled, RcStart, EncodeRow, RcEnd, WaitForChange, FinishRc, buffer, lists, picture
    <3> QED
      BY <3>1, CountsUpKept
  <2> QED
    BY <1>4, <2>1, <2>2 DEF EncoderStep
<1>5. CASE \/ Flush \/ TakeDecided \/ FindJob \/ AwaitOutput \/ PopUnlocked \/ NoFrame \/ Terminate
           \/ StopLookahead \/ StopFrameEncoder \/ Join \/ UNCHANGED pipe \/ UNCHANGED vars
  <2>1. UNCHANGED <<count, refs, freeList, created>>
    BY <1>5 DEF Flush, TakeDecided, FindJob, AwaitOutput, PopUnlocked, NoFrame, Terminate,
          StopLookahead, StopFrameEncoder, Join, vars, pipe, buffer, lists, picture
  <2> QED
    BY <2>1, CountsUpKept
<1> QED
  BY <1>1, <1>2, <1>3, <1>4, <1>5 DEF Next, ApiStep, DeciderStep

-----------------------------------------------------------------------------
(* The count of the pictures on their way *)

\* Pictures that no frame encoder has got yet.
Waiting == Len(input) + Len(output) + Len(inHand) \div 2 + Cardinality(Held)

\* Only the one that decides holds pictures.
Grouped == \A t \in Deciders : gop[t] # <<>> => dec[t] \in {"decided", "push"}

\* Every picture waits or has been given to a frame encoder; those that wait or
\* are still there are the delayed ones.
Conserved ==
    /\ encoded + Waiting = NextPoc /\ NextPoc <= MaxPics
    /\ ~terminated => delayed = Waiting + Cardinality(Occupied)
    /\ delayed \in Nat /\ delayed <= NextPoc

LEMMA GroupedInit == Init => Grouped
BY DEF Init, LookaheadInit, Grouped

LEMMA GroupedStep == WaitInv /\ ListInv /\ Grouped /\ [Next]_vars => Grouped'
<1> SUFFICES ASSUME WaitInv, ListInv, Grouped, [Next]_vars PROVE Grouped'
  OBVIOUS
<1>1. CASE UNCHANGED deciding
  BY <1>1 DEF Grouped, deciding
<1>2. ASSUME NEW t \in Deciders, BeginDecide(t) PROVE Grouped'
  <2>1. dec[t] = "idle" /\ gop' = gop /\ dec' = [dec EXCEPT ![t] = "analyse"]
    BY <1>2 DEF BeginDecide, Step
  <2> QED
    BY <2>1 DEF Grouped, WaitInv, WaitTypes
<1>3. ASSUME NEW t \in Deciders, GoOnDeciding(t) PROVE Grouped'
  <2>1. gop \in [Deciders -> Seq(Typed)] /\ dec \in [Deciders -> Labels]
    BY DEF ListInv, ListTypes, WaitInv, WaitTypes
  <2>2. \A u \in Deciders : u # t => gop'[u] = gop[u] /\ dec'[u] = dec[u]
    BY <1>3, <2>1 DEF GoOnDeciding, Choose, LockOutput, PushOutput, EndDecide, Step
  <2>3. gop'[t] # <<>> => dec'[t] \in {"decided", "push"}
    BY <1>3, <2>1 DEF GoOnDeciding, Choose, LockOutput, PushOutput, EndDecide, Step, Grouped
  <2> QED
    BY <2>2, <2>3 DEF Grouped
<1>4. CASE ApiStep
  <2>1. CASE FindJob
    BY <1>1, <1>2, <2>1 DEF FindJob, lookahead, Deciders
  <2>2. CASE ~FindJob
    <3>1. UNCHANGED deciding
      BY <1>4, <2>2 DEF ApiStep, AddPicture, Flush, GetEncoded, TakeDecided, AwaitOutput, PopUnlocked,
            StartFrame, NoFrame, Terminate, StopLookahead, StopFrameEncoder, Join, lookahead
    <3> QED
      BY <1>1, <3>1
  <2> QED
    BY <2>1, <2>2
<1>5. ASSUME NEW e \in FEs, EncoderStep(e) PROVE UNCHANGED deciding
  BY <1>5 DEF EncoderStep, Enabled, RcStart, EncodeRow, RcEnd, WaitForChange, FinishRc, Release,
        lookahead
<1>6. UNCHANGED vars => UNCHANGED deciding
  BY DEF vars, lookahead
<1> QED
  BY <1>1, <1>2, <1>3, <1>4, <1>5, <1>6 DEF Next, DeciderStep, Deciders

\* How many pictures the deciders hold, when one does.
LEMMA HeldByOne ==
    ASSUME NEW T, NEW g \in [Deciders -> Seq(T)], NEW u \in Deciders,
           \A t \in Deciders : t # u => g[t] = <<>>
    PROVE  Cardinality(UNION {{t} \X DOMAIN g[t] : t \in Deciders}) = Len(g[u])
<1>1. PICK n \in Nat : n = Len(g[u]) /\ DOMAIN g[u] = 1 .. n
  OBVIOUS
<1>2. \A t \in Deciders : t # u => DOMAIN g[t] = {}
  OBVIOUS
<1>3. UNION {{t} \X DOMAIN g[t] : t \in Deciders} = {u} \X (1 .. n)
  BY <1>1, <1>2
<1>4. IsFiniteSet(1 .. n) /\ Cardinality(1 .. n) = n
  BY FS_Interval
<1>5. IsFiniteSet({u}) /\ Cardinality({u}) = 1
  BY FS_Singleton
<1>6. Cardinality({u} \X (1 .. n)) = 1 * n
  <2>1. Cardinality({u} \X (1 .. n)) = Cardinality({u}) * Cardinality(1 .. n)
    BY <1>4, <1>5, FS_Product, Zenon
  <2> QED
    BY <1>4, <1>5, <2>1
<1>7. 1 * n = n
  OBVIOUS
<1> QED
  BY <1>1, <1>3, <1>6, <1>7, Zenon

\* The numbers that Conserved adds are natural.
LEMMA WaitingTypes ==
    ASSUME ListInv, WaitInv, Grouped
    PROVE  /\ Len(input) \in Nat /\ Len(output) \in Nat /\ Cardinality(Held) \in Nat
           /\ inHand = <<>> => Len(inHand) \div 2 = 0
           /\ inHand # <<>> => Len(inHand) \div 2 = 1
<1>1. /\ input \in Seq(Made) /\ output \in Seq(Typed) /\ gop \in [Deciders -> Seq(Typed)]
      /\ inHand = <<>> \/ inHand \in Typed
  BY DEF ListInv, ListTypes
<1>2. inHand \in Typed => Len(inHand) = 2
  BY DEF Typed
<1>3. PICK u \in Deciders : \A t \in Deciders : t # u => gop[t] = <<>>
  BY DEF WaitInv, OneDecides, Grouped, Deciders
<1>4. Cardinality(Held) = Len(gop[u])
  BY <1>1, <1>3, HeldByOne DEF Held
<1>5. Len(input) \in Nat /\ Len(output) \in Nat /\ Len(gop[u]) \in Nat
  BY <1>1
<1>6. Len(<<>>) \div 2 = 0 /\ 2 \div 2 = 1
  OBVIOUS
<1>7. /\ inHand = <<>> => Len(inHand) \div 2 = 0
      /\ inHand # <<>> => Len(inHand) \div 2 = 1
  BY <1>1, <1>2, <1>6, Zenon
<1> QED
  BY <1>4, <1>5, <1>7

LEMMA OccupiedFinite == IsFiniteSet(Occupied) /\ Cardinality(Occupied) \in 0 .. NumThreads
<1>1. Occupied \in SUBSET FEs
  BY DEF Occupied
<1> QED
  BY <1>1, EncodersFinite, FS_Subset, FS_CardinalityType, ThreadsAssumption

LEMMA ConservedInit == Init => Conserved /\ ListInv /\ Grouped
<1> SUFFICES ASSUME Init PROVE Conserved
  BY ListsInit, GroupedInit
<1>1. /\ input = <<>> /\ output = <<>> /\ inHand = <<>> /\ encoded = 0 /\ delayed = 0
      /\ gop = [t \in Deciders |-> <<>>] /\ frame = [e \in FEs |-> 0]
      /\ poc = [f \in Frames |-> -1]
  BY DEF Init, LookaheadInit, PipeInit
<1>2. Held = {} /\ Occupied = {}
  BY <1>1 DEF Held, Occupied
<1>3. Cardinality({}) = 0
  BY FS_EmptySet
<1>4. NextPoc = 0
  <2>1. 1 \in Frames
    BY PicsAssumption DEF Frames
  <2>2. Range(poc) = {-1}
    BY <1>1, <2>1 DEF Range
  <2>3. Max({-1}) = -1
    BY DEF Max
  <2> QED
    BY <2>2, <2>3 DEF NextPoc
<1> QED
  BY <1>1, <1>2, <1>3, <1>4, PicsAssumption DEF Conserved, Waiting

\* Steps that move no picture.
places == <<input, output, inHand, gop, frame, poc, encoded, delayed>>
LEMMA ConservedKept ==
    ASSUME Conserved, UNCHANGED places, terminated => terminated'
    PROVE  Conserved'
BY DEF Conserved, places, Waiting, Held, Occupied, NextPoc

\* create() puts the next picture into a Frame that is nowhere else.
LEMMA AddsOne ==
    ASSUME ListInv, AddPicture
    PROVE  \E f \in Frames : /\ poc' = [poc EXCEPT ![f] = NextPoc] /\ input' = Append(input, f)
                             /\ NextPoc' = NextPoc + 1 /\ f \notin Present /\ f \notin OnTheWay
<1>1. PICK f : /\ f = IF freeList = <<>> THEN created + 1 ELSE Last(freeList)
               /\ poc' = [poc EXCEPT ![f] = NextPoc] /\ input' = Append(input, f)
  BY DEF AddPicture
<1>2. NextPoc < MaxPics
  BY DEF AddPicture
<1>3. NextPoc \in Int /\ created <= NextPoc /\ \A g \in Frames : poc[g] < NextPoc
  BY NextPocFacts
<1>4. /\ created \in Nat /\ freeList \in Seq(Made) /\ poc \in [Frames -> Int]
      /\ Made \subseteq Frames
  BY AllMade DEF ListInv, ListTypes
<1>5. f \in Frames /\ f \notin Present /\ f \notin OnTheWay
  <2>1. CASE freeList = <<>>
    <3>1. f \in Frames
      BY <1>1, <1>2, <1>3, <1>4, <2>1, PicsAssumption DEF Frames
    <3>2. f \notin Made
      BY <1>1, <1>4, <2>1 DEF Made
    <3> QED
      BY <3>1, <3>2, AllMade
  <2>2. CASE freeList # <<>>
    <3>1. f \in Made /\ f \in Free
      BY <1>1, <1>4, <2>2, FrontFacts DEF Free
    <3> QED
      BY <1>4, <3>1 DEF ListInv, ListsApart
  <2> QED
    BY <2>1, <2>2
<1>6. NextPoc' = NextPoc + 1
  <2>1. poc'[f] = NextPoc /\ \A g \in Frames : poc'[g] <= NextPoc /\ poc'[g] \in Int
    BY <1>1, <1>3, <1>4, <1>5
  <2>2. /\ NextPoc \in Range(poc')
        /\ \A y \in Range(poc') : NextPoc >= y /\ y \in Int
    <3>1. DOMAIN poc' = Frames
      BY <1>1, <1>4
    <3> QED
      BY <1>5, <2>1, <3>1 DEF Range
  <2>3. Max(Range(poc')) \in Range(poc') /\ \A y \in Range(poc') : Max(Range(poc')) >= y
    BY <2>2 DEF Max
  <2>4. PICK m : m = Max(Range(poc'))
    OBVIOUS
  <2>5. m = NextPoc
    <3>1. m \in Int /\ NextPoc >= m
      BY <2>2, <2>3, <2>4
    <3>2. m >= NextPoc
      BY <2>2, <2>3, <2>4
    <3> QED
      BY <1>3, <3>1, <3>2
  <2> QED
    BY <2>4, <2>5 DEF NextPoc
<1> QED
  BY <1>1, <1>5, <1>6

LEMMA ConservedAdd ==
    ASSUME RateInv, WaitInv, Grouped, Conserved, AddPicture
    PROVE  Conserved'
<1>l. ListInv
  BY DEF RateInv
<1>1. PICK f \in Frames : /\ poc' = [poc EXCEPT ![f] = NextPoc] /\ input' = Append(input, f)
                          /\ NextPoc' = NextPoc + 1
  BY <1>l, AddsOne
<1>2. /\ UNCHANGED <<output, inHand, gop, frame, encoded, terminated>> /\ delayed' = delayed + 1
      /\ NextPoc < MaxPics
  BY DEF AddPicture, deciding, picture, rate
<1>3. NextPoc \in Int
  BY <1>l, NextPocFacts
<1>4. input \in Seq(Made) /\ Made \subseteq Frames
  BY <1>l, AllMade DEF ListInv, ListTypes
<1>7. Len(input') = Len(input) + 1 /\ Len(input) \in Nat
  <2>1. input \in Seq(Frames)
    BY <1>4, SeqWider
  <2> QED
    BY <1>1, <2>1
<1>8. Held' = Held /\ Occupied' = Occupied /\ Len(output) \in Nat /\ Cardinality(Held) \in Nat
      /\ Len(inHand) \div 2 \in Nat
  BY <1>2, <1>l, WaitingTypes DEF Held, Occupied
<1>9. Waiting' = Waiting + 1 /\ Waiting \in Nat
  BY <1>2, <1>7, <1>8 DEF Waiting
<1>10. encoded \in Nat /\ Cardinality(Occupied) \in Nat
  BY OccupiedFinite DEF RateInv, RateTypes
<1> QED
  <2>1. /\ encoded + Waiting = NextPoc /\ delayed \in Nat /\ delayed <= NextPoc
        /\ ~terminated => delayed = Waiting + Cardinality(Occupied)
    BY DEF Conserved
  <2>2. encoded' + Waiting' = NextPoc' /\ NextPoc' <= MaxPics
    BY <1>1, <1>2, <1>3, <1>9, <1>10, <2>1, PicsAssumption
  <2>3. ~terminated' => delayed' = Waiting' + Cardinality(Occupied)'
    BY <1>2, <1>8, <1>9, <1>10, <2>1
  <2>4. delayed' \in Nat /\ delayed' <= NextPoc'
    BY <1>1, <1>2, <1>3, <2>1
  <2> QED
    BY <2>2, <2>3, <2>4 DEF Conserved

\* getDecidedPicture() takes the oldest decision, or nothing.
LEMMA ConservedTake ==
    ASSUME RateInv, WaitInv, Grouped, Conserved, inHand = <<>>,
           UNCHANGED <<input, gop, frame, poc, encoded, delayed, terminated>>,
           inHand' = IF output = <<>> THEN <<>> ELSE Head(output),
           output' = IF output = <<>> THEN <<>> ELSE Tail(output)
    PROVE  Conserved'
<1>1. CASE output = <<>>
  BY <1>1, ConservedKept DEF places
<1>2. CASE output # <<>>
  <2>1. output \in Seq(Typed) /\ ListInv
    BY DEF RateInv, ListInv, ListTypes
  <2>2. inHand' \in Typed /\ Len(output') = Len(output) - 1 /\ Len(output) \in Nat
    BY <1>2, <2>1
  <2>3. Len(inHand') = 2
    BY <2>2 DEF Typed
  <2>4. /\ Len(inHand') \div 2 = 1 /\ Len(inHand) \div 2 = 0
        /\ Len(input) \in Nat /\ Cardinality(Held) \in Nat
    <3>1. 2 \div 2 = 1
      OBVIOUS
    <3> QED
      BY <2>1, <2>3, <3>1, WaitingTypes
  <2>5. Held' = Held /\ Occupied' = Occupied /\ NextPoc' = NextPoc
    BY DEF Held, Occupied, NextPoc
  <2>6. Waiting' = Waiting
    <3>1. Waiting' = Len(input) + (Len(output) - 1) + 1 + Cardinality(Held)
      BY <2>2, <2>4, <2>5, Zenon DEF Waiting
    <3>2. Waiting = Len(input) + Len(output) + 0 + Cardinality(Held)
      BY <2>4, Zenon DEF Waiting
    <3> QED
      BY <2>2, <2>4, <3>1, <3>2
  <2> QED
    BY <2>5, <2>6 DEF Conserved
<1> QED
  BY <1>1, <1>2

\* getEncodedPicture() returns one.
LEMMA ConservedGet ==
    ASSUME RateInv, WaitInv, Threads, Grouped, Conserved, GetEncoded
    PROVE  Conserved'
<1>1. UNCHANGED <<input, output, inHand, gop, poc, encoded, terminated>>
  BY DEF GetEncoded, lookahead, queues, deciding, rate
<1>2. CASE UNCHANGED <<frame, delayed>>
  BY <1>1, <1>2, ConservedKept DEF places
<1>3. CASE frame[cur] # 0 /\ frame' = [frame EXCEPT ![cur] = 0] /\ delayed' = delayed - 1
  <2>1. cur \in FEs /\ frame \in [FEs -> Nat] /\ ListInv
    BY DEF RateInv, ListInv, ListTypes
  <2>2. ~terminated
    BY DEF Threads, Closing, GetEncoded
  <2>3. Occupied' = Occupied \ {cur} /\ cur \in Occupied
    BY <1>3, <2>1 DEF Occupied
  <2>4. Cardinality(Occupied') = Cardinality(Occupied) - 1 /\ Cardinality(Occupied) \in Nat
    BY <2>3, OccupiedFinite, FS_RemoveElement
  <2>5. Cardinality(Occupied') \in Nat
    BY <2>3, OccupiedFinite, FS_RemoveElement, FS_CardinalityType
  <2>6. Waiting' = Waiting /\ NextPoc' = NextPoc
    BY <1>1 DEF Waiting, Held, NextPoc
  <2>7. Waiting \in Nat
    BY <2>1, WaitingTypes DEF Waiting
  <2>8. NextPoc \in Int
    BY <2>1, NextPocFacts
  <2> QED
    BY <1>1, <1>3, <2>2, <2>4, <2>5, <2>6, <2>7, <2>8 DEF Conserved
<1> QED
  BY <1>2, <1>3 DEF GetEncoded

\* startCompressFrame() gives one to a frame encoder that has none.
LEMMA ConservedStart ==
    ASSUME RateInv, WaitInv, Threads, Grouped, Conserved, StartFrame
    PROVE  Conserved'
<1>1. /\ UNCHANGED <<input, output, gop, poc, delayed, terminated>>
      /\ inHand # <<>> /\ inHand' = <<>> /\ encoded' = encoded + 1
      /\ frame' = [frame EXCEPT ![cur] = inHand[1]] /\ api = "start"
  BY DEF StartFrame, lookahead, queues, deciding, rate
<1>2. cur \in FEs /\ frame \in [FEs -> Nat] /\ ListInv /\ inHand \in Typed /\ encoded \in Nat
  BY <1>1 DEF RateInv, ListInv, ListTypes, RateTypes
<1>3. frame[cur] = 0
  BY <1>1 DEF Threads, RateInv, Handshake, Choosing, Closing
<1>4. Occupied' = Occupied \cup {cur} /\ cur \notin Occupied
  BY <1>1, <1>2, <1>3 DEF Occupied, Typed, Made
<1>5. Cardinality(Occupied') = Cardinality(Occupied) + 1 /\ Cardinality(Occupied) \in Nat
  BY <1>4, OccupiedFinite, FS_AddElement
<1>6. /\ Len(input) \in Nat /\ Len(output) \in Nat /\ Cardinality(Held) \in Nat
      /\ Len(inHand) \div 2 = 1 /\ Len(inHand') \div 2 = 0
  BY <1>1, <1>2, WaitingTypes
<1>7. Held' = Held /\ NextPoc' = NextPoc
  BY <1>1 DEF Held, NextPoc
<1>8. Waiting' = Waiting - 1 /\ Waiting \in Nat
  BY <1>1, <1>6, <1>7 DEF Waiting
<1> QED
  BY <1>1, <1>2, <1>5, <1>7, <1>8 DEF Conserved

\* The mini-GOPs that a thread may choose.
LEMMA ChosenLength ==
    ASSUME ListInv, NEW b \in 0 .. Min({BFrames, Len(input) - 1})
    PROVE  b \in Nat /\ b < Len(input) /\ b <= BFrames /\ BFrames \in Nat /\ b + 1 \in DOMAIN input
<1>1. Len(input) \in Nat /\ BFrames \in Nat /\ DOMAIN input = 1 .. Len(input)
  BY ParamsAssumption DEF ListInv, ListTypes, BFrames
<1>l. Len(input) \in Nat
  BY <1>1
<1>2. PICK n \in Int : n = Len(input) - 1
  BY <1>l
<1>3. PICK a \in Int : a = BFrames
  BY <1>1
<1>4. Min({a, n}) <= n /\ Min({a, n}) <= a /\ Min({a, n}) \in Int
  BY MinMaxFacts
<1> QED
  BY <1>1, <1>2, <1>3, <1>4

\* slicetypeDecide() moves a mini-GOP, and then puts it out.
LEMMA ConservedDecide ==
    ASSUME RateInv, WaitInv, Grouped, Conserved, NEW t \in Deciders, GoOnDeciding(t), UNCHANGED pipe
    PROVE  Conserved'
<1>1. UNCHANGED <<inHand, frame, encoded, delayed, terminated>>
  BY DEF pipe, caller, picture, rate
<1>2. /\ input \in Seq(Made) /\ output \in Seq(Typed) /\ gop \in [Deciders -> Seq(Typed)]
      /\ ListInv
  BY DEF RateInv, ListInv, ListTypes
<1>3. CASE LockOutput(t) \/ EndDecide(t)
  BY <1>1, <1>3, ConservedKept DEF LockOutput, EndDecide, places, queues
<1>4. ASSUME Choose(t) \/ PushOutput(t) PROVE \A u \in Deciders : u # t => gop[u] = <<>>
  BY <1>4 DEF Choose, PushOutput, WaitInv, OneDecides, Grouped
<1>5. ASSUME UNCHANGED poc, Waiting' = Waiting PROVE Conserved'
  BY <1>1, <1>5 DEF Conserved, Occupied, NextPoc
<1>6. CASE Choose(t)
  <2>1. PICK b \in 0 .. Min({BFrames, Len(input) - 1}) :
           gop' = [gop EXCEPT ![t] = EncodeOrder(b)] /\ input' = Rest(b)
    BY <1>6 DEF Choose
  <2>2. b \in Nat /\ b < Len(input)
    BY <1>2, ChosenLength
  <2>3. /\ EncodeOrder(b) \in Seq(Typed) /\ Len(EncodeOrder(b)) = b + 1
        /\ Len(input') = Len(input) - (b + 1)
    BY <1>2, <2>1, <2>2, ChooseShape
  <2>4. gop[t] = <<>>
    BY <1>6 DEF Choose, Grouped
  <2>5. gop' \in [Deciders -> Seq(Typed)] /\ Len(gop'[t]) = b + 1
        /\ \A u \in Deciders : u # t => gop'[u] = gop[u]
    BY <1>2, <2>1, <2>3
  <2>6. Cardinality(Held) = 0 /\ Cardinality(Held') = b + 1
    <3>1. Cardinality(Held) = Len(gop[t])
      BY <1>2, <1>4, <1>6, HeldByOne DEF Held
    <3>2. Cardinality(Held') = Len(gop'[t])
      BY <1>4, <1>6, <2>5, HeldByOne DEF Held
    <3> QED
      BY <2>4, <2>5, <3>1, <3>2
  <2>7. Len(input) \in Nat /\ Len(output) \in Nat /\ Len(inHand) \div 2 \in Nat
    BY <1>2, WaitingTypes
  <2>8. UNCHANGED <<poc, output>>
    BY <1>6 DEF Choose
  <2> QED
    BY <1>1, <1>5, <2>2, <2>3, <2>6, <2>7, <2>8 DEF Waiting
<1>7. CASE PushOutput(t)
  <2>1. /\ output' = output \o gop[t] /\ gop' = [gop EXCEPT ![t] = <<>>] /\ UNCHANGED <<input, poc>>
    BY <1>7 DEF PushOutput
  <2>2. \A u \in Deciders : gop'[u] = <<>>
    BY <1>2, <1>4, <1>7, <2>1
  <2>3. Len(output') = Len(output) + Len(gop[t]) /\ Len(output) \in Nat /\ Len(gop[t]) \in Nat
    BY <1>2, <2>1
  <2>4. Cardinality(Held) = Len(gop[t])
    BY <1>2, <1>4, <1>7, HeldByOne DEF Held
  <2>5. Cardinality(Held') = 0
    <3>1. Held' = {}
      BY <2>2 DEF Held
    <3> QED
      BY <3>1, FS_EmptySet
  <2>6. Len(input) \in Nat /\ Len(inHand) \div 2 \in Nat
    BY <1>2, WaitingTypes
  <2>7. Waiting' = Waiting
    <3>h. PICK h \in Nat : h = Len(inHand) \div 2
      BY <2>6
    <3>i. PICK i \in Nat : i = Len(input)
      BY <2>6
    <3>o. PICK o \in Nat : o = Len(output)
      BY <2>3
    <3>g. PICK g \in Nat : g = Len(gop[t])
      BY <2>3
    <3>1. Waiting' = i + (o + g) + h + 0
      BY <1>1, <2>1, <2>3, <2>5, <3>g, <3>h, <3>i, <3>o, Zenon DEF Waiting
    <3>2. Waiting = i + o + h + g
      BY <2>4, <3>g, <3>h, <3>i, <3>o, Zenon DEF Waiting
    <3> QED
      BY <3>1, <3>2
  <2> QED
    BY <1>5, <2>1, <2>7
<1> QED
  BY <1>3, <1>6, <1>7 DEF GoOnDeciding

LEMMA ConservedStep ==
    RateInv /\ WaitInv /\ Threads /\ Grouped /\ Conserved /\ [Next]_vars => Conserved'
<1> SUFFICES ASSUME RateInv, WaitInv, Threads, Grouped, Conserved, [Next]_vars PROVE Conserved'
  OBVIOUS
<1>1. CASE AddPicture
  BY <1>1, ConservedAdd
<1>2. CASE GetEncoded
  BY <1>2, ConservedGet
<1>3. CASE TakeDecided \/ PopUnlocked
  <2>1. UNCHANGED <<input, gop, frame, poc, encoded, delayed, terminated>> /\ inHand = <<>>
    BY <1>3 DEF TakeDecided, PopUnlocked, buffer, picture, rate, deciding, Threads
  <2>2. CASE UNCHANGED <<output, inHand>>
    BY <2>1, <2>2, ConservedKept DEF places
  <2>3. CASE /\ inHand' = IF output = <<>> THEN <<>> ELSE Head(output)
             /\ output' = IF output = <<>> THEN <<>> ELSE Tail(output)
    BY <2>1, <2>3, ConservedTake
  <2> QED
    BY <1>3, <2>2, <2>3 DEF TakeDecided, PopUnlocked
<1>4. CASE StartFrame
  BY <1>4, ConservedStart
<1>5. CASE Flush \/ FindJob \/ AwaitOutput \/ NoFrame \/ Terminate \/ StopLookahead \/ Join
  <2>1. UNCHANGED places /\ (terminated => terminated')
    BY <1>5 DEF Flush, FindJob, BeginDecide, AwaitOutput, NoFrame, Terminate, StopLookahead, Join,
          places, lookahead, queues, deciding, picture, rate
  <2> QED
    BY <2>1, ConservedKept
<1>6. CASE StopFrameEncoder
  <2>1. UNCHANGED <<input, output, inHand, gop, poc, encoded, delayed, terminated>> /\ terminated
    BY <1>6 DEF StopFrameEncoder, lookahead, queues, deciding, rate, Threads, Running, Choosing
  <2> QED
    BY <2>1 DEF Conserved, Waiting, Held, NextPoc
<1>7. ASSUME NEW e \in FEs, EncoderStep(e) PROVE Conserved'
  <2>1. UNCHANGED places /\ terminated' = terminated
    BY <1>7 DEF EncoderStep, Enabled, RcStart, EncodeRow, RcEnd, WaitForChange, FinishRc, Release,
          lookahead, queues, deciding, caller, picture, rate, places
  <2> QED
    BY <2>1, ConservedKept
<1>8. ASSUME NEW t \in Deciders, DeciderStep(t) PROVE Conserved'
  BY <1>8, ConservedDecide DEF DeciderStep
<1>9. ASSUME NEW t \in Helpers, BeginDecide(t), UNCHANGED pipe PROVE Conserved'
  <2>1. UNCHANGED places /\ terminated' = terminated
    BY <1>9 DEF BeginDecide, pipe, caller, rate, picture, places, queues
  <2> QED
    BY <2>1, ConservedKept
<1>10. CASE UNCHANGED vars
  <2>1. UNCHANGED places /\ terminated' = terminated
    BY <1>10 DEF vars, lookahead, queues, deciding, pipe, caller, rate, picture, places
  <2> QED
    BY <2>1, ConservedKept
<1> QED
  BY <1>1, <1>2, <1>3, <1>4, <1>5, <1>6, <1>7, <1>8, <1>9, <1>10 DEF Next, ApiStep

-----------------------------------------------------------------------------
(* The bound of the order *)

\* The encoders whose picture rate control has not started, and those of them
\* that will make up for an end that never was.
Unstarted == {e \in Working : enable[e] > 0 \/ fe[e] = "rcStart"}
Early     == {e \in Unstarted : number[e] < NumThreads - 1}

\* m_startEndOrder counts a start and an end of each picture, and what the first
\* ones make up for, but for the events that are still to come.
EventsBound ==
    order + Cardinality(Unended) + Cardinality(Unstarted) + Cardinality(Early)
      <= 2 * encoded + (IF encoded < NumThreads - 1 THEN encoded ELSE NumThreads - 1)
OrderBound ==
    /\ EventsBound
    /\ seen \in [FEs -> Nat] /\ \A e \in FEs : seen[e] <= order
    /\ final <= encoded
    /\ \A e \in FEs : number[e] \in 0 .. MaxPics - 1

LEMMA EventsFinite ==
    /\ IsFiniteSet(Unended) /\ IsFiniteSet(Unstarted) /\ IsFiniteSet(Early)
    /\ Cardinality(Unended) \in Nat /\ Cardinality(Unstarted) \in Nat /\ Cardinality(Early) \in Nat
<1>1. /\ Unended \in SUBSET FEs /\ Unstarted \in SUBSET FEs /\ Early \in SUBSET FEs
  BY DEF Unended, Unstarted, Early, Working
<1>2. IsFiniteSet(Unended) /\ IsFiniteSet(Unstarted) /\ IsFiniteSet(Early)
  BY <1>1, EncodersFinite, FS_Subset
<1> QED
  BY <1>2, FS_CardinalityType

LEMMA OrderBoundInit == Init => OrderBound
<1> SUFFICES ASSUME Init PROVE OrderBound
  OBVIOUS
<1>1. /\ encoded = 0 /\ order = 0 /\ final = 0 /\ frame = [e \in FEs |-> 0]
      /\ seen = [e \in FEs |-> 0] /\ number = [e \in FEs |-> 0]
  BY DEF Init, PipeInit
<1>2. Unended = {} /\ Unstarted = {} /\ Early = {}
  BY <1>1 DEF Unended, Unstarted, Early, Working
<1>3. Cardinality({}) = 0
  BY FS_EmptySet
<1> QED
  BY <1>1, <1>2, <1>3, ThreadsAssumption, PicsAssumption DEF OrderBound, EventsBound

\* Steps in which no event happens.
LEMMA OrderBoundKept ==
    ASSUME RateInv, OrderBound, UNCHANGED <<encoded, order, number>>,
           Unended' = Unended, Unstarted' = Unstarted,
           seen' \in [FEs -> Nat], \A e \in FEs : seen'[e] <= order, final' <= encoded
    PROVE  OrderBound'
<1>1. Early' = Early
  BY DEF Early
<1> QED
  BY <1>1 DEF OrderBound, EventsBound

\* Nothing of it changes, but who is waiting.
LEMMA OrderBoundWakes ==
    ASSUME RateInv, OrderBound, UNCHANGED <<encoded, order, number, seen, frame, enable>>,
           fe' = fe \/ fe' = Wake(fe), final' <= encoded
    PROVE  OrderBound'
<1>1. fe \in [FEs -> Steps]
  BY DEF RateInv, RateTypes
<1>2. \A e \in FEs : fe'[e] # fe[e] => fe[e] = "asleep" /\ fe'[e] = "rcEnd"
  BY <1>1, WakeFacts
<1>3. Unended' = Unended /\ Unstarted' = Unstarted
  BY <1>2 DEF Unended, Unstarted, Working
<1> QED
  BY <1>3, OrderBoundKept DEF OrderBound

\* An encoder that is done, or has none, is not at work.
LEMMA OrderBoundTakes ==
    ASSUME RateInv, Threads, OrderBound,
           UNCHANGED <<encoded, order, number, seen, fe, final>>,
           frame[cur] # 0 => done[cur] > 0, frame' = [frame EXCEPT ![cur] = 0],
           \A e \in FEs : e # cur => enable'[e] = enable[e]
    PROVE  OrderBound'
<1>1. cur \in FEs /\ frame \in [FEs -> Nat] /\ enable \in [FEs -> Nat] /\ done \in [FEs -> Nat]
  BY DEF RateInv, ListInv, ListTypes, RateTypes
<1>2. cur \notin Working
  BY <1>1 DEF Threads, Phase, Stopped, Working
<1>3. Working' = Working
  BY <1>1, <1>2 DEF Working
<1>4. Unended' = Unended /\ Unstarted' = Unstarted
  BY <1>2, <1>3 DEF Unended, Unstarted, Working
<1> QED
  BY <1>4, OrderBoundKept DEF OrderBound

\* A frame encoder without a picture gets the next one.
LEMMA OrderBoundStart ==
    ASSUME RateInv, WaitInv, Threads, Grouped, Conserved, OrderBound, StartFrame
    PROVE  OrderBound'
<1>1. /\ UNCHANGED <<order, final, seen, fe>> /\ encoded' = encoded + 1
      /\ inHand # <<>> /\ api = "start"
      /\ frame' = [frame EXCEPT ![cur] = inHand[1]]
      /\ number' = [number EXCEPT ![cur] = encoded]
      /\ enable' = [enable EXCEPT ![cur] = @ + 1]
  BY DEF StartFrame, rate
<1>2. /\ cur \in FEs /\ frame \in [FEs -> Nat] /\ enable \in [FEs -> Nat] /\ number \in [FEs -> Nat]
      /\ encoded \in Nat /\ order \in Nat /\ fe \in [FEs -> Steps] /\ ListInv
  BY DEF RateInv, ListInv, ListTypes, RateTypes
<1>3. frame[cur] = 0 /\ Phase(cur)
  BY <1>1, <1>2 DEF Threads, RateInv, Handshake, Choosing, Closing
<1>4. enable[cur] = 0 /\ fe[cur] = "idle"
  BY <1>2, <1>3 DEF Phase
<1>5. inHand[1] # 0
  BY <1>1, <1>2 DEF ListInv, ListTypes, Typed, Made
<1>6. /\ Unended' = Unended \cup {cur} /\ cur \notin Unended
      /\ Unstarted' = Unstarted \cup {cur} /\ cur \notin Unstarted
  BY <1>1, <1>2, <1>3, <1>4, <1>5 DEF Unended, Unstarted, Working
<1>7. Early' = IF encoded < NumThreads - 1 THEN Early \cup {cur} ELSE Early
  BY <1>1, <1>2, <1>6 DEF Early, Unstarted, Working
<1>8. cur \notin Early
  BY <1>6 DEF Early
<1>9. /\ Cardinality(Unended') = Cardinality(Unended) + 1
      /\ Cardinality(Unstarted') = Cardinality(Unstarted) + 1
      /\ Cardinality(Early') = IF encoded < NumThreads - 1 THEN Cardinality(Early) + 1
                                                           ELSE Cardinality(Early)
  BY <1>6, <1>7, <1>8, EventsFinite, FS_AddElement
<1>10. encoded <= MaxPics - 1
  <2>1. /\ Len(input) \in Nat /\ Len(output) \in Nat /\ Cardinality(Held) \in Nat
        /\ Len(inHand) \div 2 = 1
    BY <1>1, <1>2, WaitingTypes
  <2>2. Waiting \in Nat /\ Waiting >= 1
    BY <2>1 DEF Waiting
  <2>3. NextPoc \in Int
    BY <1>2, NextPocFacts
  <2> QED
    BY <1>2, <2>2, <2>3, PicsAssumption DEF Conserved
<1>11. EventsBound'
  <2>1. order + Cardinality(Unended) + Cardinality(Unstarted) + Cardinality(Early)
           <= 2 * encoded + (IF encoded < NumThreads - 1 THEN encoded ELSE NumThreads - 1)
    BY DEF OrderBound, EventsBound
  <2>u. PICK u \in Nat : u = Cardinality(Unended)
    BY EventsFinite
  <2>s. PICK s \in Nat : s = Cardinality(Unstarted)
    BY EventsFinite
  <2>a. PICK a \in Nat : a = Cardinality(Early)
    BY EventsFinite
  <2>2. Cardinality(Unended') = u + 1 /\ Cardinality(Unstarted') = s + 1
    BY <1>9, <2>u, <2>s
  <2>3. CASE encoded < NumThreads - 1
    <3>1. order + u + s + a <= 2 * encoded + encoded
      BY <2>1, <2>3, <2>u, <2>s, <2>a
    <3>2. Cardinality(Early') = a + 1
      BY <1>9, <2>3, <2>a
    <3>3. order + (u + 1) + (s + 1) + (a + 1) <= 2 * (encoded + 1) + (encoded + 1)
      BY <1>2, <3>1
    <3>4. (IF encoded + 1 < NumThreads - 1 THEN encoded + 1 ELSE NumThreads - 1) = encoded + 1
      BY <1>2, <2>3, ThreadsAssumption
    <3> QED
      BY <1>1, <1>2, <2>2, <3>2, <3>3, <3>4 DEF EventsBound
  <2>4. CASE ~(encoded < NumThreads - 1)
    <3>1. order + u + s + a <= 2 * encoded + (NumThreads - 1)
      BY <2>1, <2>4, <2>u, <2>s, <2>a
    <3>2. Cardinality(Early') = a
      BY <1>9, <2>4, <2>a
    <3>3. order + (u + 1) + (s + 1) + a <= 2 * (encoded + 1) + (NumThreads - 1)
      BY <1>2, <3>1, ThreadsAssumption
    <3>4. (IF encoded + 1 < NumThreads - 1 THEN encoded + 1 ELSE NumThreads - 1) = NumThreads - 1
      BY <1>2, <2>4, ThreadsAssumption
    <3> QED
      BY <1>1, <1>2, <2>2, <3>2, <3>3, <3>4, ThreadsAssumption DEF EventsBound
  <2> QED
    BY <2>3, <2>4
<1>12. /\ seen' \in [FEs -> Nat] /\ final' <= encoded'
       /\ \A e \in FEs : seen'[e] <= order'
       /\ \A e \in FEs : number'[e] \in 0 .. MaxPics - 1
  BY <1>1, <1>2, <1>10, PicsAssumption DEF OrderBound, RateInv, RateTypes
<1> QED
  BY <1>11, <1>12 DEF OrderBound

\* A picture starts in rate control.
LEMMA OrderBoundRcStart ==
    ASSUME RateInv, Threads, OrderBound, NEW e \in FEs, RcStart(e)
    PROVE  OrderBound'
<1>1. /\ fe[e] = "rcStart" /\ UNCHANGED <<encoded, number, seen, final, frame, enable>>
      /\ order' = order + (IF number[e] < NumThreads - 1 THEN 2 ELSE 1)
      /\ fe' = Wake([fe EXCEPT ![e] = "row"])
  BY DEF RcStart, picture, events
<1>2. /\ frame \in [FEs -> Nat] /\ enable \in [FEs -> Nat] /\ number \in [FEs -> Nat]
      /\ encoded \in Nat /\ order \in Nat /\ fe \in [FEs -> Steps]
  BY DEF RateInv, ListInv, ListTypes, RateTypes
<1>3. enable[e] = 0 /\ frame[e] # 0
  BY <1>1, <1>2 DEF Threads, Phase, Stopped
<1>4. /\ fe'[e] = "row"
      /\ \A d \in FEs : d # e => fe'[d] = fe[d] \/ (fe[d] = "asleep" /\ fe'[d] = "rcEnd")
  BY <1>1, <1>2 DEF Wake
<1>5. Unended' = Unended /\ Unstarted' = Unstarted \ {e} /\ e \in Unstarted
  <2>1. Working' = Working /\ e \in Working /\ Working \subseteq FEs
    BY <1>1, <1>2, <1>3, <1>4 DEF Working
  <2> QED
    <3>1. Unended' = Unended
      BY <1>1, <1>4, <2>1 DEF Unended
    <3>2. Unstarted' = Unstarted \ {e} /\ e \in Unstarted
      <4>1. \A d \in FEs : fe'[d] = "rcStart" <=> fe[d] = "rcStart" /\ d # e
        BY <1>1, <1>4
      <4>2. enable' = enable /\ ~ (enable[e] > 0) /\ fe[e] = "rcStart"
        BY <1>1, <1>3
      <4> QED
        BY <2>1, <4>1, <4>2 DEF Unstarted
    <3> QED
      BY <3>1, <3>2
<1>6. Early' = Early \ {e} /\ (e \in Early <=> number[e] < NumThreads - 1)
  BY <1>1, <1>5 DEF Early
<1>7. /\ Cardinality(Unstarted') = Cardinality(Unstarted) - 1
      /\ Cardinality(Early') = IF number[e] < NumThreads - 1 THEN Cardinality(Early) - 1
                                                             ELSE Cardinality(Early)
  <2>1. e \notin Early => Early \ {e} = Early
    OBVIOUS
  <2> QED
    BY <1>5, <1>6, <2>1, EventsFinite, FS_RemoveElement
<1>8. order' + Cardinality(Unended') + Cardinality(Unstarted') + Cardinality(Early')
        = order + Cardinality(Unended) + Cardinality(Unstarted) + Cardinality(Early)
  BY <1>1, <1>2, <1>5, <1>7, EventsFinite
<1>9. \A d \in FEs : seen[d] <= order'
  BY <1>1, <1>2 DEF OrderBound
<1> QED
  BY <1>1, <1>8, <1>9 DEF OrderBound, EventsBound

\* It ends there.
LEMMA OrderBoundFinish ==
    ASSUME RateInv, Threads, OrderBound, NEW e \in FEs, FinishRc(e)
    PROVE  OrderBound'
<1>1. /\ fe[e] = "finish" /\ UNCHANGED <<encoded, number, seen, final, frame, enable>>
      /\ order' = order + 1 /\ fe' = Wake([fe EXCEPT ![e] = "release"])
  BY DEF FinishRc, picture, events
<1>2. /\ frame \in [FEs -> Nat] /\ enable \in [FEs -> Nat] /\ number \in [FEs -> Nat]
      /\ encoded \in Nat /\ order \in Nat /\ fe \in [FEs -> Steps]
  BY DEF RateInv, ListInv, ListTypes, RateTypes
<1>3. enable[e] = 0 /\ frame[e] # 0
  <2>1. Phase(e)
    <3>1. ~Stopped(e)
      BY <1>1 DEF Stopped
    <3> QED
      BY <3>1 DEF Threads
  <2>2. fe[e] # "idle" /\ (enable[e] > 0 => fe[e] = "idle") /\ (fe[e] # "idle" => frame[e] # 0)
    BY <1>1, <2>1, Zenon DEF Phase
  <2>3. enable[e] \in Nat
    BY <1>2
  <2> QED
    BY <2>2, <2>3
<1>4. /\ fe'[e] = "release"
      /\ \A d \in FEs : d # e => fe'[d] = fe[d] \/ (fe[d] = "asleep" /\ fe'[d] = "rcEnd")
  BY <1>1, <1>2 DEF Wake
<1>5. Unended' = Unended \ {e} /\ e \in Unended /\ Unstarted' = Unstarted
  BY <1>1, <1>2, <1>3, <1>4 DEF Unended, Unstarted, Working
<1>6. Early' = Early
  BY <1>1, <1>5 DEF Early
<1>7. Cardinality(Unended') = Cardinality(Unended) - 1
  BY <1>5, EventsFinite, FS_RemoveElement
<1>8. order' + Cardinality(Unended') + Cardinality(Unstarted') + Cardinality(Early')
        = order + Cardinality(Unended) + Cardinality(Unstarted) + Cardinality(Early)
  BY <1>1, <1>2, <1>5, <1>6, <1>7, EventsFinite
<1>9. \A d \in FEs : seen[d] <= order'
  BY <1>1, <1>2 DEF OrderBound
<1> QED
  BY <1>1, <1>8, <1>9 DEF OrderBound, EventsBound

\* The other steps of a frame encoder.
LEMMA OrderBoundEncoder ==
    ASSUME RateInv, Threads, OrderBound, NEW e \in FEs,
           \/ Enabled(e) \/ EncodeRow(e) \/ RcEnd(e) \/ WaitForChange(e) \/ Release(e)
    PROVE  OrderBound'
<1>1. /\ frame \in [FEs -> Nat] /\ enable \in [FEs -> Nat] /\ seen \in [FEs -> Nat]
      /\ order \in Nat /\ fe \in [FEs -> Steps]
  BY DEF RateInv, ListInv, ListTypes, RateTypes, OrderBound
<1>2. UNCHANGED <<encoded, order, number, final, frame>>
  BY DEF Enabled, EncodeRow, RcEnd, WaitForChange, Release, rate, picture
<1>3. \A d \in FEs : d # e => fe'[d] = fe[d] /\ enable'[d] = enable[d]
  BY <1>1 DEF Enabled, EncodeRow, RcEnd, WaitForChange, Release, events
<1>4. (e \in Unended' <=> e \in Unended) /\ (e \in Unstarted' <=> e \in Unstarted)
  <2>1. CASE Enabled(e)
    BY <1>1, <1>2, <2>1 DEF Enabled, Unended, Unstarted, Working, Threads, Phase, Stopped
  <2>2. CASE EncodeRow(e) \/ RcEnd(e) \/ WaitForChange(e)
    <3>1. /\ fe[e] \in {"row", "rcEnd", "toWait"} /\ enable' = enable
          /\ fe'[e] \in {"row", "rcEnd", "toWait", "finish", "asleep"}
      BY <1>1, <2>2 DEF EncodeRow, RcEnd, WaitForChange, events
    <3> QED
      BY <1>2, <3>1 DEF Unended, Unstarted, Working
  <2>3. CASE Release(e)
    <3>1. fe[e] = "release" /\ fe'[e] = "idle" /\ enable' = enable
      BY <1>1, <2>3 DEF Release
    <3>2. enable[e] = 0
      <4>1. Phase(e) \/ Stopped(e)
        BY DEF Threads
      <4> QED
        BY <1>1, <3>1, <4>1 DEF Phase, Stopped
    <3> QED
      BY <1>2, <3>1, <3>2 DEF Unended, Unstarted, Working
  <2> QED
    BY <2>1, <2>2, <2>3
<1>5. Unended' = Unended /\ Unstarted' = Unstarted
  BY <1>2, <1>3, <1>4 DEF Unended, Unstarted, Working
<1>6. seen' \in [FEs -> Nat] /\ \A d \in FEs : seen'[d] <= order
  <2>1. CASE RcEnd(e)
    <3>1. PICK n \in Nat : n <= order /\ seen' = [seen EXCEPT ![e] = n]
      <4>1. PICK n : n = IF MayEnd(e) THEN 0 ELSE order
        OBVIOUS
      <4>2. n \in Nat /\ n <= order
        BY <1>1, <4>1
      <4> QED
        BY <2>1, <4>1, <4>2 DEF RcEnd
    <3> QED
      BY <1>1, <3>1 DEF OrderBound
  <2>2. CASE seen' = seen
    BY <1>1, <2>2 DEF OrderBound
  <2> QED
    BY <2>1, <2>2 DEF Enabled, EncodeRow, WaitForChange, Release
<1> QED
  BY <1>2, <1>5, <1>6, OrderBoundKept DEF OrderBound

LEMMA OrderBoundStep ==
    RateInv /\ WaitInv /\ Threads /\ Grouped /\ Conserved /\ OrderBound /\ [Next]_vars => OrderBound'
<1> SUFFICES ASSUME RateInv, WaitInv, Threads, Grouped, Conserved, OrderBound, [Next]_vars
             PROVE  OrderBound'
  OBVIOUS
<1>1. CASE StartFrame
  BY <1>1, OrderBoundStart
<1>2. CASE GetEncoded
  <2>1. UNCHANGED <<encoded, order, number, seen, fe, final, enable>>
    BY <1>2 DEF GetEncoded, rate
  <2>2. CASE frame' = frame
    BY <2>1, <2>2, OrderBoundWakes DEF OrderBound
  <2>3. CASE frame[cur] # 0 /\ done[cur] > 0 /\ frame' = [frame EXCEPT ![cur] = 0]
    BY <2>1, <2>3, OrderBoundTakes
  <2> QED
    BY <1>2, <2>2, <2>3 DEF GetEncoded
<1>3. CASE StopFrameEncoder
  <2>1. /\ UNCHANGED <<encoded, order, number, seen, fe, final>>
        /\ frame[cur] # 0 => done[cur] > 0
        /\ frame' = [frame EXCEPT ![cur] = 0] /\ enable' = [enable EXCEPT ![cur] = @ + 1]
    BY <1>3 DEF StopFrameEncoder, rate
  <2>2. \A e \in FEs : e # cur => enable'[e] = enable[e]
    BY <2>1 DEF RateInv, RateTypes
  <2> QED
    BY <2>1, <2>2, OrderBoundTakes
<1>4. CASE \/ AddPicture \/ Flush \/ TakeDecided \/ FindJob \/ AwaitOutput \/ PopUnlocked \/ NoFrame
           \/ Terminate \/ StopLookahead \/ Join
  <2>1. /\ UNCHANGED <<encoded, order, number, seen, frame, enable>>
        /\ (fe' = fe \/ fe' = Wake(fe)) /\ final' \in {final, encoded}
    BY <1>4 DEF AddPicture, Flush, TakeDecided, FindJob, AwaitOutput, PopUnlocked, NoFrame,
          Terminate, StopLookahead, Join, rate, picture, events
  <2>2. final' <= encoded
    BY <2>1 DEF OrderBound, RateInv, RateTypes
  <2> QED
    BY <2>1, <2>2, OrderBoundWakes
<1>5. ASSUME NEW e \in FEs, EncoderStep(e) PROVE OrderBound'
  BY <1>5, OrderBoundEncoder, OrderBoundRcStart, OrderBoundFinish DEF EncoderStep
<1>6. CASE UNCHANGED pipe \/ UNCHANGED vars
  <2>1. UNCHANGED <<encoded, order, number, seen, frame, enable, fe, final>>
    BY <1>6 DEF vars, pipe, rate, picture, events
  <2> QED
    BY <2>1, OrderBoundWakes DEF OrderBound
<1> QED
  BY <1>1, <1>2, <1>3, <1>4, <1>5, <1>6 DEF Next, ApiStep, DeciderStep

-----------------------------------------------------------------------------
(* All of it *)

CountInv == /\ RateInv /\ WaitInv /\ Scalars /\ Threads /\ RowsDone /\ CountsUp
            /\ Grouped /\ Conserved /\ OrderBound

LEMMA CountInit == Init => CountInv
BY RateInit, WaitInit, ScalarsInit, ThreadsInit, RowsInit, CountsUpInit, GroupedInit, ConservedInit,
   OrderBoundInit DEF CountInv

LEMMA CountStep == CountInv /\ [Next]_vars => CountInv'
<1> SUFFICES ASSUME CountInv, [Next]_vars PROVE CountInv'
  OBVIOUS
<1>1. /\ RateInv /\ WaitInv /\ Scalars /\ Threads /\ RowsDone /\ CountsUp
      /\ Grouped /\ Conserved /\ OrderBound /\ ListInv
  BY DEF CountInv, RateInv
<1>2. RateInv' /\ WaitInv' /\ Scalars' /\ Threads'
  BY <1>1, RateStep, WaitStep, ScalarsStep, ThreadsStep
<1>3. RowsDone'
  <2>1. ListInv'
    BY <1>2 DEF RateInv
  <2> QED
    BY <1>1, <2>1, RowsStep
<1>4. CountsUp' /\ Grouped'
  BY <1>1, CountsUpStep, GroupedStep
<1>5. Conserved' /\ OrderBound'
  BY <1>1, ConservedStep, OrderBoundStep
<1> QED
  BY <1>2, <1>3, <1>4, <1>5 DEF CountInv

\* The types of the lookahead.
LEMMA LookaheadTypes == CountInv => LookaheadTypeOK
<1> SUFFICES ASSUME CountInv PROVE LookaheadTypeOK
  OBVIOUS
<1>1. ListInv /\ Scalars /\ WaitInv
  BY DEF CountInv, RateInv
<1>2. /\ param \in Params /\ input \in Seq(Made) /\ output \in Seq(Typed)
      /\ gop \in [Deciders -> Seq(Typed)] /\ Made \subseteq Frames
  BY <1>1, AllMade DEF ListInv, ListTypes
<1>3. \A i \in DOMAIN input : input[i] \in Frames
  BY <1>2
<1>4. Typed \subseteq Frames \X {"I", "P", "B"}
  BY <1>2 DEF Typed, Kinds
<1>5. ASSUME NEW q \in Seq(Typed), NEW i \in DOMAIN q PROVE q[i] \in Frames \X {"I", "P", "B"}
  BY <1>4
<1>6. /\ \A i \in DOMAIN output : output[i] \in Frames \X {"I", "P", "B"}
      /\ \A t \in Deciders : \A i \in DOMAIN gop[t] : gop[t][i] \in Frames \X {"I", "P", "B"}
  BY <1>2, <1>5
<1>7. /\ poc \in [Frames -> -1 .. MaxPics - 1] /\ full \in {1, Max({1, Depth})}
      /\ filled \in BOOLEAN /\ active \in BOOLEAN /\ lastKey \in -KeyInt .. MaxPics
  BY <1>1 DEF Scalars
<1>8. /\ busy \in BOOLEAN /\ required \in BOOLEAN /\ signal \in {0, 1}
      /\ dec \in [Deciders -> {"idle", "analyse", "decided", "push", "end"}]
  BY <1>1 DEF WaitInv, WaitTypes, Labels
<1> QED
  BY <1>2, <1>3, <1>6, <1>7, <1>8 DEF LookaheadTypeOK

\* The counters have their bounds.
LEMMA CountersBounded ==
    ASSUME CountInv
    PROVE  /\ delayed \in 0 .. MaxPics /\ encoded \in 0 .. MaxPics /\ final \in 0 .. MaxPics
           /\ order \in 0 .. 2 * MaxPics + NumThreads
           /\ seen \in [FEs -> 0 .. 2 * MaxPics + NumThreads]
           /\ number \in [FEs -> 0 .. MaxPics - 1]
           /\ count \in [Frames -> 0 .. NumThreads + 1]
<1>1. /\ RateInv /\ WaitInv /\ CountsUp /\ Grouped /\ Conserved /\ OrderBound /\ ListInv
  BY DEF CountInv, RateInv
<1>2. encoded \in Nat /\ order \in Nat /\ final \in Nat /\ number \in [FEs -> Nat]
  BY <1>1 DEF RateInv, RateTypes
<1>3. Waiting \in Nat
  <2>1. /\ Len(input) \in Nat /\ Len(output) \in Nat /\ Cardinality(Held) \in Nat
        /\ Len(inHand) \div 2 \in Nat
    BY <1>1, WaitingTypes
  <2> QED
    BY <2>1 DEF Waiting
<1>4. /\ delayed \in Nat /\ delayed <= NextPoc /\ NextPoc <= MaxPics /\ encoded + Waiting = NextPoc
      /\ NextPoc \in Int
  BY <1>1, NextPocFacts DEF Conserved
<1>5. delayed \in 0 .. MaxPics /\ encoded \in 0 .. MaxPics
  BY <1>2, <1>3, <1>4, PicsAssumption
<1>6. final \in 0 .. MaxPics
  BY <1>1, <1>2, <1>5, PicsAssumption DEF OrderBound
<1>7. order \in 0 .. 2 * MaxPics + NumThreads
  <2>1. PICK u \in Nat : u = Cardinality(Unended)
    BY EventsFinite
  <2>2. PICK s \in Nat : s = Cardinality(Unstarted)
    BY EventsFinite
  <2>3. PICK a \in Nat : a = Cardinality(Early)
    BY EventsFinite
  <2>4. order + u + s + a
          <= 2 * encoded + (IF encoded < NumThreads - 1 THEN encoded ELSE NumThreads - 1)
    BY <1>1, <2>1, <2>2, <2>3 DEF OrderBound, EventsBound
  <2> QED
    BY <1>2, <1>5, <2>4, ThreadsAssumption, PicsAssumption
<1>8. seen \in [FEs -> 0 .. 2 * MaxPics + NumThreads]
  BY <1>1, <1>2, <1>7, PicsAssumption, ThreadsAssumption DEF OrderBound
<1>9. number \in [FEs -> 0 .. MaxPics - 1]
  BY <1>1, <1>2 DEF OrderBound
<1>10. count \in [Frames -> 0 .. NumThreads + 1]
  <2>1. count \in [Frames -> Int]
    BY <1>1 DEF ListInv, ListTypes
  <2>2. ASSUME NEW f \in Frames PROVE count[f] \in 0 .. NumThreads + 1
    <3>1. Holders(f) \in SUBSET FEs
      BY DEF Holders
    <3>2. Cardinality(Holders(f)) \in Nat /\ Cardinality(Holders(f)) <= NumThreads
      BY <3>1, HoldersFinite, EncodersFinite, FS_Subset
    <3>3. Cardinality(Holders(f)) <= count[f] /\ count[f] <= Cardinality(Holders(f)) + 1
      BY <1>1 DEF ListInv, Counts, CountsUp
    <3>4. count[f] \in Int
      BY <2>1
    <3> QED
      BY <3>2, <3>3, <3>4, ThreadsAssumption
  <2> QED
    BY <2>1, <2>2
<1> QED
  BY <1>5, <1>6, <1>7, <1>8, <1>9, <1>10

LEMMA PipeTypes == CountInv => TypeOK
<1> SUFFICES ASSUME CountInv PROVE TypeOK
  OBVIOUS
<1>1. ListInv /\ RateTypes /\ Scalars /\ Threads /\ RowsDone
  BY DEF CountInv, RateInv
<1>2. LookaheadTypeOK
  BY LookaheadTypes
<1>3. /\ created \in Nat /\ created <= MaxPics /\ cur \in FEs
      /\ freeList \in Seq(Made) /\ picList \in Seq(Made)
      /\ inHand = <<>> \/ inHand \in Typed
      /\ frame \in [FEs -> Nat] /\ refs \in [FEs -> SUBSET (Made \X Int)]
  BY <1>1 DEF ListInv, ListTypes
<1>4. Made \subseteq Frames /\ \A e \in FEs : frame[e] # 0 => frame[e] \in Made
  BY <1>1, AllMade
<1>5. api \in Calls
  BY <1>1 DEF Threads, Closing, Running, Choosing, Calls
<1>6. inHand = <<>> \/ inHand \in Frames \X {"I", "P", "B"}
  BY <1>3, <1>4 DEF Typed, Kinds
<1>7. Range(freeList) \subseteq 1 .. created /\ Range(picList) \subseteq 1 .. created
  BY <1>3 DEF Made, Range
<1>8. frame \in [FEs -> 0 .. MaxPics]
  BY <1>3, <1>4, PicsAssumption DEF Frames
<1>9. ASSUME NEW e \in FEs PROVE refs[e] \subseteq Frames \X (0 .. MaxPics - 1)
  <2> SUFFICES ASSUME NEW r \in refs[e] PROVE r \in Frames \X (0 .. MaxPics - 1)
    OBVIOUS
  <2>1. r \in Made \X Int /\ poc[r[1]] = r[2]
    BY <1>1, <1>3 DEF ListInv, InDPB
  <2>2. r[1] \in Frames /\ r[1] \in Made
    BY <1>4, <2>1
  <2>3. poc[r[1]] \in 0 .. MaxPics - 1
    BY <1>1, <2>2, PicsAssumption DEF Scalars
  <2> QED
    BY <2>1, <2>2, <2>3
<1>10. enable \in [FEs -> {0, 1}] /\ done \in [FEs -> {0, 1}]
  <2>1. ASSUME NEW e \in FEs PROVE enable[e] \in {0, 1} /\ done[e] \in {0, 1}
    <3>1. Phase(e) \/ Stopped(e)
      BY <1>1 DEF Threads
    <3>2. enable[e] \in Nat /\ done[e] \in Nat
      BY <1>1 DEF RateTypes
    <3> QED
      BY <3>1, <3>2 DEF Phase, Stopped
  <2> QED
    BY <1>1, <2>1 DEF RateTypes
<1>11. /\ created \in 0 .. MaxPics /\ ret \in {0, 1} /\ eof \in BOOLEAN /\ pending \in BOOLEAN
       /\ crashed \in BOOLEAN /\ terminated \in BOOLEAN /\ hasRef \in [Frames -> BOOLEAN]
       /\ cra \in 0 .. MaxPics - 1 /\ fe \in [FEs -> Steps] /\ kind \in [FEs -> {"I", "P", "B"}]
       /\ threadActive \in [FEs -> BOOLEAN]
  BY <1>1, <1>3, PicsAssumption DEF Scalars, RateTypes, Kinds
<1>12. recon \in [Frames -> 0 .. NumRows] /\ row \in [FEs -> 0 .. NumRows - 1]
  BY <1>1 DEF RowsDone
<1> QED
  BY <1>2, <1>3, <1>5, <1>6, <1>7, <1>8, <1>9, <1>10, <1>11, <1>12, CountersBounded DEF TypeOK

\* The counters of the encoder stay in their bounds (no event is triggered
\* twice, no reference counter drops below 0), and m_numDelayedPic counts the
\* pictures that are in the queues, with a thread that decides, or in a frame
\* encoder (encoder.cpp): none is lost on its way, and none is in two places.
THEOREM PicturesAreCounted == Spec => []PipeInv
<1>1. Spec => []CountInv
  BY CountInit, CountStep, PTL DEF Spec
<1>2. CountInv => PipeInv
  BY PipeTypes DEF PipeInv, NoneLost, CountInv, Conserved, Waiting
<1> QED
  BY <1>1, <1>2, PTL

-----------------------------------------------------------------------------
(* The order in which pictures are encoded *)

\* Pictures in the order of their encode: from the API thread's hand to those
\* that a thread has chosen.
Group == IF \E t \in Deciders : gop[t] # <<>>
         THEN gop[CHOOSE t \in Deciders : gop[t] # <<>>] ELSE <<>>
Line  == (IF inHand = <<>> THEN <<>> ELSE <<inHand>>) \o (output \o Group)

\* The pictures that others may refer to: of the DPB; of the first n of a queue.
Marks           == {g \in Frames : hasRef[g]}
AnchorsOf(q, n) == {q[i][1] : i \in {j \in 1 .. n : q[j][2] # "B"}}
Known           == Marks \cup AnchorsOf(Line, Len(Line))

\* A picture of type k that is encoded when those of S may be referred to: an I or
\* P picture is later than all of them, and the latest is in reach of a P
\* picture; a B picture is between the two that are latest.
Latest(a, S)       == a \in S /\ \A g \in S : g = a \/ poc[g] < poc[a]
LatestTwo(a, b, S) == /\ a \in S /\ b \in S /\ poc[a] < poc[b]
                      /\ \A g \in S : g \in {a, b} \/ poc[g] < poc[a]
Fits(f, k, S) ==
    /\ k # "B" => \A g \in S : poc[g] < poc[f]
    /\ k = "P" => \E a \in S : Latest(a, S) /\ poc[f] - poc[a] <= BFrames + 1
    /\ k = "B" => \E a, b \in S : /\ LatestTwo(a, b, S) /\ poc[b] - poc[a] <= BFrames + 1
                                  /\ poc[a] < poc[f] /\ poc[f] < poc[b]
InLine(q, S) == \A i \in 1 .. Len(q) : Fits(q[i][1], q[i][2], S \cup AnchorsOf(q, i - 1))

\* The input queue goes on where the line ends.
First       == NextPoc - Len(input)
Consecutive == \A i \in 1 .. Len(input) : poc[input[i]] = First + i - 1
Tip         == IF Known = {} THEN First = 0 /\ lastKey = -KeyInt
               ELSE \E a \in Known : Latest(a, Known) /\ poc[a] = First - 1

\* The DPB has its references latest first; a refresh is pending from the latest.
Sorted == \A i, j \in 1 .. Len(picList) :
    i < j /\ hasRef[picList[i]] /\ hasRef[picList[j]] => poc[picList[i]] > poc[picList[j]]
CraTop == pending => \E g \in Marks : Latest(g, Marks) /\ poc[g] = cra

\* The references that a picture needs.
Right(e) ==
    /\ kind[e] = "P" => \E r \in refs[e] :
          r[2] < poc[frame[e]] /\ poc[frame[e]] - r[2] <= BFrames + 1
    /\ kind[e] = "B" => \E r, s \in refs[e] :
          r[2] < poc[frame[e]] /\ poc[frame[e]] < s[2] /\ s[2] - r[2] <= BFrames + 1
Rights == \A e \in FEs : frame[e] # 0 /\ (enable[e] > 0 \/ fe[e] \in {"rcStart", "row"}) => Right(e)

OrderInv == Marks \subseteq Present /\ InLine(Line, Marks) /\ Consecutive /\ Tip /\ Sorted /\ CraTop
            /\ Rights

\* Select() keeps the order: what holds of the elements of s that are in S, one
\* before the other, holds of those it returns.
LEMMA SelectSorted ==
    ASSUME NEW T, NEW s \in Seq(T), NEW S, NEW R,
           \A i, j \in 1 .. Len(s) : i < j /\ s[i] \in S /\ s[j] \in S => <<s[i], s[j]>> \in R
    PROVE  \A i, j \in 1 .. Len(Select(s, S)) :
              i < j => <<Select(s, S)[i], Select(s, S)[j]>> \in R
<1>l. Len(s) \in Nat /\ DOMAIN s = 1 .. Len(s)
  OBVIOUS
<1>1. PICK f : Selects(s, S, Len(s), f) /\ Select(s, S) = f[Len(s)]
  BY <1>l, SelectDefined
<1> DEFINE From(n) == \A i \in 1 .. Len(f[n]) : f[n][i] \in S /\ \E m \in 1 .. n : f[n][i] = s[m]
           InR(n)  == \A i, j \in 1 .. Len(f[n]) : i < j => <<f[n][i], f[n][j]>> \in R
           N == {n \in Nat : n <= Len(s) => f[n] \in Seq(T) /\ From(n) /\ InR(n)}
<1>2. 0 \in N
  <2>1. f[0] = <<>>
    BY <1>l, <1>1 DEF Selects
  <2>2. f[0] \in Seq(T) /\ 1 .. Len(f[0]) = {}
    BY <2>1
  <2>3. From(0) /\ InR(0)
    BY <2>2
  <2> QED
    BY <2>2, <2>3
<1>3. ASSUME NEW n \in N PROVE n + 1 \in N
  <2>1. SUFFICES ASSUME n + 1 <= Len(s) PROVE f[n + 1] \in Seq(T) /\ From(n + 1) /\ InR(n + 1)
    OBVIOUS
  <2>2. n \in Nat /\ n <= Len(s) /\ n + 1 \in 1 .. Len(s) /\ n + 1 \in 0 .. Len(s)
        /\ (n + 1) - 1 = n /\ n + 1 # 0
    BY <1>l, <2>1
  <2>3. f[n] \in Seq(T) /\ From(n) /\ InR(n)
    BY <2>2
  <2>x. PICK x \in T : x = s[n + 1]
    BY <2>2
  <2>r. PICK r \in Seq(T) : r = f[n]
    BY <2>3
  <2>4. f[n + 1] = IF x \in S THEN Append(r, x) ELSE r
    BY <1>1, <2>2, <2>x, <2>r DEF Selects
  <2>5. \A m \in 1 .. n : m \in 1 .. n + 1 /\ m < n + 1 /\ m \in 1 .. Len(s)
    BY <1>l, <2>2
  <2>6. CASE x \notin S
    BY <2>3, <2>4, <2>5, <2>6, <2>r
  <2>7. CASE x \in S
    <3>l. PICK l \in Nat : l = Len(r)
      OBVIOUS
    <3>a. PICK a : a = Append(r, x)
      OBVIOUS
    <3>1. /\ a \in Seq(T) /\ Len(a) = l + 1 /\ a[l + 1] = x
          /\ \A i \in 1 .. l : a[i] = r[i]
      BY <3>a, <3>l, AppendProperties
    <3>2. \A i \in 1 .. l : r[i] \in S /\ \E m \in 1 .. n : r[i] = s[m]
      BY <2>3, <2>r, <3>l
    <3>3. \A i \in 1 .. l + 1 : i \in 1 .. l \/ i = l + 1
      OBVIOUS
    <3>4. ASSUME NEW i \in 1 .. l + 1 PROVE a[i] \in S /\ \E m \in 1 .. n + 1 : a[i] = s[m]
      <4>1. CASE i \in 1 .. l
        BY <2>5, <3>1, <3>2, <4>1
      <4>2. CASE i = l + 1
        <5>1. n + 1 \in 1 .. n + 1
          BY <2>2
        <5> QED
          BY <2>7, <2>x, <3>1, <4>2, <5>1
      <4> QED
        BY <3>3, <4>1, <4>2
    <3>5. ASSUME NEW i \in 1 .. l + 1, NEW j \in 1 .. l + 1, i < j PROVE <<a[i], a[j]>> \in R
      <4>1. i \in 1 .. l
        BY <3>5
      <4>2. CASE j \in 1 .. l
        BY <2>3, <2>r, <3>5, <3>l, <3>1, <4>1, <4>2
      <4>3. CASE j = l + 1
        <5>1. PICK m \in 1 .. n : r[i] = s[m]
          BY <3>2, <4>1
        <5>2. m \in 1 .. Len(s) /\ n + 1 \in 1 .. Len(s) /\ m < n + 1
          BY <2>2, <2>5
        <5>3. s[m] \in S /\ s[n + 1] \in S
          BY <2>7, <2>x, <3>2, <4>1, <5>1
        <5>4. <<s[m], s[n + 1]>> \in R
          BY <5>2, <5>3
        <5> QED
          BY <2>x, <3>1, <4>1, <4>3, <5>1, <5>4
      <4> QED
        BY <3>3, <4>2, <4>3
    <3>6. f[n + 1] = a
      BY <2>4, <2>7, <3>a
    <3> QED
      BY <3>1, <3>4, <3>5, <3>6
  <2> QED
    BY <2>6, <2>7
<1>4. N = Nat
  <2> HIDE DEF N
  <2>1. N \in SUBSET Nat
    BY DEF N
  <2> QED
    BY <1>2, <1>3, <2>1, Induction
<1>5. InR(Len(s))
  <2>1. Len(s) \in N
    BY <1>l, <1>4
  <2> QED
    BY <1>l, <2>1
<1> QED
  BY <1>1, <1>5

-----------------------------------------------------------------------------
(* Fewer references *)

\* Of the pictures of B, A has those that another may need.
Keeps(A, B) ==
    /\ A \subseteq B
    /\ \A a : Latest(a, B) => a \in A
    /\ BFrames >= 1 => \A a, b : LatestTwo(a, b, B) => a \in A /\ b \in A

LEMMA KeepsMore ==
    ASSUME poc \in [Frames -> Int], NEW A, NEW B \in SUBSET Frames, NEW R \in SUBSET Frames,
           Keeps(A, B)
    PROVE  Keeps(A \cup R, B \cup R)
<1>0. \A g \in B \cup R : poc[g] \in Int
  OBVIOUS
<1>1. ASSUME NEW a, Latest(a, B \cup R) PROVE a \in A \cup R
  BY <1>1 DEF Keeps, Latest
<1>2. ASSUME BFrames >= 1, NEW a, NEW b, LatestTwo(a, b, B \cup R)
      PROVE  a \in A \cup R /\ b \in A \cup R
  <2>1. /\ a \in B \cup R /\ b \in B \cup R /\ poc[a] < poc[b]
        /\ \A g \in B \cup R : g \in {a, b} \/ poc[g] < poc[a]
    BY <1>2 DEF LatestTwo
  <2>2. a \in B /\ b \in B => LatestTwo(a, b, B)
    BY <2>1 DEF LatestTwo
  <2>3. a \in B /\ b \notin B => Latest(a, B)
    BY <2>1 DEF Latest
  <2>4. b \in B /\ a \notin B => Latest(b, B)
    <3> SUFFICES ASSUME b \in B, a \notin B, NEW g \in B PROVE g = b \/ poc[g] < poc[b]
      BY DEF Latest
    <3>1. g = b \/ poc[g] < poc[a]
      BY <2>1
    <3> QED
      BY <1>0, <2>1, <3>1
  <2> QED
    BY <1>2, <2>1, <2>2, <2>3, <2>4 DEF Keeps
<1>3. A \cup R \subseteq B \cup R
  BY DEF Keeps
<1> QED
  BY <1>1, <1>2, <1>3 DEF Keeps

\* A picture still finds its references.
LEMMA FitsLess ==
    ASSUME poc \in [Frames -> Int], BFrames \in Nat,
           NEW A, NEW B \in SUBSET Frames, Keeps(A, B),
           NEW f \in Frames, NEW k, Fits(f, k, B)
    PROVE  Fits(f, k, A)
<1>1. A \subseteq B /\ \A g \in B : poc[g] \in Int
  BY DEF Keeps
<1>2. ASSUME NEW a, Latest(a, B) PROVE Latest(a, A)
  BY <1>1, <1>2 DEF Latest, Keeps
<1>3. ASSUME BFrames >= 1, NEW a, NEW b, LatestTwo(a, b, B) PROVE LatestTwo(a, b, A)
  BY <1>1, <1>3 DEF LatestTwo, Keeps
<1>4. k # "B" => \A g \in A : poc[g] < poc[f]
  BY <1>1 DEF Fits
<1>5. k = "P" => \E a \in A : Latest(a, A) /\ poc[f] - poc[a] <= BFrames + 1
  BY <1>2 DEF Fits, Latest
<1>6. ASSUME k = "B"
      PROVE  \E a, b \in A : /\ LatestTwo(a, b, A) /\ poc[b] - poc[a] <= BFrames + 1
                             /\ poc[a] < poc[f] /\ poc[f] < poc[b]
  <2>1. PICK a \in B, b \in B : /\ LatestTwo(a, b, B) /\ poc[b] - poc[a] <= BFrames + 1
                                /\ poc[a] < poc[f] /\ poc[f] < poc[b]
    BY <1>6 DEF Fits
  <2>2. poc[a] \in Int /\ poc[b] \in Int /\ poc[f] \in Int
    BY <1>1
  <2>3. BFrames >= 1
    BY <2>1, <2>2
  <2>4. LatestTwo(a, b, A) /\ a \in A /\ b \in A
    BY <1>3, <2>1, <2>3 DEF LatestTwo
  <2> QED
    BY <2>1, <2>4
<1> QED
  BY <1>4, <1>5, <1>6 DEF Fits

LEMMA AnchorsMade ==
    ASSUME NEW q \in Seq(Made \X Kinds), Made \subseteq Frames, NEW n \in 0 .. Len(q)
    PROVE  AnchorsOf(q, n) \in SUBSET Frames
<1>1. \A i \in 1 .. n : i \in 1 .. Len(q)
  OBVIOUS
<1>2. \A i \in 1 .. Len(q) : q[i][1] \in Frames
  OBVIOUS
<1> QED
  BY <1>1, <1>2 DEF AnchorsOf

LEMMA InLineLess ==
    ASSUME poc \in [Frames -> Int], BFrames \in Nat, Made \subseteq Frames,
           NEW q \in Seq(Made \X Kinds), NEW A, NEW B \in SUBSET Frames, Keeps(A, B), InLine(q, B)
    PROVE  InLine(q, A)
<1> SUFFICES ASSUME NEW i \in 1 .. Len(q)
             PROVE  Fits(q[i][1], q[i][2], A \cup AnchorsOf(q, i - 1))
  BY DEF InLine
<1>1. i - 1 \in 0 .. Len(q) /\ q[i][1] \in Frames
  <2>1. Len(q) \in Nat
    OBVIOUS
  <2> QED
    BY <2>1
<1>2. AnchorsOf(q, i - 1) \in SUBSET Frames
  BY <1>1, AnchorsMade
<1>3. Keeps(A \cup AnchorsOf(q, i - 1), B \cup AnchorsOf(q, i - 1))
  BY <1>2, KeepsMore
<1>4. Fits(q[i][1], q[i][2], B \cup AnchorsOf(q, i - 1))
  BY DEF InLine
<1>5. B \cup AnchorsOf(q, i - 1) \in SUBSET Frames
  BY <1>2
<1> QED
  BY <1>1, <1>3, <1>4, <1>5, FitsLess

\* The pictures of a queue with one more in front.
LEMMA AnchorsCons ==
    ASSUME NEW T, NEW q \in Seq(T), NEW x \in T
    PROVE  /\ <<x>> \o q \in Seq(T) /\ Len(<<x>> \o q) = Len(q) + 1 /\ (<<x>> \o q)[1] = x
           /\ \A i \in 1 .. Len(q) : (<<x>> \o q)[i + 1] = q[i]
           /\ \A n \in 0 .. Len(q) : AnchorsOf(<<x>> \o q, n + 1)
                 = (IF x[2] = "B" THEN {} ELSE {x[1]}) \cup AnchorsOf(q, n)
<1>r. PICK r : r = <<x>> \o q
  OBVIOUS
<1>n. PICK m \in Nat : m = Len(q)
  OBVIOUS
<1>1. /\ r \in Seq(T) /\ Len(r) = m + 1 /\ r[1] = x
      /\ \A i \in 1 .. m : r[i + 1] = q[i]
  <2>v. PICK v : v = <<x>>
    OBVIOUS
  <2>1. v \in Seq(T) /\ Len(v) = 1 /\ v[1] = x
    BY <2>v
  <2>2. /\ v \o q \in Seq(T) /\ Len(v \o q) = 1 + m
        /\ \A i \in 1 .. 1 + m : (v \o q)[i] = IF i <= 1 THEN v[i] ELSE q[i - 1]
    <3>1. /\ v \o q \in Seq(T) /\ Len(v \o q) = Len(v) + Len(q)
          /\ \A i \in 1 .. Len(v) + Len(q) :
                (v \o q)[i] = IF i <= Len(v) THEN v[i] ELSE q[i - Len(v)]
      BY <2>1, ConcatProperties
    <3> QED
      BY <1>n, <2>1, <3>1, Zenon
  <2>3. r = v \o q
    BY <1>r, <2>v
  <2>4. /\ 1 \in 1 .. 1 + m /\ 1 + m = m + 1
        /\ \A i \in 1 .. m : i + 1 \in 1 .. 1 + m /\ ~(i + 1 <= 1) /\ (i + 1) - 1 = i
    OBVIOUS
  <2>5. r[1] = x
    BY <2>1, <2>2, <2>3, <2>4
  <2>6. ASSUME NEW i \in 1 .. m PROVE r[i + 1] = q[i]
    BY <2>2, <2>3, <2>4
  <2> QED
    BY <2>2, <2>3, <2>4, <2>5, <2>6
<1>2. ASSUME NEW n \in 0 .. m
      PROVE  AnchorsOf(r, n + 1) = (IF x[2] = "B" THEN {} ELSE {x[1]}) \cup AnchorsOf(q, n)
  <2>1. \A i \in 1 .. n + 1 : i = 1 \/ (i - 1 \in 1 .. n /\ (i - 1) + 1 = i)
    OBVIOUS
  <2>2. \A i \in 1 .. n : i + 1 \in 1 .. n + 1 /\ r[i + 1] = q[i]
    BY <1>1
  <2>3. 1 \in 1 .. n + 1
    OBVIOUS
  <2>4. AnchorsOf(r, n + 1) \subseteq (IF x[2] = "B" THEN {} ELSE {x[1]}) \cup AnchorsOf(q, n)
    <3> SUFFICES ASSUME NEW i \in 1 .. n + 1, r[i][2] # "B"
                 PROVE  r[i][1] \in (IF x[2] = "B" THEN {} ELSE {x[1]}) \cup AnchorsOf(q, n)
      BY DEF AnchorsOf
    <3>1. CASE i = 1
      BY <1>1, <3>1
    <3>2. CASE i # 1
      <4>1. i - 1 \in 1 .. n /\ r[i] = q[i - 1]
        BY <2>1, <2>2, <3>2
      <4> QED
        BY <4>1 DEF AnchorsOf
    <3> QED
      BY <3>1, <3>2
  <2>5. AnchorsOf(q, n) \subseteq AnchorsOf(r, n + 1)
    BY <2>2 DEF AnchorsOf
  <2>6. (IF x[2] = "B" THEN {} ELSE {x[1]}) \subseteq AnchorsOf(r, n + 1)
    BY <1>1, <2>3 DEF AnchorsOf
  <2> QED
    BY <2>4, <2>5, <2>6
<1> QED
  BY <1>r, <1>n, <1>1, <1>2

-----------------------------------------------------------------------------
(* The references of a picture *)

\* Of a list with the latest picture first, a beginning keeps the latest.
LEMMA BeginningKeeps ==
    ASSUME poc \in [Frames -> Int], Made \subseteq Frames, NEW l \in Seq(Made),
           \A i, j \in 1 .. Len(l) : i < j => poc[l[i]] > poc[l[j]],
           NEW n \in Int, n >= 1, BFrames >= 1 => n >= 2
    PROVE  Keeps(Range(SubSeq(l, 1, Min({Len(l), n}))), Range(l))
<1>m. PICK m \in Nat : m = Len(l)
  OBVIOUS
<1>u. PICK u \in Int : u = Min({m, n}) /\ u \in {m, n} /\ u <= m
  <2>1. m \in Int
    OBVIOUS
  <2>2. Min({m, n}) \in {m, n} /\ Min({m, n}) <= m
    BY <2>1, MinMaxFacts
  <2> QED
    BY <2>2
<1>s. PICK s : s = SubSeq(l, 1, u)
  OBVIOUS
<1>1. /\ DOMAIN l = 1 .. m /\ \A i \in 1 .. m : l[i] \in Frames
      /\ \A i, j \in 1 .. m : i < j => poc[l[i]] > poc[l[j]]
  BY <1>m
<1>2. DOMAIN s = 1 .. u /\ \A i \in 1 .. u : i \in 1 .. m /\ s[i] = l[i]
  <2>1. \A i \in 1 .. u : i \in 1 .. m
    BY <1>u
  <2>2. \A i \in 1 .. u : l[i] \in Made
    BY <1>m, <2>1
  <2>o. 1 \in Int
    OBVIOUS
  <2>3. /\ s \in Seq(Made) /\ Len(s) = IF 1 <= u THEN u - 1 + 1 ELSE 0
        /\ \A i \in 1 .. u - 1 + 1 : s[i] = l[1 + i - 1]
    <3>1. u \in Int
      OBVIOUS
    <3>2. /\ SubSeq(l, 1, u) \in Seq(Made)
          /\ Len(SubSeq(l, 1, u)) = IF 1 <= u THEN u - 1 + 1 ELSE 0
          /\ \A i \in 1 .. u - 1 + 1 : SubSeq(l, 1, u)[i] = l[1 + i - 1]
      BY <2>2, <3>1, SubSeqProperties
    <3> QED
      BY <1>s, <3>2, Zenon
  <2>4. u - 1 + 1 = u /\ \A i \in 1 .. u : 1 + i - 1 = i
    OBVIOUS
  <2>5. Len(s) = IF 1 <= u THEN u ELSE 0
    BY <2>3, <2>4
  <2>6. DOMAIN s = 1 .. u
    BY <1>m, <1>u, <2>3, <2>5
  <2> QED
    BY <2>1, <2>3, <2>4, <2>6
<1>3. Range(s) \subseteq Range(l)
  BY <1>1, <1>2 DEF Range
<1>4. ASSUME NEW a, Latest(a, Range(l)) PROVE a \in Range(s)
  <2>1. PICK i \in 1 .. m : a = l[i]
    BY <1>1, <1>4 DEF Latest, Range
  <2>2. 1 \in 1 .. m /\ l[1] \in Range(l)
    BY <1>1 DEF Range
  <2>3. i = 1
    <3> SUFFICES ASSUME 1 < i PROVE FALSE
      OBVIOUS
    <3>1. poc[l[1]] > poc[l[i]] /\ poc[l[1]] \in Int /\ poc[l[i]] \in Int
      BY <1>1, <2>2
    <3>2. l[1] = a \/ poc[l[1]] < poc[a]
      BY <1>4, <2>2 DEF Latest
    <3> QED
      BY <2>1, <3>1, <3>2
  <2>4. 1 \in 1 .. u
    BY <1>u, <2>2
  <2> QED
    BY <1>2, <2>1, <2>3, <2>4 DEF Range
<1>5. ASSUME BFrames >= 1, NEW a, NEW b, LatestTwo(a, b, Range(l))
      PROVE  a \in Range(s) /\ b \in Range(s)
  <2>1. PICK i \in 1 .. m : a = l[i]
    BY <1>1, <1>5 DEF LatestTwo, Range
  <2>2. PICK j \in 1 .. m : b = l[j]
    BY <1>1, <1>5 DEF LatestTwo, Range
  <2>3. poc[a] < poc[b] /\ \A g \in Range(l) : g \in {a, b} \/ poc[g] < poc[a]
    BY <1>5 DEF LatestTwo
  <2>4. \A h \in 1 .. m : l[h] \in {a, b} \/ poc[l[h]] < poc[a]
    BY <1>1, <2>3 DEF Range
  <2>5. \A h \in 1 .. m : poc[l[h]] \in Int
    BY <1>1
  <2>6. j = 1
    <3> SUFFICES ASSUME 1 < j PROVE FALSE
      OBVIOUS
    <3>1. 1 \in 1 .. m
      OBVIOUS
    <3>2. poc[l[1]] > poc[b]
      BY <1>1, <2>2, <3>1
    <3> QED
      BY <2>1, <2>2, <2>3, <2>4, <2>5, <3>1, <3>2
  <2>7. i = 2
    <3>1. i # 1
      BY <2>1, <2>2, <2>3, <2>5, <2>6
    <3> SUFFICES ASSUME 2 < i PROVE FALSE
      BY <3>1
    <3>2. 1 \in 1 .. m /\ 2 \in 1 .. m
      OBVIOUS
    <3>3. poc[l[2]] > poc[a] /\ poc[b] > poc[l[2]]
      BY <1>1, <2>1, <2>2, <2>6, <3>2
    <3>4. l[2] # a /\ l[2] # b /\ poc[l[2]] \in Int /\ poc[a] \in Int
      BY <2>1, <2>2, <2>5, <3>2, <3>3
    <3>5. poc[l[2]] < poc[a]
      BY <2>4, <3>2, <3>4
    <3> QED
      BY <3>3, <3>4, <3>5
  <2>8. 1 \in 1 .. u /\ 2 \in 1 .. u
    BY <1>5, <1>u, <2>7
  <2> QED
    BY <1>2, <2>1, <2>2, <2>6, <2>7, <2>8 DEF Range
<1>6. Keeps(Range(s), Range(l))
  BY <1>3, <1>4, <1>5 DEF Keeps
<1> QED
  BY <1>6, <1>m, <1>s, <1>u

\* The DPB has room for one reference, and for two if there are B pictures.
LEMMA MaxDecBounds ==
    ASSUME ListInv
    PROVE  MaxDec - 1 \in Int /\ MaxDec - 1 >= 1 /\ (BFrames >= 1 => MaxDec - 1 >= 2)
<1>1. BFrames \in Nat /\ MaxRef \in Nat \ {0}
  BY ParamsAssumption, ThreadsAssumption DEF ListInv, ListTypes, BFrames
<1>b. PICK b \in Int : b = BFrames
  BY <1>1
<1>2. PICK r \in Int : r = NumReorder /\ r >= 0 /\ (b >= 1 => r = 1)
  <2>1. Min({b, 1}) \in {b, 1} /\ Min({b, 1}) <= b /\ Min({b, 1}) <= 1
    BY MinMaxFacts
  <2>2. Min({b, 1}) \in Int /\ Min({b, 1}) >= 0 /\ (b >= 1 => Min({b, 1}) = 1)
    BY <1>1, <1>b, <2>1
  <2> QED
    BY <1>b, <2>2 DEF NumReorder
<1>a. PICK a \in Int : a = r + 2
  OBVIOUS
<1>m. PICK m \in Int : m = MaxRef
  BY <1>1
<1>3. PICK x \in Int : x = Max({r + 2, MaxRef}) /\ x >= r + 2
  <2>1. Max({a, m}) \in {a, m} /\ Max({a, m}) >= a
    BY MinMaxFacts
  <2> QED
    BY <1>a, <1>m, <2>1
<1>y. PICK y \in Int : y = x + r
  OBVIOUS
<1>4. PICK z \in Int : z = Min({16, x + r}) /\ z \in {16, x + r}
  <2>1. 16 \in Int /\ Min({16, y}) \in {16, y}
    BY MinMaxFacts
  <2> QED
    BY <1>y, <2>1
<1>5. MaxDec = z
  BY <1>2, <1>3, <1>4 DEF MaxDec
<1> QED
  BY <1>2, <1>3, <1>4, <1>5, <1>b

\* The reference picture set keeps the latest of the pictures that are marked.
LEMMA RPSKeeps ==
    ASSUME ListInv, Sorted, NEW f \in Frames \ Present, NEW k
    PROVE  Keeps(RPS(f, k), {g \in Present : Marked(f, k)[g]})
<1>1. poc \in [Frames -> Int] /\ Made \subseteq Frames /\ picList \in Seq(Made) /\ Present \subseteq Made
  BY AllMade DEF ListInv, ListTypes
<1>S. PICK S : S = {g \in Frames : Marked(f, k)[g]}
  OBVIOUS
<1>p. PICK p \in Seq(Made) : p = picList
  BY <1>1
<1>R. PICK R : R = {r \in Frames \X Frames : poc[r[1]] > poc[r[2]]}
  OBVIOUS
<1>2. \A g \in Present : g \in S => hasRef[g]
  BY <1>S DEF Marked
<1>3. \A i, j \in 1 .. Len(p) : i < j /\ p[i] \in S /\ p[j] \in S => <<p[i], p[j]>> \in R
  <2> SUFFICES ASSUME NEW i \in 1 .. Len(p), NEW j \in 1 .. Len(p), i < j, p[i] \in S, p[j] \in S
               PROVE  <<p[i], p[j]>> \in R
    OBVIOUS
  <2>1. p[i] \in Present /\ p[j] \in Present
    BY <1>p DEF Present, Range
  <2>2. poc[p[i]] > poc[p[j]]
    BY <1>2, <1>p, <2>1 DEF Sorted
  <2> QED
    BY <1>1, <1>R, <2>1, <2>2
<1>a. PICK all \in Seq(Made) : all = Select(p, S) /\ Range(all) = Range(p) \cap S
  BY SelectFacts
<1>4. \A i, j \in 1 .. Len(all) : i < j => poc[all[i]] > poc[all[j]]
  <2>1. \A i, j \in 1 .. Len(all) : i < j => <<all[i], all[j]>> \in R
    BY <1>3, <1>a, SelectSorted
  <2> QED
    BY <1>R, <2>1
<1>n. PICK n \in Int : n = MaxDec - 1 /\ n >= 1 /\ (BFrames >= 1 => n >= 2)
  BY MaxDecBounds
<1>5. Keeps(Range(SubSeq(all, 1, Min({Len(all), n}))), Range(all))
  BY <1>1, <1>4, <1>n, BeginningKeeps
<1>6. RPS(f, k) = Range(SubSeq(all, 1, Min({Len(all), n})))
  BY <1>S, <1>a, <1>n, <1>p DEF RPS
<1>7. Range(all) = {g \in Present : Marked(f, k)[g]}
  BY <1>1, <1>S, <1>a, <1>p DEF Present
<1> QED
  BY <1>5, <1>6, <1>7

-----------------------------------------------------------------------------
(* prepareEncode() *)

\* The pictures that are marked afterwards, and what the picture itself adds.
NewMarks(f, k) == {g \in Frames : Marked(f, k)[g] /\ (g = f \/ g \in RPS(f, k))}
Own(f, k)      == IF k = "B" THEN {} ELSE {f}

\* The state in which a picture that fits is given to a frame encoder.
Prepared(f, k) ==
    /\ ListInv /\ Scalars /\ Sorted /\ CraTop /\ Marks \subseteq Present
    /\ f \in Made /\ f \notin Present /\ k \in Kinds /\ Fits(f, k, Marks)

\* A refresh, and the limit of the reference picture set, keep what others need.
LEMMA StartKeeps ==
    ASSUME NEW f, NEW k, Prepared(f, k)
    PROVE  /\ NewMarks(f, k) = RPS(f, k) \cup Own(f, k) /\ RPS(f, k) \subseteq Marks
           /\ Keeps(NewMarks(f, k), Marks \cup Own(f, k))
           /\ \A a : Latest(a, Marks) => a \in RPS(f, k)
           /\ k = "B" => \A a, b : LatestTwo(a, b, Marks) => {a, b} \subseteq RPS(f, k)
<1>1. /\ poc \in [Frames -> Int] /\ Made \subseteq Frames /\ Present \subseteq Frames /\ f \in Frames
      /\ Marks \subseteq Present /\ f \notin Present /\ cra \in Int /\ BFrames \in Nat
  <2>1. cra \in Int /\ BFrames \in Nat
    BY PicsAssumption, ParamsAssumption DEF Prepared, Scalars, ListInv, ListTypes, BFrames
  <2> QED
    BY <2>1, AllMade DEF Prepared, ListInv, ListTypes
<1>d. PICK D : D = {g \in Present : Marked(f, k)[g]}
  OBVIOUS
<1>2. Keeps(RPS(f, k), D)
  BY <1>1, <1>d, RPSKeeps DEF Prepared
<1>3. D = IF Refresh(f) THEN {g \in Marks : poc[g] = cra} ELSE Marks
  BY <1>1, <1>d DEF Marked, Marks
<1>4. RPS(f, k) \subseteq D /\ D \subseteq Marks
  BY <1>2, <1>3 DEF Keeps
<1>5. ASSUME Refresh(f)
      PROVE  \E g \in Marks : Latest(g, Marks) /\ poc[g] = cra /\ poc[g] < poc[f]
  BY <1>5 DEF Refresh, Prepared, CraTop
<1>6. k = "B" => ~Refresh(f) /\ BFrames >= 1
  <2> SUFFICES ASSUME k = "B" PROVE ~Refresh(f) /\ BFrames >= 1
    OBVIOUS
  <2>1. PICK a \in Marks, b \in Marks : /\ LatestTwo(a, b, Marks) /\ poc[b] - poc[a] <= BFrames + 1
                                        /\ poc[a] < poc[f] /\ poc[f] < poc[b]
    BY DEF Prepared, Fits, LatestTwo
  <2>2. poc[a] \in Int /\ poc[b] \in Int /\ poc[f] \in Int
    BY <1>1
  <2>3. BFrames >= 1
    BY <1>1, <2>1, <2>2
  <2>4. ASSUME Refresh(f) PROVE FALSE
    <3>1. PICK g \in Marks : Latest(g, Marks) /\ poc[g] < poc[f]
      BY <1>5, <2>4
    <3>2. b = g \/ poc[b] < poc[g]
      BY <3>1 DEF Latest
    <3>3. poc[g] \in Int
      BY <1>1
    <3> QED
      BY <2>1, <2>2, <3>1, <3>2, <3>3
  <2> QED
    BY <2>3, <2>4
<1>7. NewMarks(f, k) = RPS(f, k) \cup Own(f, k)
  BY <1>1, <1>4, <1>d DEF NewMarks, Own, Marked
<1>8. ASSUME NEW a, Latest(a, Marks) PROVE a \in RPS(f, k)
  <2>1. a \in D
    <3>1. CASE Refresh(f)
      <4>1. PICK g \in Marks : Latest(g, Marks) /\ poc[g] = cra
        BY <1>5, <3>1
      <4>2. a = g
        <5>1. poc[a] \in Int /\ poc[g] \in Int
          BY <1>1, <1>8 DEF Latest
        <5>2. (a = g \/ poc[a] < poc[g]) /\ (g = a \/ poc[g] < poc[a])
          BY <1>8, <4>1 DEF Latest
        <5> QED
          BY <5>1, <5>2
      <4> QED
        BY <1>3, <3>1, <4>1, <4>2
    <3>2. CASE ~Refresh(f)
      BY <1>3, <1>8, <3>2 DEF Latest
    <3> QED
      BY <3>1, <3>2
  <2>2. Latest(a, D)
    BY <1>4, <1>8, <2>1 DEF Latest
  <2> QED
    BY <1>2, <2>2 DEF Keeps
<1>9. ASSUME k = "B", NEW a, NEW b, LatestTwo(a, b, Marks) PROVE {a, b} \subseteq RPS(f, k)
  BY <1>2, <1>3, <1>6, <1>9 DEF Keeps
<1>10. Keeps(NewMarks(f, k), Marks \cup Own(f, k))
  <2>1. CASE ~Refresh(f)
    <3>1. Keeps(RPS(f, k), Marks)
      BY <1>2, <1>3, <2>1
    <3>2. Marks \in SUBSET Frames /\ Own(f, k) \in SUBSET Frames
      BY <1>1 DEF Own, Marks
    <3> QED
      BY <1>1, <1>7, <3>1, <3>2, KeepsMore
  <2>2. CASE Refresh(f)
    <3>1. k # "B" /\ Own(f, k) = {f}
      BY <1>6, <2>2 DEF Own
    <3>2. /\ NewMarks(f, k) = RPS(f, k) \cup {f} /\ NewMarks(f, k) \subseteq Marks \cup {f}
          /\ f \notin Marks /\ \A g \in Marks : poc[g] < poc[f] /\ poc[g] \in Int
          /\ poc[f] \in Int
      BY <1>1, <1>4, <1>7, <3>1 DEF Prepared, Fits
    <3>3. ASSUME NEW a, Latest(a, Marks \cup {f}) PROVE a = f
      <4>1. a \in Marks \cup {f} /\ (f = a \/ poc[f] < poc[a])
        BY <3>3 DEF Latest
      <4> QED
        BY <3>2, <4>1
    <3>4. ASSUME NEW a, NEW b, LatestTwo(a, b, Marks \cup {f})
          PROVE  a \in NewMarks(f, k) /\ b \in NewMarks(f, k)
      <4>1. /\ a \in Marks \cup {f} /\ b \in Marks \cup {f} /\ poc[a] < poc[b]
            /\ \A g \in Marks \cup {f} : g \in {a, b} \/ poc[g] < poc[a]
        BY <3>4 DEF LatestTwo
      <4>2. a # f
        BY <3>2, <4>1
      <4>3. b = f
        <5> SUFFICES ASSUME b # f PROVE FALSE
          OBVIOUS
        <5>1. poc[f] < poc[a]
          BY <4>1, <4>2
        <5> QED
          BY <3>2, <4>1, <4>2, <5>1
      <4>4. Latest(a, Marks)
        BY <3>2, <4>1, <4>2, <4>3 DEF Latest
      <4>5. a \in RPS(f, k)
        BY <1>8, <4>4
      <4> QED
        BY <3>2, <4>3, <4>5
    <3> QED
      BY <3>1, <3>2, <3>3, <3>4 DEF Keeps
  <2> QED
    BY <2>1, <2>2
<1> QED
  BY <1>4, <1>7, <1>8, <1>9, <1>10

\* A picture than which none is nearer is one of the nearest.
LEMMA NearestHas ==
    ASSUME poc \in [Frames -> Int], NEW S \in SUBSET Frames, NEW f \in Frames, NEW n \in Nat \ {0},
           NEW a \in S,
           \/ poc[a] <= poc[f] /\ \A h \in S : poc[h] <= poc[a]
           \/ poc[f] <= poc[a] /\ \A h \in S : poc[a] <= poc[h]
    PROVE  a \in Nearest(S, f, n)
<1> DEFINE Dist(g) == Max({poc[g] - poc[f], poc[f] - poc[g]})
<1>1. ASSUME NEW h \in S PROVE ~(Dist(h) < Dist(a))
  <2>p. PICK p \in Int : p = poc[f]
    OBVIOUS
  <2>x. PICK x \in Int : x = poc[a]
    OBVIOUS
  <2>y. PICK y \in Int : y = poc[h]
    OBVIOUS
  <2>1. PICK u \in Int, v \in Int : u = x - p /\ v = p - x
    OBVIOUS
  <2>2. PICK w \in Int, z \in Int : w = y - p /\ z = p - y
    OBVIOUS
  <2>3. Max({u, v}) \in {u, v} /\ Max({w, z}) >= w /\ Max({w, z}) >= z /\ Max({w, z}) \in {w, z}
    BY MinMaxFacts
  <2>4. Dist(a) = Max({u, v}) /\ Dist(h) = Max({w, z})
    BY <2>p, <2>x, <2>y, <2>1, <2>2
  <2>5. \/ x <= p /\ y <= x
        \/ p <= x /\ x <= y
    BY <2>p, <2>x, <2>y
  <2>6. u <= Max({w, z}) /\ v <= Max({w, z})
    BY <2>1, <2>2, <2>3, <2>5
  <2>7. Max({w, z}) \in Int /\ Max({u, v}) \in Int /\ Max({u, v}) <= Max({w, z})
    BY <2>3, <2>6
  <2> HIDE DEF Dist
  <2> QED
    BY <2>4, <2>7
<1> HIDE DEF Dist
<1>2. {h \in S : Dist(h) < Dist(a)} = {}
  BY <1>1
<1>3. Cardinality({h \in S : Dist(h) < Dist(a)}) = 0
  BY <1>2, FS_EmptySet
<1>4. Cardinality({h \in S : Dist(h) < Dist(a)}) < n
  BY <1>3
<1> QED
  BY <1>4 DEF Nearest, Dist

\* A picture that fits gets the references that it needs.
LEMMA StartRight ==
    ASSUME NEW f, NEW k, Prepared(f, k)
    PROVE  /\ k = "P" => \E g \in RefPics(f, k) :
                 poc[g] < poc[f] /\ poc[f] - poc[g] <= BFrames + 1
           /\ k = "B" => \E g, h \in RefPics(f, k) :
                 poc[g] < poc[f] /\ poc[f] < poc[h] /\ poc[h] - poc[g] <= BFrames + 1
<1>1. poc \in [Frames -> Int] /\ f \in Frames /\ Marks \in SUBSET Frames /\ MaxRef \in Nat \ {0}
  BY AllMade, ThreadsAssumption DEF Prepared, ListInv, ListTypes, Marks
<1>2. /\ RPS(f, k) \subseteq Marks
      /\ \A a : Latest(a, Marks) => a \in RPS(f, k)
      /\ k = "B" => \A a, b : LatestTwo(a, b, Marks) => {a, b} \subseteq RPS(f, k)
  BY StartKeeps
<1> DEFINE before == {g \in RPS(f, k) : poc[g] < poc[f]}
           after  == {g \in RPS(f, k) : poc[g] > poc[f]}
<1>3. before \in SUBSET Frames /\ after \in SUBSET Frames
  BY <1>1, <1>2
<1>4. \A g \in Marks : poc[g] \in Int
  BY <1>1
<1>p. poc[f] \in Int
  BY <1>1
<1>5. CASE k = "P"
  <2>1. PICK a \in Marks : Latest(a, Marks) /\ poc[f] - poc[a] <= BFrames + 1 /\ poc[a] < poc[f]
    BY <1>5 DEF Prepared, Fits
  <2>2. a \in before /\ poc[a] <= poc[f]
    BY <1>2, <1>4, <1>p, <2>1
  <2>3. \A h \in before : poc[h] <= poc[a]
    <3> SUFFICES ASSUME NEW h \in before PROVE poc[h] <= poc[a]
      OBVIOUS
    <3>1. h \in Marks /\ (h = a \/ poc[h] < poc[a])
      BY <1>2, <2>1 DEF Latest
    <3> QED
      BY <1>4, <3>1
  <2> HIDE DEF before
  <2>4. a \in Nearest(before, f, MaxRef)
    BY <1>1, <1>3, <2>2, <2>3, NearestHas
  <2>5. RefPics(f, k) = Nearest(before, f, MaxRef)
    BY <1>5 DEF RefPics, before
  <2> QED
    BY <1>5, <2>1, <2>4, <2>5
<1>6. CASE k = "B"
  <2>1. PICK a \in Marks, b \in Marks : /\ LatestTwo(a, b, Marks) /\ poc[b] - poc[a] <= BFrames + 1
                                        /\ poc[a] < poc[f] /\ poc[f] < poc[b]
    BY <1>6 DEF Prepared, Fits, LatestTwo
  <2>i. poc[a] \in Int /\ poc[b] \in Int
    BY <1>4
  <2>2. a \in before /\ b \in after /\ poc[a] <= poc[f] /\ poc[f] <= poc[b]
    BY <1>2, <1>6, <1>p, <2>i, <2>1
  <2>3. \A h \in before : poc[h] <= poc[a]
    <3> SUFFICES ASSUME NEW h \in before PROVE poc[h] <= poc[a]
      OBVIOUS
    <3>1. h \in Marks /\ (h \in {a, b} \/ poc[h] < poc[a]) /\ poc[h] < poc[f]
      BY <1>2, <2>1 DEF LatestTwo
    <3> QED
      BY <1>4, <1>p, <2>i, <2>1, <3>1
  <2>4. \A h \in after : poc[b] <= poc[h]
    <3> SUFFICES ASSUME NEW h \in after PROVE poc[b] <= poc[h]
      OBVIOUS
    <3>1. h \in Marks /\ (h \in {a, b} \/ poc[h] < poc[a]) /\ poc[h] > poc[f]
      BY <1>2, <2>1 DEF LatestTwo
    <3> QED
      BY <1>4, <1>p, <2>i, <2>1, <3>1
  <2> HIDE DEF before, after
  <2>5. a \in Nearest(before, f, MaxRef)
    BY <1>1, <1>3, <2>2, <2>3, NearestHas
  <2>6. b \in Nearest(after, f, 1)
    <3>1. 1 \in Nat \ {0}
      OBVIOUS
    <3> QED
      BY <1>1, <1>3, <2>2, <2>4, <3>1, NearestHas
  <2>7. RefPics(f, k) = Nearest(before, f, MaxRef) \cup Nearest(after, f, 1)
    BY <1>6 DEF RefPics, before, after
  <2> QED
    BY <1>6, <2>1, <2>5, <2>6, <2>7
<1> QED
  BY <1>5, <1>6

-----------------------------------------------------------------------------
(* Steps that do not touch the order *)

\* Where a picture waits to be encoded, or rate control to be started.
Needs(e) == frame[e] # 0 /\ (enable[e] > 0 \/ fe[e] \in {"rcStart", "row"})

LEMMA RightsKept ==
    ASSUME Rights, UNCHANGED param,
           \A e \in FEs : Needs(e)' => /\ Needs(e) /\ frame'[e] = frame[e] /\ kind'[e] = kind[e]
                                       /\ refs'[e] = refs[e] /\ poc'[frame[e]] = poc[frame[e]]
    PROVE  Rights'
BY DEF Rights, Right, Needs, BFrames

\* What the line, the tip and the marks depend on.
ordering == <<param, poc, input, output, gop, inHand, lastKey, hasRef, picList, cra, pending>>

LEMMA OrderSame ==
    ASSUME OrderInv, UNCHANGED <<param, poc, input, lastKey, hasRef, picList, cra, pending>>,
           Line' = Line, Rights'
    PROVE  OrderInv'
<1>1. Marks' = Marks /\ Present' = Present /\ NextPoc' = NextPoc
  BY DEF Marks, Present, NextPoc
<1>2. InLine(Line, Marks)'
  BY <1>1 DEF OrderInv, InLine, Fits, Latest, LatestTwo, AnchorsOf, BFrames
<1>3. First' = First /\ Known' = Known
  BY <1>1 DEF First, Known, AnchorsOf
<1>4. Consecutive' /\ Tip'
  BY <1>3 DEF OrderInv, Consecutive, Tip, Latest
<1>5. Sorted' /\ CraTop'
  BY <1>1 DEF OrderInv, Sorted, CraTop, Latest
<1> QED
  BY <1>1, <1>2, <1>4, <1>5 DEF OrderInv

LEMMA OrderUntouched == ASSUME OrderInv, UNCHANGED ordering, Rights' PROVE OrderInv'
<1>1. Line' = Line
  BY DEF ordering, Line, Group
<1> QED
  BY <1>1, OrderSame DEF ordering

LEMMA OrderInit == Init => OrderInv
<1> SUFFICES ASSUME Init PROVE OrderInv
  OBVIOUS
<1>1. /\ input = <<>> /\ output = <<>> /\ inHand = <<>> /\ picList = <<>> /\ lastKey = -KeyInt
      /\ gop = [t \in Deciders |-> <<>>] /\ frame = [e \in FEs |-> 0] /\ ~pending
      /\ poc = [f \in Frames |-> -1] /\ hasRef = [f \in Frames |-> FALSE]
  BY DEF Init, LookaheadInit, PipeInit
<1>2. NextPoc = 0
  <2>1. 1 \in Frames
    BY PicsAssumption DEF Frames
  <2>2. Range(poc) = {-1}
    BY <1>1, <2>1 DEF Range
  <2>3. Max({-1}) = -1
    BY DEF Max
  <2> QED
    BY <2>2, <2>3 DEF NextPoc
<1>3. Marks = {} /\ Group = <<>>
  BY <1>1 DEF Marks, Group
<1>4. Line = <<>> /\ Len(Line) = 0
  <2>1. <<>> \in Seq(Frames)
    OBVIOUS
  <2>2. <<>> \o <<>> = <<>>
    BY <2>1, ConcatEmptySeq
  <2>3. Line = <<>> \o (<<>> \o <<>>)
    BY <1>1, <1>3 DEF Line
  <2> QED
    BY <2>2, <2>3
<1>5. Known = {} /\ First = 0
  <2>1. 1 .. Len(Line) = {}
    BY <1>4
  <2>2. AnchorsOf(Line, Len(Line)) = {}
    BY <2>1 DEF AnchorsOf
  <2>3. Len(input) = 0
    BY <1>1
  <2> QED
    BY <1>2, <1>3, <2>2, <2>3 DEF Known, First
<1>6. InLine(Line, Marks) /\ Consecutive /\ Sorted
  BY <1>1, <1>4 DEF InLine, Consecutive, Sorted
<1>7. Tip /\ CraTop /\ Rights /\ Marks \subseteq Present
  BY <1>1, <1>3, <1>5 DEF Tip, CraTop, Rights
<1> QED
  BY <1>6, <1>7 DEF OrderInv

\* A frame encoder that has started a picture in rate control keeps what it has.
LEMMA OrderEncoder ==
    ASSUME CountInv, OrderInv, UNCHANGED param, NEW e \in FEs, EncoderStep(e)
    PROVE  OrderInv'
<1>1. UNCHANGED ordering /\ UNCHANGED <<frame, kind>>
  BY DEF EncoderStep, Enabled, RcStart, EncodeRow, RcEnd, WaitForChange, FinishRc, Release,
         ordering, lookahead, queues, deciding, caller, buffer, lists, marks, picture
<1>2. /\ fe \in [FEs -> Steps] /\ enable \in [FEs -> Nat]
      /\ refs \in [FEs -> SUBSET (Made \X Int)]
  BY DEF CountInv, RateInv, RateTypes, ListInv, ListTypes
<1>3. Needs(e)' => Needs(e) /\ refs'[e] = refs[e]
  <2>1. CASE Enabled(e)
    BY <1>1, <2>1 DEF Enabled, Needs, picture
  <2>2. CASE RcStart(e) \/ EncodeRow(e)
    BY <1>1, <2>2 DEF RcStart, EncodeRow, Needs, picture, events
  <2>3. CASE RcEnd(e) \/ WaitForChange(e) \/ FinishRc(e)
    <3>1. fe'[e] \notin {"rcStart", "row"} /\ UNCHANGED <<enable, refs>>
      <4>1. PICK l \in {"finish", "toWait", "asleep", "rcEnd", "release"} :
               fe' = [fe EXCEPT ![e] = l] \/ fe' = Wake([fe EXCEPT ![e] = l])
        BY <2>3 DEF RcEnd, WaitForChange, FinishRc
      <4>2. [fe EXCEPT ![e] = l][e] = l
        BY <1>2
      <4>3. UNCHANGED <<enable, refs>>
        BY <2>3 DEF RcEnd, WaitForChange, FinishRc, picture, events
      <4> QED
        BY <4>1, <4>2, <4>3 DEF Wake
    <3> QED
      BY <1>1, <3>1 DEF Needs
  <2>4. CASE Release(e)
    <3>1. fe[e] = "release" /\ fe'[e] = "idle" /\ enable' = enable
      BY <1>2, <2>4 DEF Release
    <3>2. ~(enable[e] > 0)
      BY <3>1 DEF CountInv, Threads, Phase, Stopped
    <3> QED
      BY <3>1, <3>2 DEF Needs
  <2> QED
    BY <2>1, <2>2, <2>3, <2>4 DEF EncoderStep
<1>4. ASSUME NEW d \in FEs, d # e PROVE Needs(d)' => Needs(d) /\ refs'[d] = refs[d]
  <2>1. enable'[d] = enable[d] /\ refs'[d] = refs[d]
    BY <1>2, <1>4 DEF EncoderStep, Enabled, RcStart, EncodeRow, RcEnd, WaitForChange, FinishRc,
          Release, events, picture
  <2>2. PICK l \in Steps : \/ fe' = [fe EXCEPT ![e] = l]
                           \/ fe' = Wake([fe EXCEPT ![e] = l])
    BY DEF EncoderStep, Enabled, RcStart, EncodeRow, RcEnd, WaitForChange, FinishRc,
          Release, Steps
  <2>3. [fe EXCEPT ![e] = l][d] = fe[d]
    BY <1>2, <1>4
  <2>4. fe'[d] = fe[d] \/ fe'[d] = "rcEnd"
    BY <2>2, <2>3 DEF Wake
  <2> QED
    BY <1>1, <2>1, <2>4 DEF Needs
<1>5. Rights'
  <2>1. Rights /\ UNCHANGED poc
    BY <1>1 DEF OrderInv, ordering
  <2>2. \A d \in FEs : Needs(d)' => Needs(d) /\ refs'[d] = refs[d]
    BY <1>3, <1>4
  <2> QED
    BY <1>1, <2>1, <2>2, RightsKept
<1> QED
  BY <1>1, <1>5, OrderUntouched

\* The API thread waits, or closes the encoder.
LEMMA OrderCalls ==
    ASSUME CountInv, OrderInv, UNCHANGED param,
           \/ Flush \/ FindJob \/ AwaitOutput \/ NoFrame \/ Terminate \/ StopLookahead \/ Join
           \/ StopFrameEncoder
    PROVE  OrderInv'
<1>1. UNCHANGED ordering /\ UNCHANGED <<kind, refs>>
  BY DEF Flush, FindJob, BeginDecide, AwaitOutput, NoFrame, Terminate, StopLookahead, Join,
         StopFrameEncoder, ordering, lookahead, queues, deciding, buffer, lists, marks, picture
<1>2. frame \in [FEs -> Nat] /\ enable \in [FEs -> Nat] /\ cur \in FEs
  BY DEF CountInv, RateInv, RateTypes, ListInv, ListTypes
<1>3. fe' = fe \/ fe' = Wake(fe)
  BY DEF Flush, FindJob, AwaitOutput, NoFrame, Terminate, StopLookahead, Join, StopFrameEncoder
<1>4. \A e \in FEs : fe'[e] = fe[e] \/ fe'[e] = "rcEnd"
  BY <1>3 DEF Wake
<1>5. \A e \in FEs : /\ frame'[e] \in {frame[e], 0}
                     /\ frame'[e] = frame[e] => enable'[e] = enable[e] \/ frame'[e] = 0
  <2>1. CASE StopFrameEncoder
    <3>1. frame' = [frame EXCEPT ![cur] = 0] /\ enable' = [enable EXCEPT ![cur] = @ + 1]
      BY <2>1 DEF StopFrameEncoder
    <3> QED
      BY <1>2, <3>1
  <2>2. CASE ~StopFrameEncoder
    <3>1. UNCHANGED <<frame, enable>>
      BY <2>2 DEF Flush, FindJob, AwaitOutput, NoFrame, Terminate, StopLookahead, Join, picture, events
    <3> QED
      BY <3>1
  <2> QED
    BY <2>1, <2>2
<1>6. Rights'
  <2>1. Rights /\ UNCHANGED poc
    BY <1>1 DEF OrderInv, ordering
  <2>2. \A e \in FEs : Needs(e)' => Needs(e) /\ frame'[e] = frame[e]
    BY <1>4, <1>5 DEF Needs
  <2> QED
    BY <1>1, <2>1, <2>2, RightsKept
<1> QED
  BY <1>1, <1>6, OrderUntouched

\* A thread begins to decide, locks the output queue, or has put its pictures out.
LEMMA OrderBegins ==
    ASSUME OrderInv, UNCHANGED <<param, pipe>>,
           \E t \in Deciders : BeginDecide(t) \/ LockOutput(t) \/ EndDecide(t)
    PROVE  OrderInv'
<1>1. UNCHANGED ordering /\ UNCHANGED <<frame, kind, refs, enable, fe>>
  BY DEF BeginDecide, LockOutput, EndDecide, ordering, queues, deciding, pipe, caller, buffer,
         lists, marks, picture, events
<1>2. Rights'
  <2>1. Rights /\ UNCHANGED poc
    BY <1>1 DEF OrderInv, ordering
  <2>2. \A e \in FEs : Needs(e)' => Needs(e)
    BY <1>1 DEF Needs
  <2> QED
    BY <1>1, <2>1, <2>2, RightsKept
<1> QED
  BY <1>1, <1>2, OrderUntouched

-----------------------------------------------------------------------------
(* Steps that move pictures along the line *)

\* The pictures that were chosen by the one that decides.
LEMMA GroupIs ==
    ASSUME NEW t \in Deciders, \A u \in Deciders : u # t => gop[u] = <<>>
    PROVE  Group = gop[t]
<1>1. CASE gop[t] = <<>>
  BY <1>1 DEF Group
<1>2. CASE gop[t] # <<>>
  <2>1. (CHOOSE u \in Deciders : gop[u] # <<>>) = t
    BY <1>2
  <2> QED
    BY <1>2, <2>1 DEF Group
<1> QED
  BY <1>1, <1>2

LEMMA LineTypes ==
    ASSUME CountInv
    PROVE  /\ output \in Seq(Typed) /\ Group \in Seq(Typed) /\ gop \in [Deciders -> Seq(Typed)]
           /\ inHand # <<>> => inHand \in Typed
           /\ output \o Group \in Seq(Typed)
           /\ Line \in Seq(Typed)
           /\ Made \subseteq Frames
           /\ \A f : f \in Range(Pics(Line)) => f \in OnTheWay
<1>1. /\ output \in Seq(Typed) /\ gop \in [Deciders -> Seq(Typed)]
      /\ inHand # <<>> => inHand \in Typed
      /\ ListInv
  BY DEF CountInv, RateInv, ListInv, ListTypes
<1>2. PICK u \in Deciders : \A t \in Deciders : t # u => gop[t] = <<>>
  BY DEF CountInv, WaitInv, OneDecides, Grouped, Deciders
<1>3. Group = gop[u] /\ Group \in Seq(Typed)
  BY <1>1, <1>2, GroupIs
<1>4. output \o Group \in Seq(Typed)
  BY <1>1, <1>3, ConcatProperties
<1>h. PICK h : h = IF inHand = <<>> THEN <<>> ELSE <<inHand>>
  OBVIOUS
<1>5. h \in Seq(Typed) /\ \A i \in 1 .. Len(h) : h[i] = inHand /\ inHand # <<>>
  <2>1. CASE inHand = <<>>
    <3>1. h = <<>>
      BY <1>h, <2>1
    <3> QED
      BY <3>1
  <2>2. CASE inHand # <<>>
    <3>1. /\ <<inHand>> \in Seq(Typed) /\ Len(<<inHand>>) = 1
          /\ \A i \in 1 .. 1 : <<inHand>>[i] = inHand
      BY <1>1, <2>2
    <3> QED
      BY <1>h, <2>2, <3>1
  <2> QED
    BY <2>1, <2>2
<1>6. Line = h \o (output \o Group)
  BY <1>h DEF Line
<1>7. h \o (output \o Group) \in Seq(Typed)
  BY <1>4, <1>5, ConcatProperties
<1>8. ASSUME NEW f, f \in Range(Pics(Line)) PROVE f \in OnTheWay
  <2>l. PICK l \in Seq(Typed) : l = Line
    BY <1>6, <1>7
  <2>1. PICK i \in 1 .. Len(l) : f = l[i][1]
    <3>1. DOMAIN Line = 1 .. Len(l)
      BY <2>l
    <3> QED
      BY <1>8, <2>l, <3>1 DEF Range, Pics
  <2>2. l[i] \in Range(h) \cup (Range(output) \cup Range(Group))
    <3>1. Range(h \o (output \o Group)) = Range(h) \cup Range(output \o Group)
      <4>1. PICK x \in Seq(Typed) : x = output \o Group
        BY <1>4
      <4>2. Range(h \o x) = Range(h) \cup Range(x)
        BY <1>5, ConcatFacts
      <4> QED
        BY <4>1, <4>2
    <3>2. Range(output \o Group) = Range(output) \cup Range(Group)
      BY <1>1, <1>3, ConcatFacts
    <3>3. l[i] \in Range(l)
      BY DEF Range
    <3> QED
      BY <1>6, <2>l, <3>1, <3>2, <3>3
  <2>3. CASE l[i] \in Range(h)
    <3>1. l[i] = inHand /\ inHand # <<>>
      BY <1>5, <2>3 DEF Range
    <3> QED
      BY <2>1, <3>1 DEF OnTheWay, Handed
  <2>4. CASE l[i] \in Range(output)
    BY <1>1, <2>1, <2>4 DEF OnTheWay, Decided, Pics, Range
  <2>5. CASE l[i] \in Range(Group)
    <3>1. f \in Chosen(u)
      BY <1>1, <1>3, <2>1, <2>5 DEF Chosen, Pics, Range
    <3> QED
      BY <3>1 DEF OnTheWay
  <2> QED
    BY <2>2, <2>3, <2>4, <2>5
<1> QED
  BY <1>1, <1>3, <1>4, <1>6, <1>7, <1>8, AllMade

\* getDecidedPicture() takes the first picture of the output queue into its hand.
LEMMA PopLine ==
    ASSUME NEW T, NEW s \in Seq(T), s # <<>>, NEW g \in Seq(T)
    PROVE  <<Head(s)>> \o (Tail(s) \o g) = <<>> \o (s \o g)
<1>1. PICK v : v = <<Head(s)>>
  OBVIOUS
<1>2. PICK w \in Seq(T) : w = Tail(s)
  <2>1. Tail(s) \in Seq(T)
    BY HeadTailProperties
  <2> QED
    BY <2>1
<1>3. v \in Seq(T) /\ Len(v) = 1 /\ v[1] = Head(s)
  BY <1>1
<1>4. v \o w = s
  <2>n. PICK n \in Nat : n = Len(s)
    OBVIOUS
  <2>1. /\ n # 0 /\ Len(w) = n - 1 /\ Head(s) = s[1]
        /\ \A i \in 1 .. n - 1 : w[i] = s[i + 1]
    BY <1>2, <2>n
  <2>2. /\ v \o w \in Seq(T) /\ Len(v \o w) = Len(v) + Len(w)
        /\ \A i \in 1 .. Len(v) + Len(w) :
              (v \o w)[i] = IF i <= Len(v) THEN v[i] ELSE w[i - Len(v)]
    BY <1>3, ConcatProperties
  <2>3. /\ v \o w \in Seq(T) /\ Len(v \o w) = 1 + (n - 1)
        /\ \A i \in 1 .. 1 + (n - 1) : (v \o w)[i] = IF i <= 1 THEN v[i] ELSE w[i - 1]
    BY <1>3, <2>1, <2>2, Zenon
  <2>4. PICK r \in Seq(T) : r = v \o w
    BY <2>3
  <2>5. Len(r) = n /\ 1 + (n - 1) = n
    BY <2>3, <2>4
  <2>6. ASSUME NEW i \in 1 .. n PROVE r[i] = s[i]
    <3>1. r[i] = IF i <= 1 THEN v[i] ELSE w[i - 1]
      BY <2>3, <2>4, <2>5
    <3>2. CASE i = 1
      BY <1>3, <2>1, <3>1, <3>2
    <3>3. CASE i # 1
      <4>1. i - 1 \in 1 .. n - 1 /\ (i - 1) + 1 = i /\ ~(i <= 1)
        BY <3>3
      <4> QED
        BY <2>1, <3>1, <4>1
    <3> QED
      BY <3>2, <3>3
  <2>7. r = s
    BY <2>n, <2>5, <2>6, SeqEqual
  <2> QED
    BY <2>4, <2>7
<1>5. v \o (w \o g) = (v \o w) \o g
  <2>1. v \in Seq(T) /\ w \in Seq(T) /\ g \in Seq(T)
    BY <1>3
  <2>2. (v \o w) \o g = v \o (w \o g)
    BY <2>1
  <2> QED
    BY <2>2
<1>6. s \o g \in Seq(T) /\ <<>> \o (s \o g) = s \o g
  <2>1. PICK x \in Seq(T) : x = s \o g
    BY ConcatProperties
  <2>2. <<>> \o x = x
    BY ConcatEmptySeq
  <2> QED
    BY <2>1, <2>2
<1> QED
  BY <1>1, <1>2, <1>4, <1>5, <1>6

LEMMA OrderTake ==
    ASSUME CountInv, OrderInv, UNCHANGED param, TakeDecided \/ PopUnlocked
    PROVE  OrderInv'
<1>1. UNCHANGED <<poc, input, gop, lastKey, hasRef, picList, cra, pending>>
      /\ UNCHANGED <<frame, kind, refs, enable, fe>>
  BY DEF TakeDecided, PopUnlocked, deciding, buffer, lists, marks, picture, events
<1>2. Rights'
  <2>1. Rights /\ \A e \in FEs : Needs(e)' => Needs(e)
    BY <1>1 DEF OrderInv, Needs
  <2> QED
    BY <1>1, <2>1, RightsKept
<1>3. Group' = Group
  BY <1>1 DEF Group
<1>4. inHand = <<>>
  BY DEF CountInv, Threads, TakeDecided, PopUnlocked
<1>5. \/ UNCHANGED <<output, inHand>>
      \/ output # <<>> /\ inHand' = Head(output) /\ output' = Tail(output)
  BY <1>4 DEF TakeDecided, PopUnlocked
<1>6. Line' = Line
  <2>1. CASE UNCHANGED <<output, inHand>>
    BY <1>3, <2>1 DEF Line
  <2>2. CASE output # <<>> /\ inHand' = Head(output) /\ output' = Tail(output)
    <3>1. output \in Seq(Typed) /\ Group \in Seq(Typed)
      BY LineTypes
    <3>2. Head(output) # <<>>
      <4>1. Head(output) \in Typed
        BY <2>2, <3>1
      <4> QED
        BY <4>1 DEF Typed
    <3>3. <<Head(output)>> \o (Tail(output) \o Group) = <<>> \o (output \o Group)
      BY <2>2, <3>1, PopLine
    <3>4. Line' = <<Head(output)>> \o (Tail(output) \o Group)
      BY <1>3, <2>2, <3>2 DEF Line
    <3>5. Line = <<>> \o (output \o Group)
      BY <1>4 DEF Line
    <3> QED
      BY <3>3, <3>4, <3>5
  <2> QED
    BY <1>5, <2>1, <2>2
<1> QED
  BY <1>1, <1>2, <1>6, OrderSame

\* The pictures chosen go to the end of the output queue.
LEMMA OrderPush ==
    ASSUME CountInv, OrderInv, UNCHANGED <<param, pipe>>, NEW t \in Deciders, PushOutput(t)
    PROVE  OrderInv'
<1>1. UNCHANGED <<poc, input, inHand, lastKey, hasRef, picList, cra, pending>>
      /\ UNCHANGED <<frame, kind, refs, enable, fe>>
      /\ output' = output \o gop[t] /\ gop' = [gop EXCEPT ![t] = <<>>]
  BY DEF PushOutput, pipe, caller, buffer, lists, marks, picture, events
<1>2. Rights'
  <2>1. Rights /\ \A e \in FEs : Needs(e)' => Needs(e)
    BY <1>1 DEF OrderInv, Needs
  <2> QED
    BY <1>1, <2>1, RightsKept
<1>3. output \in Seq(Typed) /\ gop \in [Deciders -> Seq(Typed)]
  BY LineTypes
<1>4. \A u \in Deciders : u # t => gop[u] = <<>>
  BY DEF PushOutput, CountInv, WaitInv, OneDecides, Grouped
<1>5. Group = gop[t]
  BY <1>4, GroupIs
<1>6. Group' = <<>>
  <2>1. \A u \in Deciders : gop'[u] = <<>>
    BY <1>1, <1>3, <1>4
  <2> QED
    BY <2>1 DEF Group
<1>7. output' \o Group' = output \o Group
  <2>1. PICK x \in Seq(Typed) : x = output \o gop[t]
    BY <1>3, ConcatProperties
  <2>2. x \o <<>> = x
    BY ConcatEmptySeq
  <2> QED
    BY <1>1, <1>5, <1>6, <2>1, <2>2
<1>8. Line' = Line
  BY <1>1, <1>7 DEF Line
<1> QED
  BY <1>1, <1>2, <1>8, OrderSame

\* A picture leaves its encoder, and those that are no reference any more leave
\* the picture list.
LEMMA OrderGet ==
    ASSUME CountInv, OrderInv, UNCHANGED param, GetEncoded
    PROVE  OrderInv'
<1>1. UNCHANGED <<poc, input, output, gop, inHand, lastKey, hasRef, cra, pending>>
      /\ UNCHANGED <<kind, refs, enable, fe>>
  BY DEF GetEncoded, lookahead, queues, deciding, marks
<1>l. ListInv
  BY DEF CountInv, RateInv
<1>2. poc \in [Frames -> Int] /\ Made \subseteq Frames /\ frame \in [FEs -> Nat] /\ cur \in FEs
      /\ Present \subseteq Frames
  BY <1>l, AllMade DEF ListInv, ListTypes
<1>3. Line' = Line /\ Marks' = Marks /\ NextPoc' = NextPoc
  BY <1>1 DEF Line, Group, Marks, NextPoc
<1>4. Rights'
  <2>1. \A e \in FEs : frame'[e] \in {frame[e], 0}
    BY <1>2 DEF GetEncoded
  <2>2. Rights /\ \A e \in FEs : Needs(e)' => Needs(e) /\ frame'[e] = frame[e]
    BY <1>1, <2>1 DEF OrderInv, Needs
  <2> QED
    BY <1>1, <2>2, RightsKept
<1>5. CASE picList' = picList
  BY <1>1, <1>3, <1>4, <1>5, OrderSame
<1>6. CASE Recycle(count')
  <2>c. PICK c : c = count'
    OBVIOUS
  <2>r. Recycle(c)
    BY <1>6, <2>c
  <2>1. Marks' \subseteq Present'
    <3>1. Present' = {f \in Present : ~Unused(f, c)}
      BY <1>l, <2>r, RecycleFacts
    <3>2. Marks \subseteq Present
      BY DEF OrderInv
    <3> QED
      BY <1>3, <3>1, <3>2 DEF Marks, Unused
  <2>2. Sorted'
    <3>p. PICK p \in Seq(Made) : p = picList
      BY <1>l DEF ListInv, ListTypes
    <3>S. PICK S : S = {f \in Frames : ~Unused(f, c)}
      OBVIOUS
    <3>R. PICK R : R = {r \in Frames \X Frames : hasRef[r[1]] /\ hasRef[r[2]] => poc[r[1]] > poc[r[2]]}
      OBVIOUS
    <3>1. \A i, j \in 1 .. Len(p) : i < j /\ p[i] \in S /\ p[j] \in S => <<p[i], p[j]>> \in R
      <4> SUFFICES ASSUME NEW i \in 1 .. Len(p), NEW j \in 1 .. Len(p), i < j
                   PROVE  <<p[i], p[j]>> \in R
        OBVIOUS
      <4>1. p[i] \in Frames /\ p[j] \in Frames
        BY <1>2
      <4>2. hasRef[p[i]] /\ hasRef[p[j]] => poc[p[i]] > poc[p[j]]
        BY <3>p DEF OrderInv, Sorted
      <4> QED
        BY <3>R, <4>1, <4>2
    <3>q. PICK q : q = Select(p, S)
      OBVIOUS
    <3>2. \A i, j \in 1 .. Len(q) : i < j => <<q[i], q[j]>> \in R
      BY <3>1, <3>q, SelectSorted
    <3>3. picList' = q
      BY <2>r, <3>p, <3>S, <3>q DEF Recycle
    <3> QED
      BY <1>1, <3>2, <3>3, <3>R DEF Sorted
  <2>3. InLine(Line, Marks)'
    BY <1>1, <1>3 DEF OrderInv, InLine, Fits, Latest, LatestTwo, AnchorsOf, BFrames
  <2>4. First' = First /\ Known' = Known
    BY <1>1, <1>3 DEF First, Known, AnchorsOf
  <2>5. Consecutive' /\ Tip' /\ CraTop'
    BY <1>1, <1>3, <2>4 DEF OrderInv, Consecutive, Tip, CraTop, Latest
  <2> QED
    BY <1>3, <1>4, <2>1, <2>2, <2>3, <2>5 DEF OrderInv
<1> QED
  BY <1>5, <1>6 DEF GetEncoded

\* A picture fits as before if its number and those of the others are the same.
LEMMA InLineSame ==
    ASSUME NEW q, Len(q) \in Nat, NEW M, InLine(q, M), UNCHANGED param,
           \A g \in M : poc'[g] = poc[g],
           \A i \in 1 .. Len(q) : poc'[q[i][1]] = poc[q[i][1]],
           Line' = q, Marks' = M
    PROVE  InLine(Line, Marks)'
<1>i. SUFFICES InLine(q, M)'
  BY DEF InLine, Fits, Latest, LatestTwo, AnchorsOf
<1> SUFFICES ASSUME NEW i \in 1 .. Len(q)
             PROVE  Fits(q[i][1], q[i][2], M \cup AnchorsOf(q, i - 1))'
  BY DEF InLine, AnchorsOf
<1>S. PICK S : S = M \cup AnchorsOf(q, i - 1)
  OBVIOUS
<1>1. \A g \in S : poc'[g] = poc[g]
  <2>1. \A j \in 1 .. i - 1 : j \in 1 .. Len(q)
    OBVIOUS
  <2> QED
    BY <1>S, <2>1 DEF AnchorsOf
<1>2. Fits(q[i][1], q[i][2], S) /\ poc'[q[i][1]] = poc[q[i][1]]
  BY <1>S DEF InLine
<1>3. Fits(q[i][1], q[i][2], S)'
  <2>1. ASSUME NEW a, NEW b, LatestTwo(a, b, S) PROVE LatestTwo(a, b, S)' /\ a \in S /\ b \in S
    BY <1>1, <2>1 DEF LatestTwo
  <2>2. ASSUME NEW a, Latest(a, S) PROVE Latest(a, S)' /\ a \in S
    BY <1>1, <2>2 DEF Latest
  <2>f. PICK f : f = q[i][1]
    OBVIOUS
  <2>k. PICK k : k = q[i][2]
    OBVIOUS
  <2>3. Fits(f, k, S) /\ poc'[f] = poc[f]
    BY <1>2, <2>f, <2>k
  <2>4. k # "B" => \A g \in S : poc'[g] < poc'[f]
    BY <1>1, <2>3 DEF Fits
  <2>5. k = "P" => \E a \in S : Latest(a, S)' /\ poc'[f] - poc'[a] <= BFrames' + 1
    BY <1>1, <2>2, <2>3 DEF Fits, BFrames
  <2>6. ASSUME k = "B"
        PROVE  \E a, b \in S : /\ LatestTwo(a, b, S)' /\ poc'[b] - poc'[a] <= BFrames' + 1
                               /\ poc'[a] < poc'[f] /\ poc'[f] < poc'[b]
    <3>1. PICK a \in S, b \in S : /\ LatestTwo(a, b, S) /\ poc[b] - poc[a] <= BFrames + 1
                                  /\ poc[a] < poc[f] /\ poc[f] < poc[b]
      BY <2>3, <2>6 DEF Fits
    <3>2. poc'[a] = poc[a] /\ poc'[b] = poc[b] /\ BFrames' = BFrames
      BY <1>1 DEF BFrames
    <3> QED
      BY <2>1, <2>3, <3>1, <3>2
  <2> QED
    BY <2>f, <2>k, <2>4, <2>5, <2>6 DEF Fits
<1>4. (M \cup AnchorsOf(q, i - 1))' = S
  BY <1>S DEF AnchorsOf
<1> QED
  BY <1>3, <1>4 DEF Fits, Latest, LatestTwo

\* A picture joins the input queue.
LEMMA OrderAdd ==
    ASSUME CountInv, OrderInv, UNCHANGED param, AddPicture
    PROVE  OrderInv'
<1>l. ListInv
  BY DEF CountInv, RateInv
<1>1. PICK f \in Frames : /\ poc' = [poc EXCEPT ![f] = NextPoc] /\ input' = Append(input, f)
                          /\ NextPoc' = NextPoc + 1 /\ f \notin Present /\ f \notin OnTheWay
  BY <1>l, AddsOne
<1>2. UNCHANGED <<output, gop, inHand, lastKey, hasRef, picList, cra, pending>>
      /\ UNCHANGED <<frame, kind, refs, enable, fe>>
  BY DEF AddPicture, deciding, marks, picture, events
<1>3. /\ poc \in [Frames -> Int] /\ input \in Seq(Made) /\ Made \subseteq Frames
      /\ Present \subseteq Frames /\ picList \in Seq(Made)
  BY <1>l, AllMade DEF ListInv, ListTypes
<1>4. Line' = Line /\ Marks' = Marks /\ Present' = Present
  BY <1>2 DEF Line, Group, Marks, Present
<1>5. \A g : g # f => poc'[g] = poc[g]
  BY <1>1, <1>3
<1>m. PICK M : M = Marks
  OBVIOUS
<1>6. f \notin M /\ M \subseteq Frames
  BY <1>1, <1>m DEF OrderInv, Marks
<1>q. PICK q \in Seq(Typed) : q = Line
  BY LineTypes
<1>7. Len(q) \in Nat /\ \A i \in 1 .. Len(q) : q[i][1] # f
  <2>1. \A i \in 1 .. Len(q) : q[i][1] \in Range(Pics(q))
    <3>1. DOMAIN q = 1 .. Len(q)
      OBVIOUS
    <3> QED
      BY <3>1 DEF Range, Pics
  <2>2. \A g \in Range(Pics(q)) : g \in OnTheWay
    BY <1>q, LineTypes
  <2> QED
    BY <1>1, <2>1, <2>2
<1>8. InLine(Line, Marks)'
  <2>1. InLine(q, M)
    BY <1>m, <1>q DEF OrderInv
  <2>2. \A g \in M : poc'[g] = poc[g]
    BY <1>5, <1>6
  <2>3. \A i \in 1 .. Len(q) : poc'[q[i][1]] = poc[q[i][1]]
    BY <1>5, <1>7
  <2> QED
    BY <1>4, <1>7, <1>m, <1>q, <2>1, <2>2, <2>3, InLineSame
<1>9. PICK n \in Nat : /\ n = Len(input) /\ Len(input') = n + 1 /\ input'[n + 1] = f
                       /\ \A i \in 1 .. n : input'[i] = input[i] /\ input[i] # f
  <2>1. \A i \in 1 .. Len(input) : input[i] \in OnTheWay
    BY <1>3 DEF OnTheWay, Queued, Range
  <2>2. input \in Seq(Frames)
    BY <1>3, SeqWider
  <2> QED
    BY <1>1, <2>1, <2>2, AppendProperties
<1>10. NextPoc \in Int
  BY <1>l, NextPocFacts
<1>11. First' = First /\ First = NextPoc - n
  BY <1>1, <1>9, <1>10 DEF First
<1>12. Consecutive'
  <2> SUFFICES ASSUME NEW i \in 1 .. n + 1 PROVE poc'[input'[i]] = First + i - 1
    BY <1>9, <1>11 DEF Consecutive
  <2>1. CASE i \in 1 .. n
    <3>1. poc'[input'[i]] = poc[input[i]]
      BY <1>5, <1>9, <2>1
    <3> QED
      BY <1>9, <2>1, <3>1 DEF OrderInv, Consecutive
  <2>2. CASE i = n + 1
    BY <1>1, <1>3, <1>9, <1>10, <1>11, <2>2
  <2> QED
    BY <2>1, <2>2
<1>13. Known' = Known /\ \A g \in Known : poc'[g] = poc[g]
  <2>1. Known' = Known
    BY <1>4 DEF Known, AnchorsOf
  <2>2. \A i \in 1 .. Len(q) : poc'[q[i][1]] = poc[q[i][1]]
    BY <1>5, <1>7
  <2>3. \A g \in M : poc'[g] = poc[g]
    BY <1>5, <1>6
  <2> QED
    BY <1>m, <1>q, <2>1, <2>2, <2>3 DEF Known, AnchorsOf
<1>14. Tip'
  <2>1. CASE Known = {}
    BY <1>2, <1>11, <1>13, <2>1 DEF OrderInv, Tip
  <2>2. CASE Known # {}
    <3>1. PICK a \in Known : Latest(a, Known) /\ poc[a] = First - 1
      BY <2>2 DEF OrderInv, Tip
    <3>2. \A g \in Known : g = a \/ poc'[g] < poc'[a]
      BY <1>13, <3>1 DEF Latest
    <3>3. Latest(a, Known)'
      BY <1>13, <3>2 DEF Latest
    <3> QED
      BY <1>11, <1>13, <2>2, <3>1, <3>3 DEF Tip
  <2> QED
    BY <2>1, <2>2
<1>15. Sorted'
  <2>1. \A i \in 1 .. Len(picList) : poc'[picList[i]] = poc[picList[i]]
    <3>1. \A i \in 1 .. Len(picList) : picList[i] \in Present
      BY <1>3 DEF Present, Range
    <3> QED
      BY <1>1, <1>5, <3>1
  <2> QED
    BY <1>2, <2>1 DEF OrderInv, Sorted
<1>16. CraTop'
  <2> SUFFICES ASSUME pending PROVE \E g \in M : Latest(g, M)' /\ poc'[g] = cra
    BY <1>2, <1>4, <1>m DEF CraTop, Latest
  <2>1. PICK g \in M : Latest(g, M) /\ poc[g] = cra
    BY <1>m DEF OrderInv, CraTop
  <2>2. \A h \in M : poc'[h] = poc[h]
    BY <1>5, <1>6
  <2> QED
    BY <2>1, <2>2 DEF Latest
<1>17. Rights'
  <2>1. \A e \in FEs : Needs(e)' => Needs(e) /\ poc'[frame[e]] = poc[frame[e]]
    <3> SUFFICES ASSUME NEW e \in FEs, Needs(e)' PROVE Needs(e) /\ poc'[frame[e]] = poc[frame[e]]
      OBVIOUS
    <3>1. Needs(e)
      BY <1>2 DEF Needs
    <3>2. frame[e] \in Present
      BY <1>l, <3>1 DEF Needs, ListInv, InDPB
    <3> QED
      BY <1>1, <1>5, <3>1, <3>2
  <2>2. Rights
    BY DEF OrderInv
  <2> QED
    BY <1>2, <2>1, <2>2, RightsKept
<1>18. Marks' \subseteq Present'
  BY <1>4 DEF OrderInv
<1> QED
  BY <1>8, <1>12, <1>14, <1>15, <1>16, <1>17, <1>18 DEF OrderInv

\* The pictures of a queue to whose end others are added.
LEMMA AnchorsConcat ==
    ASSUME NEW T, NEW q \in Seq(T), NEW r \in Seq(T)
    PROVE  /\ q \o r \in Seq(T) /\ Len(q \o r) = Len(q) + Len(r)
           /\ \A i \in 1 .. Len(q) : (q \o r)[i] = q[i]
           /\ \A j \in 1 .. Len(r) : (q \o r)[Len(q) + j] = r[j]
           /\ \A n \in 0 .. Len(q) : AnchorsOf(q \o r, n) = AnchorsOf(q, n)
           /\ \A n \in 0 .. Len(r) :
                 AnchorsOf(q \o r, Len(q) + n) = AnchorsOf(q, Len(q)) \cup AnchorsOf(r, n)
<1>m. PICK m \in Nat : m = Len(q)
  OBVIOUS
<1>k. PICK k \in Nat : k = Len(r)
  OBVIOUS
<1>1. PICK s \in Seq(T) : /\ s = q \o r /\ Len(s) = m + k
                          /\ \A i \in 1 .. m + k : s[i] = IF i <= m THEN q[i] ELSE r[i - m]
  <2>1. /\ q \o r \in Seq(T) /\ Len(q \o r) = Len(q) + Len(r)
        /\ \A i \in 1 .. Len(q) + Len(r) :
              (q \o r)[i] = IF i <= Len(q) THEN q[i] ELSE r[i - Len(q)]
    BY ConcatProperties
  <2> QED
    BY <1>m, <1>k, <2>1, Zenon
<1>2. \A i \in 1 .. m : s[i] = q[i]
  BY <1>1
<1>3. \A j \in 1 .. k : s[m + j] = r[j]
  <2>1. \A j \in 1 .. k : m + j \in 1 .. m + k /\ ~(m + j <= m) /\ (m + j) - m = j
    OBVIOUS
  <2> QED
    BY <1>1, <2>1
<1>4. ASSUME NEW n \in 0 .. m PROVE AnchorsOf(s, n) = AnchorsOf(q, n)
  <2>1. \A i \in 1 .. n : s[i] = q[i]
    BY <1>2
  <2>2. {i \in 1 .. n : s[i][2] # "B"} = {i \in 1 .. n : q[i][2] # "B"}
    BY <2>1
  <2>3. \A i \in {j \in 1 .. n : q[j][2] # "B"} : s[i][1] = q[i][1]
    BY <2>1
  <2> QED
    BY <2>2, <2>3 DEF AnchorsOf
<1>5. ASSUME NEW n \in 0 .. k PROVE AnchorsOf(s, m + n) = AnchorsOf(q, m) \cup AnchorsOf(r, n)
  <2>1. \A i \in 1 .. m : i \in 1 .. m + n /\ s[i] = q[i]
    BY <1>2
  <2>2. \A j \in 1 .. n : m + j \in 1 .. m + n /\ s[m + j] = r[j]
    BY <1>3
  <2>3. ASSUME NEW i \in 1 .. m + n, s[i][2] # "B"
        PROVE  s[i][1] \in AnchorsOf(q, m) \cup AnchorsOf(r, n)
    <3>1. CASE i \in 1 .. m
      BY <2>1, <2>3, <3>1 DEF AnchorsOf
    <3>2. CASE i \notin 1 .. m
      <4>1. i - m \in 1 .. n /\ m + (i - m) = i
        BY <3>2
      <4>2. s[i] = r[i - m]
        BY <2>2, <4>1
      <4> QED
        BY <2>3, <4>1, <4>2 DEF AnchorsOf
    <3> QED
      BY <3>1, <3>2
  <2>4. AnchorsOf(s, m + n) \subseteq AnchorsOf(q, m) \cup AnchorsOf(r, n)
    BY <2>3 DEF AnchorsOf
  <2>5. AnchorsOf(q, m) \subseteq AnchorsOf(s, m + n)
    <3> SUFFICES ASSUME NEW i \in 1 .. m, q[i][2] # "B" PROVE q[i][1] \in AnchorsOf(s, m + n)
      BY DEF AnchorsOf
    <3>1. i \in 1 .. m + n /\ s[i] = q[i]
      BY <2>1
    <3> QED
      BY <3>1 DEF AnchorsOf
  <2>6. AnchorsOf(r, n) \subseteq AnchorsOf(s, m + n)
    <3> SUFFICES ASSUME NEW j \in 1 .. n, r[j][2] # "B" PROVE r[j][1] \in AnchorsOf(s, m + n)
      BY DEF AnchorsOf
    <3>1. PICK i \in 1 .. m + n : i = m + j /\ s[i] = r[j]
      BY <2>2
    <3> QED
      BY <3>1 DEF AnchorsOf
  <2> QED
    BY <2>4, <2>5, <2>6
<1> QED
  BY <1>m, <1>k, <1>1, <1>2, <1>3, <1>4, <1>5

\* What slicetypeDecide() finds: the numbers of the pictures in the input queue
\* follow each other, and follow that of the last I or P picture before them.  The
\* first picture of all is a key frame.
LEMMA ChosenFollow ==
    ASSUME CountInv, OrderInv, NEW b \in Nat, b < Len(input), b <= BFrames,
           \A i \in 1 .. b : ~IsKey(input[i]), NEW p, p = input[b + 1]
    PROVE  /\ First \in Int /\ p \in Frames /\ poc[p] = First + b
           /\ \A i \in 1 .. b : input[i] \in Frames /\ poc[input[i]] = First + i - 1
           /\ Known \subseteq Frames /\ \A g \in Known : poc[g] < First
           /\ Known = {} => b = 0 /\ IsKey(p)
           /\ Known # {} => \E a \in Known : Latest(a, Known) /\ poc[a] = First - 1
<1>l. ListInv
  BY DEF CountInv, RateInv
<1>1. /\ poc \in [Frames -> Int] /\ input \in Seq(Made) /\ Made \subseteq Frames
      /\ NextPoc \in Int
  BY <1>l, AllMade, NextPocFacts DEF ListInv, ListTypes
<1>n. PICK n \in Nat : n = Len(input)
  BY <1>1
<1>2. First \in Int
  BY <1>1, <1>n DEF First
<1>3. b + 1 \in 1 .. n /\ \A i \in 1 .. n : input[i] \in Frames
  BY <1>1, <1>n
<1>4. \A i \in 1 .. n : poc[input[i]] = First + i - 1
  BY <1>n DEF OrderInv, Consecutive
<1>5. p \in Frames /\ poc[p] = First + b
  BY <1>2, <1>3, <1>4
<1>6. \A i \in 1 .. b : input[i] \in Frames /\ poc[input[i]] = First + i - 1
  BY <1>3, <1>4
<1>7. Known \subseteq Frames
  <2>1. PICK q \in Seq(Made \X Kinds) : q = Line
    BY LineTypes DEF Typed
  <2>2. Len(q) \in 0 .. Len(q)
    OBVIOUS
  <2>3. AnchorsOf(q, Len(q)) \in SUBSET Frames
    BY <1>1, <2>2, AnchorsMade
  <2> QED
    BY <2>1, <2>3 DEF Known, Marks
<1>8. ASSUME Known # {}
      PROVE  \E a \in Known : Latest(a, Known) /\ poc[a] = First - 1
  BY <1>8 DEF OrderInv, Tip
<1>9. ASSUME NEW g \in Known PROVE poc[g] < First
  <2>1. PICK a \in Known : Latest(a, Known) /\ poc[a] = First - 1
    BY <1>8
  <2>2. g = a \/ poc[g] < poc[a]
    BY <2>1 DEF Latest
  <2>3. poc[g] \in Int
    BY <1>1, <1>7
  <2> QED
    BY <1>2, <2>1, <2>2, <2>3
<1>10. ASSUME Known = {} PROVE b = 0 /\ IsKey(p)
  <2>1. First = 0 /\ lastKey = -KeyInt
    BY <1>10 DEF OrderInv, Tip
  <2>2. 1 \in 1 .. n /\ poc[input[1]] = 0
    <3>1. 1 \in 1 .. n /\ 0 + 1 - 1 = 0
      BY <1>3
    <3> QED
      BY <1>4, <2>1, <3>1
  <2>3. IsKey(input[1])
    BY <2>1, <2>2, KeyAssumption DEF IsKey
  <2>4. b = 0
    <3> SUFFICES ASSUME b # 0 PROVE FALSE
      OBVIOUS
    <3>1. 1 \in 1 .. b
      OBVIOUS
    <3> QED
      BY <2>3, <3>1
  <2>5. p = input[1]
    BY <2>4
  <2> QED
    BY <2>3, <2>4, <2>5
<1> QED
  BY <1>2, <1>5, <1>6, <1>7, <1>8, <1>9, <1>10

\* The I or P picture that ends a mini-GOP, and then its B pictures, fit behind
\* what was chosen before.
LEMMA OrderChoose ==
    ASSUME CountInv, OrderInv, UNCHANGED <<param, pipe>>, NEW t \in Deciders, Choose(t)
    PROVE  OrderInv'
<1>l. ListInv
  BY DEF CountInv, RateInv
<1>1. PICK b \in 0 .. Min({BFrames, Len(input) - 1}) :
         /\ \A i \in 1 .. b : ~IsKey(input[i])
         /\ gop' = [gop EXCEPT ![t] = EncodeOrder(b)] /\ input' = Rest(b)
  BY DEF Choose
<1>2. b \in Nat /\ b < Len(input) /\ b <= BFrames /\ BFrames \in Nat
  BY <1>l, ChosenLength
<1>3. UNCHANGED <<poc, output, inHand, hasRef, picList, cra, pending>>
      /\ UNCHANGED <<frame, kind, refs, enable, fe>>
  BY DEF Choose, pipe, caller, buffer, lists, marks, picture, events
<1>4. /\ poc \in [Frames -> Int] /\ input \in Seq(Made) /\ Made \subseteq Frames
      /\ NextPoc \in Int
  BY <1>l, AllMade, NextPocFacts DEF ListInv, ListTypes
<1>p. PICK p : p = input[b + 1]
  OBVIOUS
<1>k. PICK k : k = IF IsKey(p) THEN "I" ELSE "P"
  OBVIOUS
<1>E. PICK E \in Seq(Typed) :
         /\ E = EncodeOrder(b) /\ Len(E) = b + 1 /\ E[1] = <<p, k>>
         /\ \A i \in 2 .. b + 1 : E[i] = <<input[i - 1], "B">>
  BY <1>2, <1>4, <1>p, <1>k, ChooseShape
<1>r. /\ input' \in Seq(Made) /\ Len(input') = Len(input) - (b + 1)
      /\ \A i \in 1 .. Len(input) - (b + 1) : input'[i] = input[i + (b + 1)]
  BY <1>1, <1>2, <1>4, ChooseShape
<1>5. /\ First \in Int /\ p \in Frames /\ poc[p] = First + b
      /\ \A i \in 1 .. b : input[i] \in Frames /\ poc[input[i]] = First + i - 1
      /\ Known \subseteq Frames /\ \A g \in Known : poc[g] < First
      /\ Known = {} => b = 0 /\ IsKey(p)
      /\ Known # {} => \E a \in Known : Latest(a, Known) /\ poc[a] = First - 1
  BY <1>1, <1>2, <1>p, ChosenFollow
\* the line
<1>q. PICK q \in Seq(Typed) : q = Line
  BY LineTypes
<1>m. PICK m \in Nat : m = Len(q)
  OBVIOUS
<1>6. Line' = q \o E
  <2>1. \A u \in Deciders : u # t => gop[u] = <<>>
    BY DEF Choose, CountInv, WaitInv, OneDecides, Grouped
  <2>2. gop[t] = <<>>
    BY DEF Choose, CountInv, Grouped
  <2>3. Group = <<>>
    BY <2>1, <2>2, GroupIs
  <2>4. Group' = E
    <3>1. gop'[t] = E /\ \A u \in Deciders : u # t => gop'[u] = <<>>
      BY <1>1, <1>E, <2>1, LineTypes
    <3>2. E # <<>>
      BY <1>2, <1>E
    <3>3. (CHOOSE u \in Deciders : gop'[u] # <<>>) = t
      BY <3>1, <3>2
    <3> QED
      BY <3>1, <3>2, <3>3 DEF Group
  <2>o. PICK o \in Seq(Typed) : o = output
    BY LineTypes
  <2>h. PICK h : h = IF inHand = <<>> THEN <<>> ELSE <<inHand>>
    OBVIOUS
  <2>5. h \in Seq(Typed)
    <3>1. CASE inHand = <<>>
      <4>1. h = <<>>
        BY <2>h, <3>1
      <4> QED
        BY <4>1
    <3>2. CASE inHand # <<>>
      <4>1. <<inHand>> \in Seq(Typed)
        BY <3>2, LineTypes
      <4> QED
        BY <2>h, <3>2, <4>1
    <3> QED
      BY <3>1, <3>2
  <2>6. Line = h \o (o \o <<>>) /\ Line' = h \o (o \o E)
    BY <1>3, <2>3, <2>4, <2>o, <2>h DEF Line
  <2>7. o \o <<>> = o
    BY ConcatEmptySeq
  <2>8. h \o (o \o E) = (h \o o) \o E
    BY <2>5
  <2> QED
    BY <1>q, <2>6, <2>7, <2>8
<1>7. PICK s \in Seq(Typed) :
         /\ s = q \o E /\ Len(s) = m + (b + 1)
         /\ \A i \in 1 .. m : s[i] = q[i]
         /\ \A j \in 1 .. b + 1 : s[m + j] = E[j]
         /\ \A i \in 0 .. m : AnchorsOf(s, i) = AnchorsOf(q, i)
         /\ \A j \in 0 .. b + 1 : AnchorsOf(s, m + j) = AnchorsOf(q, m) \cup AnchorsOf(E, j)
  <2>1. /\ q \o E \in Seq(Typed) /\ Len(q \o E) = Len(q) + Len(E)
        /\ \A i \in 1 .. Len(q) : (q \o E)[i] = q[i]
        /\ \A j \in 1 .. Len(E) : (q \o E)[Len(q) + j] = E[j]
        /\ \A i \in 0 .. Len(q) : AnchorsOf(q \o E, i) = AnchorsOf(q, i)
        /\ \A j \in 0 .. Len(E) :
              AnchorsOf(q \o E, Len(q) + j) = AnchorsOf(q, Len(q)) \cup AnchorsOf(E, j)
    BY AnchorsConcat
  <2> QED
    BY <1>E, <1>m, <2>1, Zenon
<1>8. AnchorsOf(E, 0) = {} /\ \A j \in 1 .. b + 1 : AnchorsOf(E, j) = {p}
  <2>1. 1 .. 0 = {}
    OBVIOUS
  <2>2. E[1][1] = p /\ E[1][2] # "B" /\ \A i \in 2 .. b + 1 : E[i][2] = "B"
    BY <1>E, <1>k
  <2>3. \A j \in 1 .. b + 1 : 1 \in 1 .. j /\ \A i \in 1 .. j : i = 1 \/ i \in 2 .. b + 1
    OBVIOUS
  <2>4. ASSUME NEW j \in 1 .. b + 1 PROVE {i \in 1 .. j : E[i][2] # "B"} = {1}
    BY <2>2, <2>3
  <2> QED
    BY <2>1, <2>2, <2>4 DEF AnchorsOf
<1>M. PICK M : M = Marks
  OBVIOUS
<1>K. Known = M \cup AnchorsOf(q, m)
  BY <1>M, <1>m, <1>q DEF Known
<1>9. Marks' = M /\ Known' = Known \cup {p}
  <2>1. Marks' = M
    BY <1>3, <1>M DEF Marks
  <2>2. Line' = s /\ Len(s) = m + (b + 1) /\ b + 1 \in 0 .. b + 1 /\ b + 1 \in 1 .. b + 1
    BY <1>2, <1>6, <1>7
  <2>3. AnchorsOf(s, Len(s)) = AnchorsOf(q, m) \cup {p}
    BY <1>7, <1>8, <2>2
  <2>4. Known' = M \cup AnchorsOf(s, Len(s))
    BY <2>1, <2>2 DEF Known, AnchorsOf
  <2> QED
    BY <1>K, <2>1, <2>3, <2>4
<1>10. InLine(s, M)
  <2> SUFFICES ASSUME NEW i \in 1 .. m + (b + 1)
               PROVE  Fits(s[i][1], s[i][2], M \cup AnchorsOf(s, i - 1))
    BY <1>7 DEF InLine
  <2>1. CASE i \in 1 .. m
    <3>1. i - 1 \in 0 .. m
      BY <2>1
    <3>2. s[i] = q[i] /\ AnchorsOf(s, i - 1) = AnchorsOf(q, i - 1)
      BY <1>7, <2>1, <3>1
    <3>3. InLine(q, M)
      BY <1>M, <1>q DEF OrderInv
    <3> QED
      BY <1>m, <2>1, <3>2, <3>3 DEF InLine
  <2>2. CASE i = m + 1
    <3>1. 1 \in 1 .. b + 1 /\ 0 \in 0 .. b + 1 /\ i - 1 = m + 0
      BY <1>2, <2>2
    <3>2. s[i] = <<p, k>> /\ AnchorsOf(s, i - 1) = AnchorsOf(q, m)
      BY <1>7, <1>8, <1>E, <2>2, <3>1
    <3>3. \A g \in Known : poc[g] < poc[p]
      <4>1. \A g \in Known : poc[g] \in Int
        BY <1>4, <1>5
      <4> QED
        BY <1>2, <1>5, <4>1
    <3>4. k = "P" => \E a \in Known : Latest(a, Known) /\ poc[p] - poc[a] <= BFrames + 1
      <4> SUFFICES ASSUME k = "P"
                   PROVE  \E a \in Known : Latest(a, Known) /\ poc[p] - poc[a] <= BFrames + 1
        OBVIOUS
      <4>1. Known # {}
        BY <1>5, <1>k
      <4>2. PICK a \in Known : Latest(a, Known) /\ poc[a] = First - 1
        BY <1>5, <4>1
      <4> QED
        BY <1>2, <1>5, <4>2
    <3>5. k # "B"
      BY <1>k
    <3>6. Fits(p, k, Known)
      BY <3>3, <3>4, <3>5 DEF Fits
    <3>7. s[i][1] = p /\ s[i][2] = k
      BY <3>2
    <3>8. M \cup AnchorsOf(s, i - 1) = Known
      BY <1>K, <3>2
    <3> QED
      BY <3>6, <3>7, <3>8, Zenon
  <2>3. CASE i \notin 1 .. m /\ i # m + 1
    <3>j. PICK j \in 1 .. b : i = m + (j + 1)
      <4>1. i - m - 1 \in 1 .. b /\ i = m + ((i - m - 1) + 1)
        BY <1>2, <2>3
      <4> QED
        BY <4>1
    <3>1. j + 1 \in 2 .. b + 1 /\ j + 1 \in 1 .. b + 1 /\ j \in 0 .. b + 1 /\ j \in 1 .. b + 1
          /\ i - 1 = m + j /\ (j + 1) - 1 = j
      BY <1>2, <3>j
    <3>2. s[i] = <<input[j], "B">>
      <4>1. s[m + (j + 1)] = E[j + 1]
        BY <1>7, <3>1
      <4>2. E[j + 1] = <<input[(j + 1) - 1], "B">>
        BY <1>E, <3>1
      <4> QED
        BY <3>j, <3>1, <4>1, <4>2
    <3>3. M \cup AnchorsOf(s, i - 1) = Known \cup {p}
      BY <1>7, <1>8, <1>K, <3>1
    <3>4. Known # {}
      BY <1>5
    <3>5. PICK a \in Known : Latest(a, Known) /\ poc[a] = First - 1
      BY <1>5, <3>4
    <3>6. poc[input[j]] = First + j - 1 /\ poc[p] = First + b /\ First \in Int
      BY <1>5
    <3>7. /\ poc[a] < poc[input[j]] /\ poc[input[j]] < poc[p] /\ poc[a] < poc[p]
          /\ poc[p] - poc[a] <= BFrames + 1
      BY <1>2, <3>5, <3>6
    <3>8. LatestTwo(a, p, Known \cup {p})
      BY <3>5, <3>7 DEF LatestTwo, Latest
    <3>9. Fits(input[j], "B", Known \cup {p})
      BY <3>5, <3>7, <3>8 DEF Fits
    <3>10. s[i][1] = input[j] /\ s[i][2] = "B"
      BY <3>2
    <3> QED
      BY <3>3, <3>9, <3>10, Zenon
  <2> QED
    BY <2>1, <2>2, <2>3
<1>11. InLine(Line, Marks)'
  <2>1. UNCHANGED <<poc, param>> /\ Len(s) \in Nat
    BY <1>3, <1>7
  <2>2. Line' = s /\ Marks' = M
    BY <1>6, <1>7, <1>9
  <2> QED
    BY <1>10, <2>1, <2>2, InLineSame
\* what follows it
<1>n. PICK n \in Nat : n = Len(input)
  BY <1>4
<1>12. First' = First + b + 1 /\ Len(input') = n - (b + 1)
  <2>1. NextPoc' = NextPoc
    BY <1>3 DEF NextPoc
  <2> QED
    BY <1>2, <1>4, <1>n, <1>r, <2>1 DEF First
<1>13. Consecutive'
  <2> SUFFICES ASSUME NEW i \in 1 .. n - (b + 1) PROVE poc[input'[i]] = (First + b + 1) + i - 1
    BY <1>3, <1>12 DEF Consecutive
  <2>1. input'[i] = input[i + (b + 1)] /\ i + (b + 1) \in 1 .. n
    BY <1>2, <1>n, <1>r
  <2>2. poc[input[i + (b + 1)]] = First + (i + (b + 1)) - 1
    BY <1>n, <2>1 DEF OrderInv, Consecutive
  <2>3. First + (i + (b + 1)) - 1 = (First + b + 1) + i - 1
    BY <1>5
  <2> QED
    BY <2>1, <2>2, <2>3
<1>14. Tip'
  <2>1. \A g \in Known \cup {p} : g = p \/ poc[g] < poc[p]
    <3>1. \A g \in Known : poc[g] \in Int
      BY <1>4, <1>5
    <3> QED
      BY <1>2, <1>5, <3>1
  <2>2. Latest(p, Known)'
    BY <1>3, <1>9, <2>1 DEF Latest
  <2>3. poc'[p] = First' - 1
    BY <1>2, <1>3, <1>5, <1>12
  <2> QED
    BY <1>9, <2>2, <2>3 DEF Tip
\* the DPB
<1>15. Marks' \subseteq Present' /\ Sorted' /\ CraTop'
  <2>1. Present' = Present /\ Marks' = Marks
    BY <1>3, <1>9, <1>M DEF Present
  <2> QED
    BY <1>3, <2>1 DEF OrderInv, Sorted, CraTop, Latest
<1>16. Rights'
  <2>1. Rights /\ \A e \in FEs : Needs(e)' => Needs(e)
    BY <1>3 DEF OrderInv, Needs
  <2> QED
    BY <1>3, <2>1, RightsKept
<1> QED
  BY <1>11, <1>13, <1>14, <1>15, <1>16 DEF OrderInv

\* The first picture of the line goes to a frame encoder.
LEMMA OrderStart ==
    ASSUME CountInv, OrderInv, UNCHANGED param, StartFrame
    PROVE  OrderInv'
<1>l. ListInv /\ Scalars
  BY DEF CountInv, RateInv
<1>1. inHand # <<>> /\ inHand \in Typed
  BY <1>l DEF StartFrame, ListInv, ListTypes
<1>f. PICK f \in Made : f = inHand[1]
  BY <1>1 DEF Typed
<1>k. PICK k \in Kinds : k = inHand[2]
  BY <1>1 DEF Typed
<1>2. inHand = <<f, k>>
  BY <1>1, <1>f, <1>k DEF Typed
<1>3. /\ picList' = <<f>> \o picList /\ Marks' = NewMarks(f, k)
      /\ \A g \in Frames : hasRef'[g] = (Marked(f, k)[g] /\ (g = f \/ g \in RPS(f, k)))
      /\ cra' = (IF k = "I" /\ poc[f] > 0 THEN poc[f] ELSE cra)
      /\ pending' = ((k = "I" /\ poc[f] > 0) \/ (pending /\ ~Refresh(f)))
      /\ refs' = [refs EXCEPT ![cur] = {<<g, poc[g]>> : g \in RefPics(f, k)}]
  BY <1>f, <1>k DEF StartFrame, PrepareEncode, Marks, NewMarks
<1>4. /\ UNCHANGED <<poc, input, output, gop, lastKey, fe>> /\ inHand' = <<>>
      /\ frame' = [frame EXCEPT ![cur] = f] /\ kind' = [kind EXCEPT ![cur] = k]
      /\ \A e \in FEs : e # cur => enable'[e] = enable[e]
  BY <1>f, <1>k DEF StartFrame, lookahead, queues, deciding, CountInv, RateInv, RateTypes
<1>5. /\ poc \in [Frames -> Int] /\ Made \subseteq Frames /\ Present \subseteq Frames
      /\ picList \in Seq(Made) /\ f \in Frames /\ BFrames \in Nat /\ cra \in Int /\ cur \in FEs
      /\ frame \in [FEs -> Nat] /\ kind \in [FEs -> Kinds] /\ refs \in [FEs -> SUBSET (Made \X Int)]
  <2>1. Made \subseteq Frames /\ Present \subseteq Frames
    BY <1>l, AllMade
  <2>2. cra \in Int /\ kind \in [FEs -> Kinds]
    BY PicsAssumption DEF CountInv, Scalars
  <2>3. BFrames \in Nat
    BY <1>l, ParamsAssumption DEF ListInv, ListTypes, BFrames
  <2>4. /\ poc \in [Frames -> Int] /\ picList \in Seq(Made) /\ cur \in FEs
        /\ frame \in [FEs -> Nat] /\ refs \in [FEs -> SUBSET (Made \X Int)]
    BY <1>l DEF ListInv, ListTypes
  <2> QED
    BY <2>1, <2>2, <2>3, <2>4
<1>6. f \notin Present
  BY <1>1, <1>f, <1>l DEF ListInv, ListsApart, OnTheWay, Handed
\* the line
<1>x. PICK x \in Seq(Typed) : x = output \o Group
  BY LineTypes
<1>7. Line = <<inHand>> \o x /\ Line' = x
  <2>1. Group' = Group
    BY <1>4 DEF Group
  <2>2. Line' = <<>> \o x
    BY <1>4, <1>x, <2>1 DEF Line
  <2>3. <<>> \o x = x
    BY ConcatEmptySeq
  <2> QED
    BY <1>1, <1>x, <2>2, <2>3 DEF Line
<1>n. PICK n \in Nat : n = Len(x)
  OBVIOUS
<1>q. PICK q \in Seq(Typed) :
         /\ q = Line /\ Len(q) = n + 1 /\ q[1] = <<f, k>>
         /\ \A i \in 1 .. n : q[i + 1] = x[i]
         /\ \A i \in 0 .. n : AnchorsOf(q, i + 1) = Own(f, k) \cup AnchorsOf(x, i)
  <2>1. /\ <<inHand>> \o x \in Seq(Typed) /\ Len(<<inHand>> \o x) = Len(x) + 1
        /\ (<<inHand>> \o x)[1] = inHand
        /\ \A i \in 1 .. Len(x) : (<<inHand>> \o x)[i + 1] = x[i]
        /\ \A i \in 0 .. Len(x) : AnchorsOf(<<inHand>> \o x, i + 1)
              = (IF inHand[2] = "B" THEN {} ELSE {inHand[1]}) \cup AnchorsOf(x, i)
    BY <1>1, AnchorsCons
  <2>2. (IF inHand[2] = "B" THEN {} ELSE {inHand[1]}) = Own(f, k)
    BY <1>f, <1>k DEF Own
  <2> QED
    BY <1>2, <1>7, <1>n, <2>1, <2>2, Zenon
<1>M. PICK M : M = Marks
  OBVIOUS
<1>8. ASSUME NEW i \in 1 .. n + 1
      PROVE  Fits(q[i][1], q[i][2], M \cup AnchorsOf(q, i - 1))
  BY <1>8, <1>M, <1>q DEF OrderInv, InLine
<1>9. Fits(f, k, M)
  <2>1. 1 \in 1 .. n + 1 /\ 1 - 1 = 0 /\ 1 .. 0 = {}
    OBVIOUS
  <2>2. AnchorsOf(q, 1 - 1) = {}
    BY <2>1 DEF AnchorsOf
  <2>3. M \cup AnchorsOf(q, 1 - 1) = M
    BY <2>2
  <2>4. q[1][1] = f /\ q[1][2] = k
    BY <1>q
  <2>5. Fits(q[1][1], q[1][2], M \cup AnchorsOf(q, 1 - 1))
    BY <1>8, <2>1
  <2> QED
    BY <2>3, <2>4, <2>5, Zenon
<1>10. Prepared(f, k)
  BY <1>l, <1>6, <1>9, <1>M DEF Prepared, OrderInv
<1>N. PICK N : N = NewMarks(f, k)
  OBVIOUS
<1>O. PICK O \in SUBSET Frames : O = Own(f, k) /\ O = IF k = "B" THEN {} ELSE {f}
  BY <1>5 DEF Own
<1>R. PICK R : R = RPS(f, k)
  OBVIOUS
<1>11. /\ N = R \cup O /\ R \subseteq M /\ Keeps(N, M \cup O)
       /\ \A a : Latest(a, M) => a \in R
       /\ M \subseteq Present /\ M \in SUBSET Frames
  BY <1>5, <1>10, <1>M, <1>N, <1>O, <1>R, StartKeeps DEF Prepared, Marks
<1>12. InLine(x, N)
  <2>1. InLine(x, M \cup O)
    <3> SUFFICES ASSUME NEW i \in 1 .. n
                 PROVE  Fits(x[i][1], x[i][2], (M \cup O) \cup AnchorsOf(x, i - 1))
      BY <1>n DEF InLine
    <3>1. i + 1 \in 1 .. n + 1 /\ (i + 1) - 1 = (i - 1) + 1 /\ i - 1 \in 0 .. n
      OBVIOUS
    <3>2. M \cup AnchorsOf(q, (i + 1) - 1) = (M \cup O) \cup AnchorsOf(x, i - 1)
      BY <1>O, <1>q, <3>1
    <3>3. Fits(q[i + 1][1], q[i + 1][2], M \cup AnchorsOf(q, (i + 1) - 1))
      BY <1>8, <3>1
    <3>4. q[i + 1] = x[i]
      BY <1>q
    <3> QED
      BY <3>2, <3>3, <3>4, Zenon
  <2>2. x \in Seq(Made \X Kinds) /\ M \cup O \in SUBSET Frames
    BY <1>11 DEF Typed
  <2> QED
    BY <1>5, <1>11, <2>1, <2>2, InLineLess
<1>13. InLine(Line, Marks)'
  <2>1. UNCHANGED poc /\ Len(x) \in Nat
    BY <1>4
  <2>2. Line' = x /\ Marks' = N
    BY <1>3, <1>7, <1>N
  <2> QED
    BY <1>12, <2>1, <2>2, InLineSame
\* the tip
<1>14. First' = First
  BY <1>4 DEF First, NextPoc
<1>15. Consecutive'
  BY <1>4, <1>14 DEF OrderInv, Consecutive
<1>A. PICK A \in SUBSET Frames : A = AnchorsOf(x, n)
  <2>1. x \in Seq(Made \X Kinds) /\ n \in 0 .. Len(x)
    BY <1>n DEF Typed
  <2>2. AnchorsOf(x, n) \in SUBSET Frames
    BY <1>5, <2>1, AnchorsMade
  <2> QED
    BY <2>2
<1>16. Known = (M \cup O) \cup A /\ Known' = N \cup A
  <2>1. AnchorsOf(q, n + 1) = O \cup A
    <3>1. n \in 0 .. n
      OBVIOUS
    <3> QED
      BY <1>A, <1>O, <1>q, <3>1
  <2>2. Known = M \cup AnchorsOf(q, n + 1)
    BY <1>M, <1>q DEF Known
  <2>3. Known' = N \cup AnchorsOf(x, n)
    BY <1>3, <1>7, <1>N, <1>n DEF Known, AnchorsOf
  <2> QED
    BY <1>A, <2>1, <2>2, <2>3
<1>17. Tip'
  <2>1. Keeps(N \cup A, (M \cup O) \cup A)
    BY <1>5, <1>11, KeepsMore
  <2>2. Known # {}
    <3>1. CASE k = "B"
      <4>1. M # {}
        BY <1>9, <3>1 DEF Fits
      <4> QED
        BY <1>16, <4>1
    <3>2. CASE k # "B"
      BY <1>16, <1>O, <3>2
    <3> QED
      BY <3>1, <3>2
  <2>3. PICK a \in Known : Latest(a, Known) /\ poc[a] = First - 1
    BY <2>2 DEF OrderInv, Tip
  <2>4. a \in N \cup A /\ N \cup A \subseteq Known
    BY <1>16, <2>1, <2>3 DEF Keeps
  <2>5. \A g \in N \cup A : g = a \/ poc[g] < poc[a]
    BY <2>3, <2>4 DEF Latest
  <2>6. Latest(a, Known)'
    BY <1>4, <1>16, <2>4, <2>5 DEF Latest
  <2>7. Known' # {} /\ a \in Known' /\ poc'[a] = First' - 1
    BY <1>4, <1>14, <1>16, <2>3, <2>4
  <2> QED
    BY <2>6, <2>7 DEF Tip
\* the DPB
<1>P. PICK P \in Seq(Made) : P = picList
  BY <1>5
<1>p. PICK l \in Nat : l = Len(P)
  OBVIOUS
<1>18. /\ Len(picList') = l + 1 /\ picList'[1] = f /\ picList' \in Seq(Made)
       /\ \A i \in 1 .. l : picList'[i + 1] = P[i] /\ P[i] \in Present /\ P[i] # f
  <2>1. /\ <<f>> \o P \in Seq(Made) /\ Len(<<f>> \o P) = Len(P) + 1
        /\ (<<f>> \o P)[1] = f
        /\ \A i \in 1 .. Len(P) : (<<f>> \o P)[i + 1] = P[i]
    BY AnchorsCons
  <2>2. \A i \in 1 .. l : P[i] \in Present
    BY <1>P, <1>p DEF Present, Range
  <2> QED
    BY <1>3, <1>6, <1>P, <1>p, <2>1, <2>2
<1>19. Marks' = N /\ N \subseteq M \cup O /\ f \notin M
  BY <1>3, <1>6, <1>11, <1>N
<1>20. Marks' \subseteq Present'
  <2>1. DOMAIN picList' = 1 .. l + 1
    BY <1>18
  <2>2. f \in Present'
    <3>1. 1 \in 1 .. l + 1
      OBVIOUS
    <3> QED
      BY <1>18, <2>1, <3>1 DEF Present, Range
  <2>3. Present \subseteq Present'
    <3> SUFFICES ASSUME NEW i \in 1 .. l PROVE P[i] \in Present'
      BY <1>P, <1>p DEF Present, Range
    <3>1. i + 1 \in 1 .. l + 1
      OBVIOUS
    <3> QED
      BY <1>18, <2>1, <3>1 DEF Present, Range
  <2> QED
    BY <1>11, <1>19, <1>O, <2>2, <2>3
<1>21. Sorted'
  <2> SUFFICES ASSUME NEW i \in 1 .. l + 1, NEW j \in 1 .. l + 1, i < j,
                      hasRef'[picList'[i]], hasRef'[picList'[j]]
               PROVE  poc[picList'[i]] > poc[picList'[j]]
    BY <1>4, <1>18 DEF Sorted
  <2>1. \A g \in Frames : hasRef'[g] => g \in N
    BY <1>19 DEF Marks
  <2>2. j - 1 \in 1 .. l /\ (j - 1) + 1 = j
    OBVIOUS
  <2>g. PICK g : g = P[j - 1]
    OBVIOUS
  <2>3. picList'[j] = g /\ g \in Present /\ g # f
    BY <1>18, <2>2, <2>g
  <2>4. g \in M
    BY <1>5, <1>19, <1>O, <2>1, <2>3
  <2>5. CASE i = 1
    <3>1. picList'[i] = f
      BY <1>18, <2>5
    <3>2. k # "B"
      BY <1>5, <1>19, <1>O, <2>1, <3>1
    <3>3. poc[g] < poc[f] /\ poc[g] \in Int /\ poc[f] \in Int
      BY <1>5, <1>9, <1>11, <2>4, <3>2 DEF Fits
    <3> QED
      BY <2>3, <3>1, <3>3
  <2>6. CASE i # 1
    <3>1. i - 1 \in 1 .. l /\ (i - 1) + 1 = i /\ i - 1 < j - 1
      BY <2>6
    <3>h. PICK h : h = P[i - 1]
      OBVIOUS
    <3>2. picList'[i] = h /\ h \in Present /\ h # f
      BY <1>18, <3>1, <3>h
    <3>3. h \in M
      BY <1>5, <1>19, <1>O, <2>1, <3>2
    <3>4. hasRef[h] /\ hasRef[g]
      BY <1>M, <2>4, <3>3 DEF Marks
    <3>5. poc[h] > poc[g]
      BY <1>P, <1>p, <2>2, <2>g, <3>1, <3>4, <3>h DEF OrderInv, Sorted
    <3> QED
      BY <2>3, <3>2, <3>5
  <2> QED
    BY <2>5, <2>6
<1>22. CraTop'
  <2> SUFFICES ASSUME pending' PROVE \E g \in N : Latest(g, N)' /\ poc[g] = cra'
    BY <1>4, <1>19 DEF CraTop, Latest
  <2>1. CASE k = "I" /\ poc[f] > 0
    <3>1. \A g \in N : g = f \/ poc[g] < poc[f]
      BY <1>9, <1>19, <1>O, <2>1 DEF Fits
    <3>2. f \in N
      BY <1>11, <1>O, <2>1
    <3>3. Latest(f, N)'
      BY <1>4, <3>1, <3>2 DEF Latest
    <3> QED
      BY <1>3, <2>1, <3>2, <3>3
  <2>2. CASE ~(k = "I" /\ poc[f] > 0)
    <3>1. pending /\ ~Refresh(f) /\ cra' = cra
      BY <1>3, <2>2
    <3>2. PICK g \in M : Latest(g, M) /\ poc[g] = cra
      BY <1>M, <3>1 DEF OrderInv, CraTop
    <3>3. ~(poc[f] > cra)
      BY <3>1 DEF Refresh
    <3>4. k = "B"
      <4> SUFFICES ASSUME k # "B" PROVE FALSE
        OBVIOUS
      <4>1. poc[g] < poc[f]
        BY <1>9 DEF Fits
      <4> QED
        BY <1>5, <3>2, <3>3, <4>1
    <3>5. N = R /\ g \in N /\ N \subseteq M
      BY <1>11, <1>O, <3>2, <3>4
    <3>6. Latest(g, N)'
      BY <1>4, <3>2, <3>5 DEF Latest
    <3> QED
      BY <3>1, <3>2, <3>5, <3>6
  <2> QED
    BY <2>1, <2>2
\* the references
<1>23. Rights'
  <2> SUFFICES ASSUME NEW e \in FEs, Needs(e)' PROVE Right(e)'
    BY DEF Rights, Needs
  <2>b. BFrames' = BFrames
    BY DEF BFrames
  <2>1. CASE e = cur
    <3>1. /\ kind'[e] = k /\ frame'[e] = f
          /\ refs'[e] = {<<g, poc[g]>> : g \in RefPics(f, k)}
      BY <1>3, <1>4, <1>5, <2>1
    <3>2. /\ k = "P" => \E g \in RefPics(f, k) :
                poc[g] < poc[f] /\ poc[f] - poc[g] <= BFrames + 1
          /\ k = "B" => \E g, h \in RefPics(f, k) :
                poc[g] < poc[f] /\ poc[f] < poc[h] /\ poc[h] - poc[g] <= BFrames + 1
      BY <1>10, StartRight
    <3>3. k = "P" => \E r \in refs'[e] : r[2] < poc[f] /\ poc[f] - r[2] <= BFrames + 1
      <4> SUFFICES ASSUME k = "P"
                   PROVE  \E r \in refs'[e] : r[2] < poc[f] /\ poc[f] - r[2] <= BFrames + 1
        OBVIOUS
      <4>1. PICK g \in RefPics(f, k) : poc[g] < poc[f] /\ poc[f] - poc[g] <= BFrames + 1
        BY <3>2
      <4>2. <<g, poc[g]>> \in refs'[e] /\ <<g, poc[g]>>[2] = poc[g]
        BY <3>1
      <4> QED
        BY <4>1, <4>2
    <3>4. k = "B" => \E r, s \in refs'[e] :
             r[2] < poc[f] /\ poc[f] < s[2] /\ s[2] - r[2] <= BFrames + 1
      <4> SUFFICES ASSUME k = "B"
                   PROVE  \E r, s \in refs'[e] :
                             r[2] < poc[f] /\ poc[f] < s[2] /\ s[2] - r[2] <= BFrames + 1
        OBVIOUS
      <4>1. PICK g \in RefPics(f, k), h \in RefPics(f, k) :
               poc[g] < poc[f] /\ poc[f] < poc[h] /\ poc[h] - poc[g] <= BFrames + 1
        BY <3>2
      <4>2. /\ <<g, poc[g]>> \in refs'[e] /\ <<g, poc[g]>>[2] = poc[g]
            /\ <<h, poc[h]>> \in refs'[e] /\ <<h, poc[h]>>[2] = poc[h]
        BY <3>1
      <4> QED
        BY <4>1, <4>2
    <3> QED
      BY <1>4, <2>b, <3>1, <3>3, <3>4 DEF Right
  <2>2. CASE e # cur
    <3>1. /\ kind'[e] = kind[e] /\ frame'[e] = frame[e] /\ refs'[e] = refs[e]
          /\ enable'[e] = enable[e] /\ fe'[e] = fe[e] /\ poc' = poc
      BY <1>3, <1>4, <1>5, <2>2
    <3>2. Right(e)
      BY <3>1 DEF OrderInv, Rights, Needs
    <3> QED
      BY <2>b, <3>1, <3>2 DEF Right
  <2> QED
    BY <2>1, <2>2
<1> QED
  BY <1>13, <1>15, <1>17, <1>20, <1>21, <1>22, <1>23 DEF OrderInv

LEMMA OrderStep == CountInv /\ OrderInv /\ [Next]_vars => OrderInv'
<1> SUFFICES ASSUME CountInv, OrderInv, [Next]_vars PROVE OrderInv'
  OBVIOUS
<1>p. UNCHANGED param
  BY DEF Next, Runs, vars
<1>1. CASE AddPicture
  BY <1>1, <1>p, OrderAdd
<1>2. CASE GetEncoded
  BY <1>2, <1>p, OrderGet
<1>3. CASE TakeDecided \/ PopUnlocked
  BY <1>3, <1>p, OrderTake
<1>4. CASE StartFrame
  BY <1>4, <1>p, OrderStart
<1>5. CASE \/ Flush \/ FindJob \/ AwaitOutput \/ NoFrame \/ Terminate \/ StopLookahead \/ Join
           \/ StopFrameEncoder
  BY <1>5, <1>p, OrderCalls
<1>6. ASSUME NEW e \in FEs, EncoderStep(e) PROVE OrderInv'
  BY <1>6, <1>p, OrderEncoder
<1>7. ASSUME NEW t \in Deciders, DeciderStep(t) PROVE OrderInv'
  <2>1. GoOnDeciding(t) /\ UNCHANGED <<param, pipe>>
    BY <1>7, <1>p DEF DeciderStep
  <2>2. CASE Choose(t)
    BY <2>1, <2>2, OrderChoose
  <2>3. CASE PushOutput(t)
    BY <2>1, <2>3, OrderPush
  <2>4. CASE LockOutput(t) \/ EndDecide(t)
    BY <2>1, <2>4, OrderBegins
  <2> QED
    BY <2>1, <2>2, <2>3, <2>4 DEF GoOnDeciding
<1>8. ASSUME NEW t \in Helpers, BeginDecide(t), UNCHANGED pipe PROVE OrderInv'
  BY <1>8, <1>p, OrderBegins DEF Deciders
<1>9. CASE UNCHANGED vars
  <2>1. UNCHANGED ordering /\ UNCHANGED <<frame, kind, refs, enable, fe>>
    BY <1>9 DEF vars, ordering, lookahead, queues, deciding, pipe, caller, buffer, lists, marks,
          picture, events
  <2>2. Rights'
    <3>1. Rights /\ UNCHANGED poc /\ \A e \in FEs : Needs(e)' => Needs(e)
      BY <2>1 DEF OrderInv, ordering, Needs
    <3> QED
      BY <1>p, <2>1, <3>1, RightsKept
  <2> QED
    BY <2>1, <2>2, OrderUntouched
<1> QED
  BY <1>1, <1>2, <1>3, <1>4, <1>5, <1>6, <1>7, <1>8, <1>9 DEF Next, ApiStep

\* A P picture finds a reference within the mini-GOP before it, and a B picture
\* one on either side ("B slice without L1 references", dpb.cpp:147, is never
\* logged), although the pictures are chosen by one thread, handed over by
\* another, and the lists of the DPB change while they are on their way.
THEOREM ReferencesAreRight == Spec => []RightReferences
<1>1. Spec => [](CountInv /\ OrderInv)
  <2>1. Init => CountInv /\ OrderInv
    BY CountInit, OrderInit
  <2>2. CountInv /\ OrderInv /\ [Next]_vars => (CountInv /\ OrderInv)'
    BY CountStep, OrderStep
  <2> QED
    BY <2>1, <2>2, PTL DEF Spec
<1>2. CountInv /\ OrderInv => RightReferences
  <2> SUFFICES ASSUME CountInv, OrderInv, NEW e \in Working, fe[e] \in {"rcStart", "row"}
               PROVE  LET p      == poc[frame[e]]
                          before == {r[2] : r \in {q \in refs[e] : q[2] < p}}
                          after  == {r[2] : r \in {q \in refs[e] : q[2] > p}}
                      IN /\ kind[e] = "P" => \E b \in before : p - b <= BFrames + 1
                         /\ kind[e] = "B" => \E b \in before, a \in after : a - b <= BFrames + 1
    BY DEF RightReferences
  <2> DEFINE p      == poc[frame[e]]
             before == {r[2] : r \in {q \in refs[e] : q[2] < p}}
             after  == {r[2] : r \in {q \in refs[e] : q[2] > p}}
  <2>1. Right(e)
    BY DEF OrderInv, Rights, Working
  <2>2. p \in Int /\ \A r \in refs[e] : r[2] \in Int
    <3>1. /\ e \in FEs /\ frame[e] \in Made /\ Made \subseteq Frames /\ poc \in [Frames -> Int]
          /\ refs \in [FEs -> SUBSET (Made \X Int)]
      BY AllMade DEF Working, CountInv, RateInv, ListInv, ListTypes
    <3> QED
      BY <3>1
  <2>3. kind[e] = "P" => \E b \in before : p - b <= BFrames + 1
    BY <2>1 DEF Right
  <2>4. kind[e] = "B" => \E b \in before, a \in after : a - b <= BFrames + 1
    <3> SUFFICES ASSUME kind[e] = "B" PROVE \E b \in before, a \in after : a - b <= BFrames + 1
      OBVIOUS
    <3>1. PICK r \in refs[e], s \in refs[e] : r[2] < p /\ p < s[2] /\ s[2] - r[2] <= BFrames + 1
      BY <2>1 DEF Right
    <3>2. r[2] \in before /\ s[2] \in after
      BY <2>2, <3>1
    <3> QED
      BY <3>1, <3>2
  <2> QED
    BY <2>3, <2>4
<1> QED
  BY <1>1, <1>2, PTL
=============================================================================
