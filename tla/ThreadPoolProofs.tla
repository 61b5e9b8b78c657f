-------------------------- MODULE ThreadPoolProofs --------------------------
(***************************************************************************)
(* For every pool, every set of providers with any jobs and priorities,    *)
(* and groups of any size: a worker is in one pair of hands, and no worker *)
(* stays behind in a bonded group that is closed.                          *)
(***************************************************************************)
EXTENDS ThreadPool, FiniteSetTheorems, TLAPS

-----------------------------------------------------------------------------
(* The inductive invariant *)

Holds(c, w) == call[c] = "got" /\ cand[c] = w
Free(w) == pc[w] = "asleep" /\ wake[w] = 0

\* Who has acquired a worker has it alone, and it sleeps without its bit; a
\* wake-up is on its way only to a worker that waits for it or has ended; a
\* worker whose bit is set, and that stopWorkers() did not wake yet, is idle.
Hands ==
    /\ \A c \in Callers : call[c] = "got" => cand[c] \in Workers
    /\ \A c, d \in Callers : call[c] = "got" /\ call[d] = "got" /\ cand[c] = cand[d] => c = d
    /\ \A c \in Callers, w \in Workers : Holds(c, w) => Free(w) /\ w \notin sleep
    /\ \A w \in Workers : wake[w] = 1 => pc[w] \in {"asleep", "ended"}
    /\ \A w \in sleep \cap stopping : wake[w] = 0 /\ pc[w] \in {"asleep", "ended"}
    /\ active => \A w \in Workers : pc[w] \notin {"exit", "ended"}

\* Only a master that bonds peers acquires workers; and nobody does once the
\* pool is stopped, which is when all jobs are done.
Acquirers ==
    /\ \A w \in Workers : call[w] # "idle" <=> pc[w] = "bonding"
    /\ active => stopping = Workers
    /\ ~ active => AllDone /\ \A c \in Callers : call[c] = "idle"

\* Where the jobs of a provider are.
JobSteps == {"job", "bonding", "own", "ownTask", "wait", "finish"}
DoingJob(p) == {w \in Workers : cur[w] = p /\ pc[w] \in JobSteps}
JobsAccounted ==
    \A p \in Providers :
        unposted[p] + jobs[p] + done[p] + Cardinality(DoingJob(p)) = JobsOf[p]

\* A bonded worker is on its way to its group or in it, and its group has a
\* master that did not return from waitForExit().
MasterSteps == {"bonding", "own", "ownTask", "wait"}
PeerSteps == {"peer", "peerTask", "leave"}
Bonds ==
    /\ \A w \in Workers : bond[w] # None =>
          /\ pc[bond[w]] \in MasterSteps
          /\ pc[w] \in PeerSteps \/ (pc[w] = "asleep" /\ wake[w] = 1)
    /\ \A w \in Workers : pc[w] \in PeerSteps => bond[w] # None

\* The peers and the tasks of a group are counted.
Peers(m) == {w \in Workers : bond[w] = m}
InTask(m) == {w \in Workers : \/ w = m /\ pc[w] = "ownTask"
                              \/ bond[w] = m /\ pc[w] = "peerTask"}
Counted(m) ==
    LET g == group[m] IN
    /\ pc[m] \in MasterSteps =>
          /\ g.open
          /\ g.count = g.exited + Cardinality(Peers(m))
          /\ g.acquired = g.finished + Cardinality(InTask(m))
    /\ call[m] \in {"first", "second", "got"} => g.count < MaxPeers
    /\ pc[m] \in {"own", "ownTask", "wait"} => g.bonded = g.count
    /\ pc[m] = "wait" => g.acquired = Tasks
    /\ pc[m] = "finish" => g.finished = Tasks
Counts == \A m \in Workers : Counted(m)

IInv == TypeOK /\ Hands /\ Acquirers /\ JobsAccounted /\ Bonds /\ Counts

-----------------------------------------------------------------------------
(* Lemmas *)

LEMMA Cards ==
    ASSUME NEW S \in SUBSET Workers
    PROVE  /\ Cardinality(S) \in Nat
           /\ S = {} <=> Cardinality(S) = 0
           /\ \A w \in Workers \ S : Cardinality(S \cup {w}) = Cardinality(S) + 1
           /\ \A w \in S : Cardinality(S \ {w}) = Cardinality(S) - 1
<1>1. IsFiniteSet(S)
  BY PoolAssumption, FS_Subset
<1> QED
  BY <1>1, FS_CardinalityType, FS_EmptySet, FS_AddElement, FS_RemoveElement

LEMMA FirstProvider == First \in Providers
BY PoolAssumption DEF First

-----------------------------------------------------------------------------
(* Jobs *)

LEMMA JobsStep == ASSUME IInv, [Next]_vars PROVE JobsAccounted'
<1> USE DEF Goto
<1>t. /\ unposted \in [Providers -> Nat] /\ jobs \in [Providers -> Nat]
      /\ done \in [Providers -> Nat] /\ cur \in [Workers -> Providers]
      /\ pc \in [Workers -> MainSteps] /\ Hands /\ JobsAccounted
      /\ call \in [Callers -> CallSteps]
  BY DEF IInv, TypeOK
<1>c. \A p \in Providers : Cardinality(DoingJob(p)) \in Nat
  BY Cards DEF DoingJob
<1> DEFINE Same == UNCHANGED work /\ \A p \in Providers : DoingJob(p)' = DoingJob(p)
<1>0. Same => JobsAccounted'
  BY <1>t DEF JobsAccounted, work
<1>1. ASSUME NEW c \in Callers, Acquire(c) PROVE Same
  BY <1>t, <1>1 DEF Acquire, Look, LookFails, Grab, DoingJob, assigned
<1>2. ASSUME NEW p \in Providers, Provider(p) \/ Retry(p) PROVE JobsAccounted'
  <2>1. CASE OfferJob(p)
    <3>1. \A q \in Providers : DoingJob(q)' = DoingJob(q)
      BY <1>t, <2>1 DEF OfferJob, DoingJob, assigned
    <3>2. \A q \in Providers : unposted'[q] + jobs'[q] + done'[q] = unposted[q] + jobs[q] + done[q]
      BY <1>t, <2>1 DEF OfferJob
    <3> QED
      BY <1>t, <1>c, <3>1, <3>2 DEF JobsAccounted
  <2>2. CASE WakeOne(p)
    <3>1. Same
      BY <1>t, <2>2 DEF WakeOne, Return, Awaken, DoingJob, JobSteps, Hands, Holds, Free, Callers
    <3> QED
      BY <1>0, <3>1
  <2>3. CASE WakeNone(p) \/ Retry(p)
    <3>1. Same
      BY <1>t, <2>3 DEF WakeNone, Retry, Return, DoingJob, assigned
    <3> QED
      BY <1>0, <3>1
  <2> QED
    BY <1>2, <2>1, <2>2, <2>3 DEF Provider
<1>3. ASSUME NEW w \in Workers, Master(w) \/ OpenGroup(w) PROVE Same
  <2>1. CASE OpenGroup(w)
    BY <1>t, <2>1 DEF OpenGroup, DoingJob, JobSteps, assigned
  <2>2. CASE BondPeer(w)
    BY <1>t, <2>2 DEF BondPeer, DoingJob
  <2>3. CASE BondEnd(w)
    BY <1>t, <2>3 DEF BondEnd, DoingJob, JobSteps, assigned
  <2>4. CASE CloseGroup(w)
    BY <1>t, <2>4 DEF CloseGroup, DoingJob, JobSteps, assigned
  <2> QED
    BY <1>3, <2>1, <2>2, <2>3, <2>4 DEF Master
<1>4. ASSUME NEW w \in Workers, Task(w) PROVE Same
  <2>1. CASE TakeTask(w)
    BY <1>t, <2>1 DEF TakeTask, DoingJob, JobSteps, assigned
  <2>2. CASE FinishTask(w)
    BY <1>t, <2>2 DEF FinishTask, DoingJob, JobSteps, assigned
  <2>3. CASE NoTaskLeft(w)
    BY <1>t, <2>3 DEF NoTaskLeft, DoingJob, JobSteps, assigned
  <2>4. CASE ExitPeer(w)
    BY <1>t, <2>4 DEF ExitPeer, DoingJob, JobSteps
  <2> QED
    BY <1>4, <2>1, <2>2, <2>3, <2>4 DEF Task
<1>5. ASSUME NEW w \in Workers, Main(w) PROVE JobsAccounted'
  <2>1. CASE FindJob(w)
    <3>1. /\ \A q \in Providers \ {cur[w]} : DoingJob(q)' = DoingJob(q)
          /\ \A q \in {cur[w]} : DoingJob(q)' = DoingJob(q) \cup {w}
          /\ w \notin DoingJob(cur[w])
      BY <1>t, <2>1 DEF FindJob, DoingJob, JobSteps, assigned
    <3>2. Cardinality(DoingJob(cur[w]) \cup {w}) = Cardinality(DoingJob(cur[w])) + 1
      BY <3>1, Cards DEF DoingJob
    <3>3. \A q \in Providers : unposted'[q] + jobs'[q] + done'[q] =
             unposted[q] + jobs[q] + done[q] - (IF q = cur[w] THEN 1 ELSE 0)
      BY <1>t, <2>1 DEF FindJob
    <3>4. \A q \in Providers : Cardinality(DoingJob(q)') =
             Cardinality(DoingJob(q)) + (IF q = cur[w] THEN 1 ELSE 0)
      <4> SUFFICES ASSUME NEW q \in Providers PROVE Cardinality(DoingJob(q)') =
                 Cardinality(DoingJob(q)) + (IF q = cur[w] THEN 1 ELSE 0)
        OBVIOUS
      <4>1. CASE q = cur[w]
        BY <3>1, <3>2, <4>1
      <4>2. CASE q # cur[w]
        BY <1>c, <3>1, <4>2
      <4> QED
        BY <4>1, <4>2
    <3> QED
      BY <1>t, <1>c, <3>3, <3>4 DEF JobsAccounted
  <2>2. CASE FinishJob(w)
    <3>1. /\ \A q \in Providers \ {cur[w]} : DoingJob(q)' = DoingJob(q)
          /\ \A q \in {cur[w]} : DoingJob(q)' = DoingJob(q) \ {w}
          /\ w \in DoingJob(cur[w])
      BY <1>t, <2>2 DEF FinishJob, DoingJob, JobSteps, assigned
    <3>2. Cardinality(DoingJob(cur[w]) \ {w}) = Cardinality(DoingJob(cur[w])) - 1
      BY <3>1, Cards DEF DoingJob
    <3>3. \A q \in Providers : unposted'[q] + jobs'[q] + done'[q] =
             unposted[q] + jobs[q] + done[q] + (IF q = cur[w] THEN 1 ELSE 0)
      BY <1>t, <2>2 DEF FinishJob
    <3>4. \A q \in Providers : Cardinality(DoingJob(q)') =
             Cardinality(DoingJob(q)) - (IF q = cur[w] THEN 1 ELSE 0)
      <4> SUFFICES ASSUME NEW q \in Providers PROVE Cardinality(DoingJob(q)') =
                 Cardinality(DoingJob(q)) - (IF q = cur[w] THEN 1 ELSE 0)
        OBVIOUS
      <4>1. CASE q = cur[w]
        BY <3>1, <3>2, <4>1
      <4>2. CASE q # cur[w]
        BY <1>c, <3>1, <4>2
      <4> QED
        BY <4>1, <4>2
    <3> QED
      BY <1>t, <1>c, <3>3, <3>4 DEF JobsAccounted
  <2>3. CASE Start(w) \/ Doze(w) \/ WakeUp(w) \/ FindNone(w) \/ ClearHelp(w) \/ Loop(w) \/ Exit(w)
    <3>1. Same
      BY <1>t, <2>3 DEF Start, Doze, WakeUp, FindNone, ClearHelp, Loop, Exit, DoingJob, JobSteps, assigned
    <3> QED
      BY <1>0, <3>1
  <2>4. CASE Switch(w)
    <3>1. Same
      <4>1. cur' \in [Workers -> Providers] /\ pc[w] = "switch"
            /\ pc' = [pc EXCEPT ![w] = "loop"] /\ UNCHANGED work
            /\ \A v \in Workers \ {w} : cur'[v] = cur[v]
        BY <1>t, <2>4 DEF Switch, Preferred
      <4>2. pc[w] \notin JobSteps /\ pc'[w] \notin JobSteps
            /\ \A v \in Workers \ {w} : cur'[v] = cur[v] /\ pc'[v] = pc[v]
        BY <1>t, <4>1 DEF JobSteps
      <4> QED
        BY <4>1, <4>2 DEF DoingJob
    <3> QED
      BY <1>0, <3>1
  <2> QED
    BY <1>5, <2>1, <2>2, <2>3, <2>4 DEF Main
<1>6. CASE Stop
  <2>1. Same
    BY <1>6 DEF Stop, StopPool, StopWorker, DoingJob, assigned
  <2> QED
    BY <1>0, <2>1
<1>7. CASE UNCHANGED vars
  <2>1. Same
    BY <1>7 DEF vars, assigned, DoingJob
  <2> QED
    BY <1>0, <2>1
<1> QED
  BY <1>0, <1>1, <1>2, <1>3, <1>4, <1>5, <1>6, <1>7 DEF Next, Worker, Callers
\* Once all jobs are done nobody has one, and no master bonds peers.
LEMMA NothingLeft ==
    ASSUME IInv, AllDone
    PROVE  /\ \A p \in Providers : unposted[p] = 0 /\ jobs[p] = 0 /\ done[p] = JobsOf[p]
           /\ \A w \in Workers : pc[w] \notin JobSteps /\ call[w] = "idle"
<1>1. /\ unposted \in [Providers -> Nat] /\ jobs \in [Providers -> Nat]
      /\ cur \in [Workers -> Providers]
  BY DEF IInv, TypeOK
<1>2. \A p \in Providers : Cardinality(DoingJob(p)) \in Nat
  BY Cards DEF DoingJob
<1>3. \A p \in Providers : /\ unposted[p] = 0 /\ jobs[p] = 0 /\ done[p] = JobsOf[p]
                           /\ Cardinality(DoingJob(p)) = 0
  <2> SUFFICES ASSUME NEW p \in Providers
               PROVE  /\ unposted[p] = 0 /\ jobs[p] = 0 /\ done[p] = JobsOf[p]
                      /\ Cardinality(DoingJob(p)) = 0
    OBVIOUS
  <2>1. /\ unposted[p] \in Nat /\ jobs[p] \in Nat /\ Cardinality(DoingJob(p)) \in Nat
        /\ JobsOf[p] \in Nat /\ done[p] = JobsOf[p]
    BY <1>1, <1>2, JobsAssumption DEF AllDone
  <2>2. unposted[p] + jobs[p] + done[p] + Cardinality(DoingJob(p)) = JobsOf[p]
    BY DEF IInv, JobsAccounted
  <2> HIDE DEF AllDone
  <2> QED
    BY <2>1, <2>2
<1>4. \A p \in Providers : DoingJob(p) = {}
  BY <1>3, Cards DEF DoingJob
<1>5. \A w \in Workers : pc[w] \notin JobSteps
  BY <1>1, <1>4 DEF DoingJob
<1> QED
  BY <1>3, <1>5 DEF IInv, Acquirers, JobSteps

LEMMA AcquirersStep == ASSUME IInv, [Next]_vars PROVE Acquirers'
<1> USE DEF Goto, Call, Return
<1>t. /\ cur \in [Workers -> Providers]
      /\ pc \in [Workers -> MainSteps] /\ call \in [Callers -> CallSteps]
      /\ Acquirers /\ Workers \cap Providers = {} /\ Callers = Workers \cup Providers
  BY NamesAssumption DEF IInv, TypeOK, Callers
<1>n. ~ active => /\ \A p \in Providers : unposted[p] = 0 /\ jobs[p] = 0 /\ done[p] = JobsOf[p]
                  /\ \A w \in Workers : pc[w] \notin JobSteps
  BY NothingLeft DEF IInv, Acquirers
<1>1. ASSUME NEW c \in Callers, Acquire(c) PROVE Acquirers'
  BY <1>t, <1>1 DEF Acquire, Look, LookFails, Grab, Acquirers, AllDone, work
<1>2. ASSUME NEW p \in Providers, Provider(p) \/ Retry(p) PROVE Acquirers'
  <2>1. /\ UNCHANGED <<active, pc, stopping>>
        /\ \A w \in Workers : call'[w] = call[w]
    BY <1>t, <1>2 DEF Provider, OfferJob, WakeOne, WakeNone, Retry
  <2>2. active
    <3>1. CASE OfferJob(p)
      BY <1>t, <1>n, <3>1 DEF OfferJob
    <3>2. CASE WakeOne(p) \/ WakeNone(p)
      BY <1>t, <3>2 DEF WakeOne, WakeNone, Acquirers
    <3>3. CASE Retry(p)
      BY <1>n, <3>3, JobsAssumption DEF Retry, TimedOut
    <3> QED
      BY <1>2, <3>1, <3>2, <3>3 DEF Provider
  <2> QED
    BY <1>t, <2>1, <2>2 DEF Acquirers
<1>3. ASSUME NEW w \in Workers, Master(w) \/ OpenGroup(w) PROVE Acquirers'
  <2>1. active /\ active' /\ UNCHANGED stopping
    BY <1>n, <1>3 DEF Master, OpenGroup, BondPeer, BondEnd, CloseGroup, JobSteps
  <2>2. CASE OpenGroup(w)
    BY <1>t, <2>1, <2>2 DEF OpenGroup, Acquirers
  <2>3. CASE BondPeer(w)
    <3>1. /\ pc' = pc /\ call[w] = "got" /\ call'[w] # "idle"
          /\ \A c \in Callers \ {w} : call'[c] = call[c]
      BY <1>t, <2>3 DEF BondPeer
    <3> QED
      BY <1>t, <2>1, <3>1 DEF Acquirers
  <2>4. CASE BondEnd(w)
    BY <1>t, <2>1, <2>4 DEF BondEnd, Acquirers
  <2>5. CASE CloseGroup(w)
    BY <1>t, <2>1, <2>5 DEF CloseGroup, Acquirers, calls, MasterSteps
  <2> QED
    BY <1>3, <2>2, <2>3, <2>4, <2>5 DEF Master
<1>4. ASSUME NEW w \in Workers, Task(w) PROVE Acquirers'
  <2>0. /\ UNCHANGED <<active, stopping, call, done>>
        /\ pc'[w] # "bonding" /\ pc[w] # "bonding" /\ \A v \in Workers \ {w} : pc'[v] = pc[v]
    BY <1>t, <1>4 DEF Task, TakeTask, FinishTask, NoTaskLeft, ExitPeer, calls, work
  <2>1. Acquirers'
    BY <1>t, <2>0 DEF Acquirers, AllDone
  <2> QED
    BY <2>1
<1>5. ASSUME NEW w \in Workers, Main(w) PROVE Acquirers'
  <2>1. CASE FindJob(w) \/ FinishJob(w)
    <3>1. active
      <4>1. CASE FindJob(w)
        BY <1>t, <1>n, <4>1 DEF FindJob
      <4>2. CASE FinishJob(w)
        BY <1>n, <4>2 DEF FinishJob, JobSteps
      <4> QED
        BY <2>1, <4>1, <4>2
    <3> QED
      BY <1>t, <2>1, <3>1 DEF FindJob, FinishJob, Acquirers, calls
  <2>2. CASE Start(w) \/ Doze(w) \/ WakeUp(w) \/ Exit(w)
    BY <1>t, <2>2 DEF Start, Doze, WakeUp, Exit, Acquirers, AllDone, calls, work
  <2>3. CASE FindNone(w) \/ ClearHelp(w) \/ Loop(w) \/ Switch(w)
    BY <1>t, <2>3 DEF FindNone, ClearHelp, Loop, Switch, Acquirers, AllDone, calls, work
  <2> QED
    BY <1>5, <2>1, <2>2, <2>3 DEF Main
<1>6. CASE Stop
  <2>1. CASE StopPool
    BY <1>t, <2>1, NothingLeft DEF StopPool, Acquirers, AllDone, calls, work
  <2>2. ASSUME NEW w \in Workers, StopWorker(w) PROVE Acquirers'
    BY <1>t, <2>2 DEF StopWorker, Acquirers, AllDone, calls, work
  <2> QED
    BY <1>6, <2>1, <2>2 DEF Stop
<1>7. CASE UNCHANGED vars
  BY <1>t, <1>7 DEF vars, Acquirers, AllDone, calls, work
<1> QED
  BY <1>1, <1>2, <1>3, <1>4, <1>5, <1>6, <1>7 DEF Next, Worker, Callers

LEMMA HandsStep == ASSUME IInv, [Next]_vars PROVE Hands'
<1> USE DEF Goto, Call, Return, Awaken
<1>t. /\ pc \in [Workers -> MainSteps] /\ call \in [Callers -> CallSteps]
      /\ cand \in [Callers -> Workers \cup {None}] /\ wake \in [Workers -> {0, 1}]
      /\ sleep \subseteq Workers /\ stopping \subseteq Workers
      /\ Hands /\ Acquirers /\ Workers \cap Providers = {} /\ Callers = Workers \cup Providers
      /\ \A c \in Callers : call[c] # "idle" => active /\ stopping = Workers
  BY NamesAssumption DEF IInv, TypeOK, Callers, Acquirers
\* a caller that got a worker wakes it
<1>w. ASSUME NEW c \in Callers, NEW w \in Workers, Holds(c, w), wake' = [wake EXCEPT ![w] = @ + 1],
             UNCHANGED <<active, sleep, stopping, pc>>, NEW l, l # "got",
             call' = [call EXCEPT ![c] = l], cand' = [cand EXCEPT ![c] = None]
      PROVE  Hands'
  BY <1>t, <1>w DEF Hands, Holds, Free
\* a worker that is awake, and in no hand, goes on
<1>s. ASSUME NEW w \in Workers, pc[w] \notin {"asleep", "ended"}, NEW l, l \notin {"exit", "ended"},
             pc' = [pc EXCEPT ![w] = l], UNCHANGED <<active, sleep, wake, stopping>>,
             \A c \in Callers : call'[c] = "got" <=> call[c] = "got",
             \A c \in Callers : call[c] = "got" => cand'[c] = cand[c]
      PROVE  Hands'
  BY <1>t, <1>s DEF Hands, Holds, Free
<1>1. ASSUME NEW c \in Callers, Acquire(c) PROVE Hands'
  <2>1. CASE Look(c)
    BY <1>t, <2>1 DEF Look, Hands, Holds, Free, bits
  <2>2. CASE LookFails(c)
    BY <1>t, <2>2 DEF LookFails, Hands, Holds, Free, bits
  <2>3. CASE Grab(c)
    <3>1. /\ active /\ stopping = Workers /\ UNCHANGED <<active, wake, pc, stopping>>
          /\ cand[c] \in Workers /\ call[c] # "got" /\ sleep' = sleep \ {cand[c]}
      BY <1>t, <2>3 DEF Grab
    <3>2. CASE WasSet(cand[c])
      <4>1. Free(cand[c]) /\ call' = [call EXCEPT ![c] = "got"] /\ cand' = cand
        BY <1>t, <2>3, <3>1, <3>2 DEF Grab, WasSet, Hands, Free
      <4>2. cand[c] \in sleep
        BY <3>2 DEF WasSet
      <4> QED
        BY <1>t, <3>1, <4>1, <4>2 DEF Hands, Holds, Free
    <3>3. CASE ~ WasSet(cand[c])
      <4>1. cand' = [cand EXCEPT ![c] = None] /\ call' = call
        BY <2>3, <3>3 DEF Grab
      <4> QED
        BY <1>t, <3>1, <4>1 DEF Hands, Holds, Free
    <3> QED
      BY <3>2, <3>3
  <2> QED
    BY <1>1, <2>1, <2>2, <2>3 DEF Acquire
<1>2. ASSUME NEW p \in Providers, Provider(p) \/ Retry(p) PROVE Hands'
  <2>1. CASE OfferJob(p) \/ Retry(p)
    BY <1>t, <2>1 DEF OfferJob, Retry, Hands, Holds, Free, bits
  <2>2. CASE WakeOne(p)
    BY <1>t, <1>w, <2>2 DEF WakeOne, Holds, Hands
  <2>3. CASE WakeNone(p)
    BY <1>t, <2>3 DEF WakeNone, Hands, Holds, Free, bits
  <2> QED
    BY <1>2, <2>1, <2>2, <2>3 DEF Provider
<1>3. ASSUME NEW w \in Workers, Master(w) \/ OpenGroup(w) PROVE Hands'
  <2>1. CASE OpenGroup(w)
    BY <1>t, <1>s, <2>1 DEF OpenGroup, bits, Acquirers
  <2>2. CASE BondPeer(w)
    <3>1. PICK l \in {"first", "failed"} :
            call' = [call EXCEPT ![w] = l] /\ cand' = [cand EXCEPT ![w] = None]
      BY <2>2 DEF BondPeer
    <3> QED
      BY <1>t, <1>w, <2>2, <3>1 DEF BondPeer, Holds, Hands
  <2>3. CASE BondEnd(w)
    BY <1>t, <1>s, <2>3 DEF BondEnd, bits
  <2>4. CASE CloseGroup(w)
    BY <1>t, <1>s, <2>4 DEF CloseGroup, bits, calls
  <2> QED
    BY <1>3, <2>1, <2>2, <2>3, <2>4 DEF Master
<1>4. ASSUME NEW w \in Workers, Task(w) PROVE Hands'
  BY <1>s, <1>4 DEF Task, TakeTask, FinishTask, NoTaskLeft, ExitPeer, bits, calls
<1>5. ASSUME NEW w \in Workers, Main(w) PROVE Hands'
  <2>1. CASE FindJob(w) \/ FinishJob(w) \/ FindNone(w) \/ ClearHelp(w) \/ Switch(w) \/ Loop(w)
    BY <1>s, <2>1 DEF FindJob, FinishJob, FindNone, ClearHelp, Switch, Loop, bits, calls
  <2>2. CASE Start(w) \/ Doze(w)
    BY <1>t, <2>2 DEF Start, Doze, Hands, Holds, Free, calls
  <2>3. CASE WakeUp(w)
    BY <1>t, <2>3 DEF WakeUp, Hands, Holds, Free, calls
  <2>4. CASE Exit(w)
    BY <1>t, <2>4 DEF Exit, ExitBit, Hands, Holds, Free, calls
  <2> QED
    BY <1>5, <2>1, <2>2, <2>3, <2>4 DEF Main
<1>6. CASE Stop
  <2>1. CASE StopPool
    BY <1>t, <2>1 DEF StopPool, Hands, Holds, Free, bits, calls
  <2>2. ASSUME NEW w \in Workers, StopWorker(w) PROVE Hands'
    BY <1>t, <2>2 DEF StopWorker, Hands, Holds, Free, calls
  <2> QED
    BY <1>6, <2>1, <2>2 DEF Stop
<1>7. CASE UNCHANGED vars
  BY <1>t, <1>7 DEF vars, Hands, Holds, Free, bits, calls
<1> QED
  BY <1>1, <1>2, <1>3, <1>4, <1>5, <1>6, <1>7 DEF Next, Worker, Callers

-----------------------------------------------------------------------------
(* Bonded groups *)

\* waitForExit() returns when no peer is left, and then all tasks are done.
LEMMA ExitMeansNone ==
    ASSUME IInv, NEW m \in Workers, pc[m] = "wait", AllExited(group[m])
    PROVE  Peers(m) = {} /\ group[m].finished = Tasks
<1>1. /\ group[m].count = group[m].exited + Cardinality(Peers(m))
      /\ group[m].acquired = group[m].finished + Cardinality(InTask(m))
      /\ group[m].bonded = group[m].count /\ group[m].acquired = Tasks
      /\ group[m].bonded = group[m].exited
  BY DEF IInv, Counts, Counted, MasterSteps, AllExited
<1>2. group[m].exited \in Nat /\ group[m].finished \in Nat
  BY DEF IInv, TypeOK, GroupType
<1>3. Peers(m) = {}
  <2>1. Cardinality(Peers(m)) \in Nat /\ (Peers(m) = {} <=> Cardinality(Peers(m)) = 0)
    BY Cards DEF Peers
  <2> QED
    BY <1>1, <1>2, <2>1
<1>4. InTask(m) = {}
  BY <1>3 DEF InTask, Peers
<1>5. Cardinality(InTask(m)) = 0
  BY <1>4, Cards DEF InTask
<1> QED
  BY <1>1, <1>2, <1>3, <1>5

LEMMA BondsStep == ASSUME IInv, [Next]_vars PROVE Bonds'
<1> USE NamesAssumption DEF Goto, Call, Return, Awaken
<1>t. /\ pc \in [Workers -> MainSteps] /\ wake \in [Workers -> {0, 1}]
      /\ bond \in [Workers -> Workers \cup {None}] /\ Bonds
  BY DEF IInv, TypeOK
<1>n. ~ active => \A w \in Workers : pc[w] \notin MasterSteps /\ bond[w] = None
  <2> SUFFICES ASSUME ~ active
               PROVE  \A w \in Workers : pc[w] \notin MasterSteps /\ bond[w] = None
    OBVIOUS
  <2>1. \A w \in Workers : pc[w] \notin JobSteps
    BY NothingLeft DEF IInv, Acquirers
  <2>2. \A w \in Workers : pc[w] \notin MasterSteps
    BY <2>1 DEF MasterSteps, JobSteps
  <2> QED
    BY <1>t, <2>2 DEF Bonds
\* a worker that is neither a master nor a peer goes on
<1>s. ASSUME NEW w \in Workers, pc[w] \notin MasterSteps \cup PeerSteps \cup {"asleep"},
             NEW l, l \notin PeerSteps, pc' = [pc EXCEPT ![w] = l], UNCHANGED <<bond, wake>>
      PROVE  Bonds'
  BY <1>t, <1>s DEF Bonds, PeerSteps, MasterSteps
<1>u. ASSUME UNCHANGED <<bond, wake, pc>> PROVE Bonds'
  BY <1>t, <1>u DEF Bonds
<1>f. ASSUME NEW w \in Workers, Free(w) PROVE bond[w] = None
  <2>1. pc[w] = "asleep" /\ wake[w] # 1 /\ pc[w] \notin PeerSteps
    BY <1>f DEF Free, PeerSteps
  <2> QED
    BY <1>t, <2>1 DEF Bonds
<1>1. ASSUME NEW c \in Callers, Acquire(c) PROVE Bonds'
  BY <1>u, <1>1 DEF Acquire, Look, LookFails, Grab, assigned, bits
<1>2. ASSUME NEW p \in Providers, Provider(p) \/ Retry(p) PROVE Bonds'
  <2>1. CASE WakeOne(p)
    <3>1. Free(cand[p]) /\ cand[p] \in Workers
      BY <2>1 DEF WakeOne, IInv, Hands, Holds, Callers
    <3>2. /\ wake' = [wake EXCEPT ![cand[p]] = wake[cand[p]] + 1]
          /\ UNCHANGED <<pc, bond>>
      BY <2>1 DEF WakeOne
    <3>3. \A v \in Workers : bond[v] # None => wake'[v] = wake[v]
      BY <1>t, <1>f, <3>1, <3>2
    <3> QED
      BY <1>t, <3>2, <3>3 DEF Bonds
  <2>2. CASE OfferJob(p) \/ WakeNone(p) \/ Retry(p)
    BY <1>u, <2>2 DEF OfferJob, WakeNone, Retry, assigned, bits
  <2> QED
    BY <1>2, <2>1, <2>2 DEF Provider
<1>3. ASSUME NEW w \in Workers, Master(w) \/ OpenGroup(w) PROVE Bonds'
  <2>1. CASE OpenGroup(w)
    BY <1>s, <2>1 DEF OpenGroup, bits, assigned, MasterSteps, PeerSteps
  <2>2. CASE BondPeer(w)
    <3>1. Free(cand[w]) /\ cand[w] \in Workers /\ cand[w] # w
      BY <2>2 DEF BondPeer, IInv, Hands, Holds, Callers, Free
    <3>2. /\ wake' = [wake EXCEPT ![cand[w]] = wake[cand[w]] + 1]
          /\ bond' = [bond EXCEPT ![cand[w]] = w]
          /\ pc' = pc /\ pc[w] = "bonding"
      BY <2>2 DEF BondPeer
    <3>3. \A v \in Workers \ {cand[w]} : bond'[v] = bond[v] /\ wake'[v] = wake[v]
      BY <1>t, <3>1, <3>2
    <3>4. bond'[cand[w]] = w /\ wake'[cand[w]] = 1 /\ pc[cand[w]] = "asleep"
      BY <1>t, <3>1, <3>2 DEF Free
    <3> QED
      BY <1>t, <3>2, <3>3, <3>4 DEF Bonds, PeerSteps, MasterSteps
  <2>3. CASE BondEnd(w)
    BY <1>t, <2>3 DEF BondEnd, bits, assigned, Bonds, MasterSteps, PeerSteps
  <2>4. CASE CloseGroup(w)
    <3>1. \A v \in Workers : bond[v] # w
      BY <2>4, ExitMeansNone DEF CloseGroup, Peers
    <3> QED
      BY <1>t, <2>4, <3>1 DEF CloseGroup, bits, assigned, Bonds, MasterSteps, PeerSteps
  <2> QED
    BY <1>3, <2>1, <2>2, <2>3, <2>4 DEF Master
<1>4. ASSUME NEW w \in Workers, Task(w) PROVE Bonds'
  <2>1. CASE TakeTask(w)
    BY <1>t, <2>1 DEF TakeTask, bits, assigned, Bonds, MasterSteps, PeerSteps
  <2>2. CASE FinishTask(w)
    <3>1. CASE pc[w] = "ownTask"
      <4>1. pc' = [pc EXCEPT ![w] = "own"] /\ UNCHANGED <<bond, wake>>
        BY <2>2, <3>1 DEF FinishTask, bits, assigned
      <4>2. /\ \A v \in Workers : pc[v] \in MasterSteps <=> pc'[v] \in MasterSteps
            /\ \A v \in Workers : pc[v] \in PeerSteps <=> pc'[v] \in PeerSteps
            /\ \A v \in Workers : pc[v] = "asleep" => pc'[v] = "asleep"
        BY <1>t, <3>1, <4>1 DEF MasterSteps, PeerSteps
      <4> QED
        BY <1>t, <4>1, <4>2 DEF Bonds
    <3>2. CASE pc[w] = "peerTask"
      <4>1. pc' = [pc EXCEPT ![w] = "peer"] /\ UNCHANGED <<bond, wake>>
        BY <2>2, <3>2 DEF FinishTask, bits, assigned
      <4>2. /\ \A v \in Workers : pc[v] \in MasterSteps <=> pc'[v] \in MasterSteps
            /\ \A v \in Workers : pc[v] \in PeerSteps <=> pc'[v] \in PeerSteps
            /\ \A v \in Workers : pc[v] = "asleep" => pc'[v] = "asleep"
        BY <1>t, <3>2, <4>1 DEF MasterSteps, PeerSteps
      <4> QED
        BY <1>t, <4>1, <4>2 DEF Bonds
    <3> QED
      BY <2>2, <3>1, <3>2 DEF FinishTask
  <2>3. CASE NoTaskLeft(w)
    BY <1>t, <2>3 DEF NoTaskLeft, bits, assigned, Bonds, MasterSteps, PeerSteps
  <2>4. CASE ExitPeer(w)
    BY <1>t, <2>4 DEF ExitPeer, bits, Bonds, MasterSteps, PeerSteps
  <2> QED
    BY <1>4, <2>1, <2>2, <2>3, <2>4 DEF Task
<1>5. ASSUME NEW w \in Workers, Main(w) PROVE Bonds'
  <2>1. CASE FindJob(w) \/ FinishJob(w) \/ FindNone(w) \/ ClearHelp(w) \/ Loop(w)
    BY <1>s, <2>1 DEF FindJob, FinishJob, FindNone, ClearHelp, Loop, bits, assigned, MasterSteps, PeerSteps
  <2>2. CASE Start(w) \/ Doze(w) \/ Switch(w) \/ Exit(w)
    BY <1>s, <2>2 DEF Start, Doze, Switch, Exit, bits, assigned, MasterSteps, PeerSteps
  <2>3. CASE WakeUp(w)
    BY <1>t, <1>n, <2>3 DEF WakeUp, assigned, Bonds, MasterSteps, PeerSteps
  <2> QED
    BY <1>5, <2>1, <2>2, <2>3 DEF Main
<1>6. CASE Stop
  <2>1. CASE StopPool
    BY <1>u, <2>1 DEF StopPool, bits, assigned
  <2>2. ASSUME NEW w \in Workers, StopWorker(w) PROVE Bonds'
    BY <1>t, <1>n, <2>2 DEF StopWorker, Bonds, assigned
  <2> QED
    BY <1>6, <2>1, <2>2 DEF Stop
<1>7. CASE UNCHANGED vars
  BY <1>u, <1>7 DEF vars, bits, assigned
<1> QED
  BY <1>1, <1>2, <1>3, <1>4, <1>5, <1>6, <1>7 DEF Next, Worker, Callers

\* Who is in a group, and who is in none.
LEMMA BondFacts ==
    ASSUME IInv, NEW w \in Workers
    PROVE  /\ pc[w] \in PeerSteps => bond[w] \in Workers /\ pc[bond[w]] \in MasterSteps
           /\ pc[w] \notin PeerSteps \cup {"asleep"} => bond[w] = None
           /\ Free(w) => bond[w] = None
           /\ \A v \in Workers : bond[v] = w => pc[w] \in MasterSteps
<1>1. bond[w] \in Workers \cup {None} /\ None \notin Workers /\ Bonds
  BY NamesAssumption DEF IInv, TypeOK
<1>2. pc[w] \in PeerSteps => bond[w] # None
  BY <1>1 DEF Bonds
<1>3. bond[w] # None => pc[bond[w]] \in MasterSteps
  BY <1>1 DEF Bonds
<1>4. bond[w] # None => pc[w] \in PeerSteps \/ (pc[w] = "asleep" /\ wake[w] = 1)
  BY <1>1 DEF Bonds
<1>5. Free(w) => pc[w] \notin PeerSteps /\ wake[w] # 1
  BY DEF Free, PeerSteps
<1>6. \A v \in Workers : bond[v] = w => pc[w] \in MasterSteps
  <2> SUFFICES ASSUME NEW v \in Workers, bond[v] = w PROVE pc[w] \in MasterSteps
    OBVIOUS
  <2>1. bond[v] # None
    BY <1>1
  <2> QED
    BY <1>1, <2>1 DEF Bonds
<1> QED
  BY <1>1, <1>2, <1>3, <1>4, <1>5, <1>6

LEMMA CountsStep ==
    ASSUME IInv, [Next]_vars
    PROVE  Counts' /\ group' \in [Workers -> GroupType]
<1> USE NamesAssumption, BondAssumption DEF Goto, Call, Return, Awaken
<1> DEFINE Asking == {"first", "second", "got"}
           Type == group' \in [Workers -> GroupType]
<1>t. /\ pc \in [Workers -> MainSteps] /\ bond \in [Workers -> Workers \cup {None}]
      /\ group \in [Workers -> GroupType]
      /\ call \in [Callers -> CallSteps] /\ Callers = Workers \cup Providers
      /\ Bonds /\ Counts
      /\ \A w \in Workers : call[w] # "idle" <=> pc[w] = "bonding"
  BY DEF IInv, TypeOK, Callers, Acquirers
<1>c. \A m \in Workers : Cardinality(Peers(m)) \in Nat /\ Cardinality(InTask(m)) \in Nat
  BY Cards DEF Peers, InTask
\* the group of m is not touched
<1>k. ASSUME NEW m \in Workers, group'[m] = group[m], Peers(m)' = Peers(m), InTask(m)' = InTask(m),
             pc'[m] = pc[m] \/ pc'[m] \notin MasterSteps \cup {"finish"},
             call'[m] = call[m] \/ call'[m] \notin Asking \/ call[m] \in Asking
      PROVE  Counted(m)'
  BY <1>t, <1>k DEF Counts, Counted, MasterSteps
\* no group is touched: a worker outside goes on
<1>s. ASSUME NEW w \in Workers, pc[w] \notin {"ownTask", "peerTask"},
             pc'[w] = pc[w] \/ pc'[w] \notin MasterSteps \cup {"finish", "peerTask"},
             \A v \in Workers \ {w} : pc'[v] = pc[v],
             \A v \in Workers : call'[v] = call[v] \/ call'[v] \notin Asking \/ call[v] \in Asking,
             UNCHANGED <<group, bond>>
      PROVE  Counts' /\ Type
  <2>1. \A m \in Workers : Peers(m)' = Peers(m)
    BY <1>s DEF Peers
  <2>2. \A m \in Workers : InTask(m)' = InTask(m)
    <3>1. \A v \in Workers : /\ pc'[v] = "ownTask" <=> pc[v] = "ownTask"
                             /\ pc'[v] = "peerTask" <=> pc[v] = "peerTask"
      BY <1>s DEF MasterSteps
    <3> QED
      BY <1>s, <3>1 DEF InTask
  <2>3. \A m \in Workers : /\ pc'[m] = pc[m] \/ pc'[m] \notin MasterSteps \cup {"finish"}
                           /\ group'[m] = group[m]
    BY <1>s
  <2>4. ASSUME NEW m \in Workers PROVE Counted(m)'
    BY <1>k, <1>s, <2>1, <2>2, <2>3
  <2> QED
    BY <1>t, <1>s, <2>4 DEF Counts
<1>u. ASSUME UNCHANGED <<group, bond, pc>>,
             \A v \in Workers : call'[v] = call[v] \/ call'[v] \notin Asking \/ call[v] \in Asking
      PROVE  Counts' /\ Type
  <2>1. \A m \in Workers : Peers(m)' = Peers(m) /\ InTask(m)' = InTask(m)
    BY <1>u DEF Peers, InTask
  <2>2. \A m \in Workers : Counted(m)'
    BY <1>k, <1>u, <2>1
  <2> QED
    BY <1>t, <1>u, <2>2 DEF Counts
\* only the group of g is touched
<1>g. ASSUME NEW g \in Workers, NEW r \in GroupType, group' = [group EXCEPT ![g] = r], Counted(g)',
             \A m \in Workers \ {g} :
                /\ Peers(m)' = Peers(m) /\ InTask(m)' = InTask(m)
                /\ pc'[m] = pc[m] \/ pc'[m] \notin MasterSteps \cup {"finish"}
                /\ call'[m] = call[m] \/ call'[m] \notin Asking \/ call[m] \in Asking
      PROVE  Counts' /\ Type
  <2>1. ASSUME NEW m \in Workers \ {g} PROVE Counted(m)'
    <3>1. group'[m] = group[m]
      BY <1>t, <1>g
    <3> QED
      BY <1>g, <1>k, <3>1
  <2> QED
    BY <1>t, <1>g, <2>1 DEF Counts
<1>1. ASSUME NEW c \in Callers, Acquire(c) PROVE Counts' /\ Type
  <2>1. UNCHANGED <<group, bond, pc>>
    BY <1>1 DEF Acquire, Look, LookFails, Grab, assigned
  <2>2. \A v \in Workers : call'[v] = call[v] \/ call'[v] \notin Asking \/ call[v] \in Asking
    BY <1>t, <1>1 DEF Acquire, Look, LookFails, Grab
  <2> QED
    BY <1>u, <2>1, <2>2
<1>2. ASSUME NEW p \in Providers, Provider(p) \/ Retry(p) PROVE Counts' /\ Type
  <2>1. UNCHANGED <<group, bond, pc>> /\ \A v \in Workers : call'[v] = call[v]
    BY <1>t, <1>2 DEF Provider, OfferJob, WakeOne, WakeNone, Retry, assigned
  <2> QED
    BY <1>u, <2>1
<1>3. ASSUME NEW w \in Workers, Master(w) \/ OpenGroup(w) PROVE Counts' /\ Type
  <2>1. CASE OpenGroup(w)
    <3> DEFINE r == [NoGroup EXCEPT !.open = TRUE]
    <3>1. /\ group' = [group EXCEPT ![w] = r] /\ pc' = [pc EXCEPT ![w] = "bonding"]
          /\ bond' = bond /\ call' = [call EXCEPT ![w] = "first"] /\ pc[w] = "job"
      BY <2>1 DEF OpenGroup, assigned
    <3>2. /\ r \in GroupType /\ r.open /\ r.count = 0 /\ r.exited = 0 /\ r.acquired = 0
          /\ r.finished = 0
      <4>1. NoGroup \in GroupType
        BY DEF NoGroup, GroupType
      <4>2. r \in GroupType
        BY <4>1 DEF GroupType
      <4> QED
        BY <4>2 DEF NoGroup
    <3> HIDE DEF r
    <3>3. \A m \in Workers : Peers(m)' = Peers(m) /\ InTask(m)' = InTask(m)
      BY <1>t, <3>1 DEF Peers, InTask
    <3>4. Peers(w) = {} /\ InTask(w) = {}
      <4>1. Peers(w) = {}
        BY <3>1, BondFacts DEF Peers, MasterSteps
      <4> QED
        BY <3>1, <4>1 DEF Peers, InTask
    <3>5. Cardinality(Peers(w)') = 0 /\ Cardinality(InTask(w)') = 0
      BY <3>3, <3>4, FS_EmptySet
    <3>6. group'[w] = r /\ pc'[w] = "bonding"
      BY <1>t, <3>1
    <3>7. Counted(w)'
      BY <3>2, <3>5, <3>6 DEF Counted
    <3> QED
      BY <1>t, <1>g, <3>1, <3>2, <3>3, <3>7
  <2>2. CASE BondPeer(w)
    <3> DEFINE r == [group[w] EXCEPT !.count = @ + 1]
               u == cand[w]
    <3>1. /\ group' = [group EXCEPT ![w] = r] /\ pc' = pc /\ pc[w] = "bonding"
          /\ bond' = [bond EXCEPT ![u] = w] /\ call[w] = "got"
          /\ call' = [call EXCEPT ![w] = IF group'[w].count < MaxPeers THEN "first" ELSE "failed"]
      BY <2>2 DEF BondPeer
    <3>2. u \in Workers /\ pc[u] = "asleep" /\ bond[u] = None /\ u # w
      <4>1. u \in Workers /\ Free(u)
        BY <1>t, <3>1 DEF IInv, Hands, Holds
      <4> QED
        BY <3>1, <4>1, BondFacts DEF Free
    <3>3. group[w] \in GroupType /\ group[w].count < MaxPeers
      BY <1>t, <3>1 DEF Counts, Counted
    <3>4. /\ r \in GroupType /\ r.open = group[w].open /\ r.count = group[w].count + 1
          /\ r.exited = group[w].exited /\ r.acquired = group[w].acquired
          /\ r.finished = group[w].finished
      BY <3>3 DEF GroupType
    <3> HIDE DEF r, u
    <3>5. \A m \in Workers \ {w} : Peers(m)' = Peers(m)
      BY <1>t, <3>1, <3>2 DEF Peers
    <3>6. Peers(w)' = Peers(w) \cup {u} /\ u \notin Peers(w)
      BY <1>t, <3>1, <3>2 DEF Peers
    <3>7. \A m \in Workers : InTask(m)' = InTask(m)
      BY <1>t, <3>1, <3>2 DEF InTask
    <3>8. /\ Cardinality(Peers(w)') = Cardinality(Peers(w)) + 1
          /\ Cardinality(InTask(w)') = Cardinality(InTask(w))
      BY <3>2, <3>6, <3>7, Cards DEF Peers
    <3>9. group'[w] = r /\ pc'[w] = "bonding" /\ call'[w] \in Asking => group'[w].count < MaxPeers
      BY <1>t, <3>1
    <3>10. Counted(w)'
      <4>1. Counted(w) /\ group[w].exited \in Nat /\ group[w].count \in Nat
        BY <1>t, <3>3 DEF Counts, GroupType
      <4>2. group'[w] = r /\ pc'[w] = "bonding"
        BY <1>t, <3>1
      <4>3. call'[w] \in Asking => group'[w].count < MaxPeers
        BY <1>t, <3>1
      <4> QED
        BY <1>c, <3>1, <3>4, <3>8, <4>1, <4>2, <4>3 DEF Counted, MasterSteps
    <3> QED
      BY <1>t, <1>g, <3>1, <3>4, <3>5, <3>7, <3>10
  <2>3. CASE BondEnd(w)
    <3> DEFINE r == [group[w] EXCEPT !.bonded = group[w].count]
    <3>1. /\ group' = [group EXCEPT ![w] = r] /\ pc' = [pc EXCEPT ![w] = "own"] /\ bond' = bond
          /\ call' = [call EXCEPT ![w] = "idle"] /\ pc[w] = "bonding"
      BY <2>3 DEF BondEnd, assigned
    <3>2. /\ r \in GroupType /\ r.open = group[w].open /\ r.count = group[w].count
          /\ r.exited = group[w].exited /\ r.acquired = group[w].acquired
          /\ r.finished = group[w].finished /\ r.bonded = group[w].count
      BY <1>t DEF GroupType
    <3> HIDE DEF r
    <3>3. \A m \in Workers : Peers(m)' = Peers(m) /\ InTask(m)' = InTask(m)
      BY <1>t, <3>1 DEF Peers, InTask
    <3>4. group'[w] = r /\ pc'[w] = "own" /\ call'[w] = "idle" /\ Counted(w)
      BY <1>t, <3>1 DEF Counts
    <3>5. Counted(w)'
      BY <3>1, <3>2, <3>3, <3>4 DEF Counted, MasterSteps
    <3> QED
      BY <1>t, <1>g, <3>1, <3>2, <3>3, <3>5
  <2>4. CASE CloseGroup(w)
    <3> DEFINE r == [group[w] EXCEPT !.open = FALSE]
    <3>1. /\ group' = [group EXCEPT ![w] = r] /\ pc' = [pc EXCEPT ![w] = "finish"] /\ bond' = bond
          /\ call' = call /\ pc[w] = "wait"
      BY <2>4 DEF CloseGroup, assigned, calls
    <3>2. /\ r \in GroupType /\ ~ r.open /\ r.count = group[w].count
          /\ r.exited = group[w].exited /\ r.acquired = group[w].acquired
          /\ r.finished = group[w].finished /\ r.bonded = group[w].bonded
      <4>1. group[w] \in GroupType
        BY <1>t
      <4> QED
        BY <4>1 DEF GroupType
    <3> HIDE DEF r
    <3>3. \A m \in Workers : Peers(m)' = Peers(m) /\ InTask(m)' = InTask(m)
      BY <1>t, <3>1 DEF Peers, InTask
    <3>4. group'[w] = r /\ pc'[w] = "finish" /\ call'[w] = "idle" /\ group[w].finished = Tasks
      BY <1>t, <2>4, <3>1, ExitMeansNone DEF CloseGroup
    <3>5. Counted(w)'
      BY <3>2, <3>4 DEF Counted, MasterSteps
    <3> QED
      BY <1>t, <1>g, <3>1, <3>2, <3>3, <3>5
  <2> QED
    BY <1>3, <2>1, <2>2, <2>3, <2>4 DEF Master
<1>4. ASSUME NEW w \in Workers, Task(w) PROVE Counts' /\ Type
  <2>g. pc[w] \in {"own", "ownTask", "peer", "peerTask"} =>
           GroupOf(w) \in Workers /\ pc[GroupOf(w)] \in MasterSteps
    BY BondFacts DEF GroupOf, MasterSteps, PeerSteps
  <2>b. \A v \in Workers : pc[v] \in MasterSteps => bond[v] = None
    BY BondFacts DEF MasterSteps, PeerSteps
  <2>1. CASE TakeTask(w)
    <3>0. PICK g \in Workers : g = GroupOf(w) /\ pc[g] \in MasterSteps
      BY <2>g, <2>1 DEF TakeTask
    <3> DEFINE r == [group[g] EXCEPT !.acquired = @ + 1]
    <3>1. /\ group' = [group EXCEPT ![g] = r] /\ bond' = bond /\ call' = call
          /\ \/ pc[w] = "own" /\ g = w /\ pc' = [pc EXCEPT ![w] = "ownTask"]
             \/ pc[w] = "peer" /\ g = bond[w] /\ pc' = [pc EXCEPT ![w] = "peerTask"]
      BY <2>1, <3>0 DEF TakeTask, TaskLeft, GroupOf, assigned, calls
    <3>2. \A m \in Workers : Peers(m)' = Peers(m)
      BY <3>1 DEF Peers
    <3>3. \A m \in Workers \ {g} : InTask(m)' = InTask(m)
      BY <1>t, <2>b, <3>0, <3>1 DEF InTask, MasterSteps
    <3>4. InTask(g)' = InTask(g) \cup {w} /\ w \notin InTask(g)
      BY <1>t, <2>b, <3>0, <3>1 DEF InTask, MasterSteps
    <3>5. /\ Cardinality(Peers(g)') = Cardinality(Peers(g))
          /\ Cardinality(InTask(g)') = Cardinality(InTask(g)) + 1
          /\ Cardinality(InTask(g)') \in Nat
      <4>1. InTask(g) \in SUBSET Workers
        BY DEF InTask
      <4>2. Cardinality(InTask(g) \cup {w}) \in Nat
        BY Cards DEF InTask
      <4> QED
        BY <3>2, <3>4, <4>1, <4>2, Cards
    <3>6. /\ Counted(g) /\ group[g] \in GroupType
      BY <1>t DEF Counts
    <3>t. group[g].finished \in Nat /\ group[g].acquired \in 0 .. Tasks
      BY <3>6 DEF GroupType
    <3>c. Cardinality(Peers(g)) \in Nat /\ Cardinality(InTask(g)) \in Nat
      BY <1>c
    <3>m. /\ group[g].count = group[g].exited + Cardinality(Peers(g))
          /\ group[g].acquired = group[g].finished + Cardinality(InTask(g))
      BY <3>0, <3>6 DEF Counted
    <3>n. /\ group[g].open
          /\ call[g] \in Asking => group[g].count < MaxPeers
          /\ pc[g] \in {"own", "ownTask", "wait"} => group[g].bonded = group[g].count
          /\ pc[g] = "wait" => group[g].acquired = Tasks
      BY <3>0, <3>6 DEF Counted
    <3>7. group[g].acquired < Tasks
      BY <2>1, <3>0 DEF TakeTask, TaskLeft
    <3>8. /\ r \in GroupType /\ r.open = group[g].open /\ r.count = group[g].count
          /\ r.exited = group[g].exited /\ r.bonded = group[g].bonded
          /\ r.acquired = group[g].acquired + 1
          /\ r.finished = group[g].finished
      BY <3>6, <3>7, <3>t DEF GroupType
    <3> HIDE DEF r
    <3>9. /\ group'[g] = r /\ call'[g] = call[g] /\ pc'[g] \in MasterSteps
          /\ pc'[g] = "wait" <=> pc[g] = "wait"
          /\ pc'[g] \in {"own", "ownTask", "wait"} <=> pc[g] \in {"own", "ownTask", "wait"}
      BY <1>t, <3>0, <3>1 DEF MasterSteps
    <3>10. Counted(g)'
      <4>1. pc'[g] # "finish"
        BY <3>9 DEF MasterSteps
      <4>2. /\ r.count = r.exited + Cardinality(Peers(g)')
            /\ r.acquired = r.finished + Cardinality(InTask(g)')
        BY <3>c, <3>t, <3>5, <3>8, <3>m
      <4>3. /\ r.open
            /\ call[g] \in Asking => r.count < MaxPeers
            /\ pc[g] \in {"own", "ownTask", "wait"} => r.bonded = r.count
            /\ pc[g] = "wait" => r.acquired = Tasks
        <5>1. pc[g] # "wait"
          <6>1. group[g].acquired # Tasks
            BY <3>t, <3>7
          <6> QED
            BY <3>n, <6>1
        <5> QED
          BY <3>n, <3>8, <5>1
      <4> QED
        BY <4>1, <4>2, <4>3, <3>9 DEF Counted
    <3>11. \A m \in Workers \ {g} : pc'[m] = pc[m] \/ pc'[m] = "peerTask"
      BY <1>t, <3>1
    <3> QED
      BY <1>t, <1>g, <3>1, <3>2, <3>3, <3>8, <3>10, <3>11 DEF MasterSteps
  <2>2. CASE FinishTask(w)
    <3>0. PICK g \in Workers : g = GroupOf(w) /\ pc[g] \in MasterSteps
      BY <2>g, <2>2 DEF FinishTask
    <3> DEFINE r == [group[g] EXCEPT !.finished = @ + 1]
    <3>1. /\ group' = [group EXCEPT ![g] = r] /\ bond' = bond /\ call' = call
          /\ \/ pc[w] = "ownTask" /\ g = w /\ pc' = [pc EXCEPT ![w] = "own"]
             \/ pc[w] = "peerTask" /\ g = bond[w] /\ pc' = [pc EXCEPT ![w] = "peer"]
      BY <2>2, <3>0 DEF FinishTask, GroupOf, assigned, calls
    <3>2. \A m \in Workers : Peers(m)' = Peers(m)
      BY <3>1 DEF Peers
    <3>3. \A m \in Workers \ {g} : InTask(m)' = InTask(m)
      <4>1. /\ \A v \in Workers \ {w} : pc'[v] = pc[v]
            /\ \A m \in Workers \ {g} : w \notin InTask(m) /\ w \notin InTask(m)'
        BY <1>t, <2>b, <3>0, <3>1 DEF InTask, MasterSteps
      <4> QED
        BY <3>1, <4>1 DEF InTask
    <3>4. InTask(g)' = InTask(g) \ {w} /\ w \in InTask(g)
      BY <1>t, <2>b, <3>0, <3>1 DEF InTask, MasterSteps
    <3>5. /\ Cardinality(Peers(g)') = Cardinality(Peers(g))
          /\ Cardinality(InTask(g)') = Cardinality(InTask(g)) - 1
          /\ Cardinality(InTask(g)') \in Nat
      <4>1. InTask(g) \in SUBSET Workers
        BY DEF InTask
      <4>2. Cardinality(InTask(g) \ {w}) \in Nat
        BY Cards DEF InTask
      <4> QED
        BY <3>2, <3>4, <4>1, <4>2, Cards
    <3>6. /\ Counted(g) /\ group[g] \in GroupType
      BY <1>t DEF Counts
    <3>t. group[g].finished \in Nat /\ group[g].acquired \in 0 .. Tasks
      BY <3>6 DEF GroupType
    <3>c. Cardinality(Peers(g)) \in Nat /\ Cardinality(InTask(g)) \in Nat
      BY <1>c
    <3>m. /\ group[g].count = group[g].exited + Cardinality(Peers(g))
          /\ group[g].acquired = group[g].finished + Cardinality(InTask(g))
      BY <3>0, <3>6 DEF Counted
    <3>n. /\ group[g].open
          /\ call[g] \in Asking => group[g].count < MaxPeers
          /\ pc[g] \in {"own", "ownTask", "wait"} => group[g].bonded = group[g].count
          /\ pc[g] = "wait" => group[g].acquired = Tasks
      BY <3>0, <3>6 DEF Counted
    <3>7. group[g].finished < Tasks
      BY <3>c, <3>t, <3>5, <3>m
    <3>8. /\ r \in GroupType /\ r.open = group[g].open /\ r.count = group[g].count
          /\ r.exited = group[g].exited /\ r.bonded = group[g].bonded
          /\ r.acquired = group[g].acquired
          /\ r.finished = group[g].finished + 1
      BY <3>6, <3>7, <3>t DEF GroupType
    <3> HIDE DEF r
    <3>9. /\ group'[g] = r /\ call'[g] = call[g] /\ pc'[g] \in MasterSteps
          /\ pc'[g] = "wait" <=> pc[g] = "wait"
          /\ pc'[g] \in {"own", "ownTask", "wait"} <=> pc[g] \in {"own", "ownTask", "wait"}
      BY <1>t, <3>0, <3>1 DEF MasterSteps
    <3>10. Counted(g)'
      <4>1. pc'[g] # "finish"
        BY <3>9 DEF MasterSteps
      <4>2. /\ r.count = r.exited + Cardinality(Peers(g)')
            /\ r.acquired = r.finished + Cardinality(InTask(g)')
        BY <3>c, <3>t, <3>5, <3>8, <3>m
      <4>3. /\ r.open
            /\ call[g] \in Asking => r.count < MaxPeers
            /\ pc[g] \in {"own", "ownTask", "wait"} => r.bonded = r.count
            /\ pc[g] = "wait" => r.acquired = Tasks
        BY <3>n, <3>8
      <4> QED
        BY <4>1, <4>2, <4>3, <3>9 DEF Counted
    <3>11. \A m \in Workers \ {g} : pc'[m] = pc[m] \/ pc'[m] = "peer"
      BY <1>t, <3>1
    <3> QED
      BY <1>t, <1>g, <3>1, <3>2, <3>3, <3>8, <3>10, <3>11 DEF MasterSteps
  <2>3. CASE NoTaskLeft(w)
    <3>1. CASE pc[w] = "peer"
      BY <1>s, <1>t, <2>3, <3>1 DEF NoTaskLeft, assigned, calls, MasterSteps
    <3>2. CASE pc[w] = "own"
      <4>1. /\ UNCHANGED <<group, bond, call>> /\ pc' = [pc EXCEPT ![w] = "wait"]
            /\ ~ TaskLeft(group[w])
        BY <2>3, <3>2 DEF NoTaskLeft, GroupOf, assigned, calls
      <4>2. \A m \in Workers : Peers(m)' = Peers(m) /\ InTask(m)' = InTask(m)
        BY <1>t, <3>2, <4>1 DEF Peers, InTask
      <4>3. group[w].acquired = Tasks
        <5>1. group[w] \in GroupType
          BY <1>t
        <5> QED
          BY <4>1, <5>1 DEF TaskLeft, GroupType
      <4>4. Counted(w) /\ pc'[w] = "wait" /\ group'[w] = group[w] /\ call'[w] = call[w]
        BY <1>t, <4>1 DEF Counts
      <4>5. Counted(w)'
        BY <3>2, <4>2, <4>3, <4>4 DEF Counted, MasterSteps
      <4>6. ASSUME NEW m \in Workers \ {w} PROVE Counted(m)'
        BY <1>t, <1>k, <4>1, <4>2
      <4> QED
        BY <1>t, <4>1, <4>5, <4>6 DEF Counts
    <3> QED
      BY <2>3, <3>1, <3>2 DEF NoTaskLeft
  <2>4. CASE ExitPeer(w)
    <3>0. PICK g \in Workers : g = bond[w] /\ pc[g] \in MasterSteps
      BY <2>4, BondFacts DEF ExitPeer, PeerSteps
    <3> DEFINE r == [group[g] EXCEPT !.exited = @ + 1]
    <3>1. /\ group' = [group EXCEPT ![g] = r] /\ call' = call
          /\ bond' = [bond EXCEPT ![w] = None]
          /\ pc[w] = "leave" /\ pc' = [pc EXCEPT ![w] = "find"] /\ g # w
      BY <2>4, <3>0 DEF ExitPeer, calls, MasterSteps
    <3>2. \A m \in Workers \ {g} : Peers(m)' = Peers(m)
      BY <1>t, <3>0, <3>1 DEF Peers
    <3>3. Peers(g)' = Peers(g) \ {w} /\ w \in Peers(g)
      BY <1>t, <3>0, <3>1 DEF Peers
    <3>4. \A m \in Workers : InTask(m)' = InTask(m)
      BY <1>t, <3>1 DEF InTask
    <3>5. /\ Cardinality(InTask(g)') = Cardinality(InTask(g))
          /\ Cardinality(Peers(g)') = Cardinality(Peers(g)) - 1
          /\ Cardinality(Peers(g)') \in Nat
      <4>1. Cardinality(Peers(g) \ {w}) \in Nat /\ Peers(g) \in SUBSET Workers
        BY Cards DEF Peers
      <4> QED
        BY <3>3, <3>4, <4>1, Cards
    <3>6. /\ Counted(g) /\ group[g] \in GroupType
      BY <1>t DEF Counts
    <3>t. group[g].exited \in Nat /\ group[g].count \in 0 .. MaxPeers
      BY <3>6 DEF GroupType
    <3>c. Cardinality(Peers(g)) \in Nat /\ Cardinality(InTask(g)) \in Nat
      BY <1>c
    <3>m. /\ group[g].count = group[g].exited + Cardinality(Peers(g))
          /\ group[g].acquired = group[g].finished + Cardinality(InTask(g))
      BY <3>0, <3>6 DEF Counted
    <3>n. /\ group[g].open
          /\ call[g] \in Asking => group[g].count < MaxPeers
          /\ pc[g] \in {"own", "ownTask", "wait"} => group[g].bonded = group[g].count
          /\ pc[g] = "wait" => group[g].acquired = Tasks
      BY <3>0, <3>6 DEF Counted
    <3>7. group[g].exited < MaxPeers
      BY <3>c, <3>t, <3>5, <3>m
    <3>8. /\ r \in GroupType /\ r.open = group[g].open /\ r.count = group[g].count
          /\ r.exited = group[g].exited + 1 /\ r.acquired = group[g].acquired
          /\ r.finished = group[g].finished /\ r.bonded = group[g].bonded
      BY <3>6, <3>7, <3>t DEF GroupType
    <3> HIDE DEF r
    <3>9. group'[g] = r /\ pc'[g] = pc[g] /\ pc[g] # "finish"
      BY <1>t, <3>0, <3>1 DEF MasterSteps
    <3>10. Counted(g)'
      <4>1. /\ r.count = r.exited + Cardinality(Peers(g)')
            /\ r.acquired = r.finished + Cardinality(InTask(g)')
        BY <3>c, <3>t, <3>5, <3>8, <3>m
      <4>2. /\ r.open
            /\ call[g] \in Asking => r.count < MaxPeers
            /\ pc[g] \in {"own", "ownTask", "wait"} => r.bonded = r.count
            /\ pc[g] = "wait" => r.acquired = Tasks
        BY <3>n, <3>8
      <4> QED
        BY <3>1, <3>9, <4>1, <4>2 DEF Counted
    <3>11. \A m \in Workers \ {g} : pc'[m] = pc[m] \/ pc'[m] = "find"
      BY <1>t, <3>1
    <3>12. \A m \in Workers \ {g} :
              /\ Peers(m)' = Peers(m) /\ InTask(m)' = InTask(m)
              /\ pc'[m] = pc[m] \/ pc'[m] \notin MasterSteps \cup {"finish"}
              /\ call'[m] = call[m]
      BY <3>1, <3>2, <3>4, <3>11 DEF MasterSteps
    <3> QED
      BY <1>g, <3>1, <3>8, <3>10, <3>12
  <2> QED
    BY <1>4, <2>1, <2>2, <2>3, <2>4 DEF Task
<1>5. ASSUME NEW w \in Workers, Main(w) PROVE Counts' /\ Type
  <2>1. CASE FinishJob(w)
    <3>1. /\ group' = [group EXCEPT ![w] = NoGroup] /\ pc' = [pc EXCEPT ![w] = "switch"]
          /\ bond' = bond /\ call' = call /\ pc[w] \in {"job", "finish"}
      BY <2>1 DEF FinishJob, assigned, calls
    <3>2. NoGroup \in GroupType
      BY DEF NoGroup, GroupType
    <3>3. Counted(w)'
      BY <1>t, <3>1 DEF Counted, MasterSteps
    <3>4. \A m \in Workers : Peers(m)' = Peers(m) /\ InTask(m)' = InTask(m)
      BY <1>t, <3>1 DEF Peers, InTask
    <3> QED
      BY <1>t, <1>g, <3>1, <3>2, <3>3, <3>4
  <2>2. CASE FindJob(w) \/ FindNone(w) \/ ClearHelp(w) \/ Switch(w) \/ Loop(w)
    BY <1>s, <1>t, <2>2 DEF FindJob, FindNone, ClearHelp, Switch, Loop, assigned, calls, MasterSteps
  <2>3. CASE Start(w) \/ Doze(w) \/ WakeUp(w) \/ Exit(w)
    BY <1>s, <1>t, <2>3 DEF Start, Doze, WakeUp, Exit, assigned, calls, MasterSteps
  <2> QED
    BY <1>5, <2>1, <2>2, <2>3 DEF Main
<1>6. CASE Stop
  BY <1>u, <1>6 DEF Stop, StopPool, StopWorker, assigned, calls
<1>7. CASE UNCHANGED vars
  BY <1>u, <1>7 DEF vars, assigned, calls
<1> QED
  BY <1>1, <1>2, <1>3, <1>4, <1>5, <1>6, <1>7 DEF Next, Worker, Callers

-----------------------------------------------------------------------------
(* The theorems *)

LEMMA InitIInv == Init => IInv
<1> SUFFICES ASSUME Init PROVE IInv
  OBVIOUS
<1>1. TypeOK
  <2>1. NoGroup \in GroupType
    BY BondAssumption DEF NoGroup, GroupType
  <2>2. \A p \in Providers : unposted[p] + jobs[p] + done[p] <= JobsOf[p]
    BY JobsAssumption DEF Init
  <2> QED
    BY <2>1, <2>2, FirstProvider, JobsAssumption DEF Init, TypeOK, MainSteps, CallSteps, Callers
<1>2. JobsAccounted
  <2>1. \A p \in Providers : DoingJob(p) = {}
    BY DEF Init, DoingJob, JobSteps
  <2>2. \A p \in Providers : Cardinality(DoingJob(p)) = 0
    BY <2>1, FS_EmptySet
  <2> QED
    BY <2>2, JobsAssumption DEF Init, JobsAccounted
<1>3. Hands /\ Acquirers /\ Bonds
  BY NamesAssumption DEF Init, Hands, Holds, Acquirers, Bonds, Callers, PeerSteps
<1>4. Counts
  BY DEF Init, Counts, Counted, MasterSteps, Callers
<1> QED
  BY <1>1, <1>2, <1>3, <1>4 DEF IInv

LEMMA TypeStep == ASSUME IInv, [Next]_vars PROVE TypeOK'
<1> USE DEF Goto, Call, Return, Awaken
<1> DEFINE Bits == /\ active \in BOOLEAN /\ sleep \subseteq Workers /\ stopping \subseteq Workers
                   /\ wake \in [Workers -> {0, 1}]
           Assigned == /\ cur \in [Workers -> Providers] /\ owner \in [Providers -> SUBSET Workers]
                       /\ bond \in [Workers -> Workers \cup {None}]
           Work == /\ helpWanted \in [Providers -> BOOLEAN]
                   /\ unposted \in [Providers -> Nat] /\ jobs \in [Providers -> Nat]
                   /\ done \in [Providers -> Nat]
           Steps == pc \in [Workers -> MainSteps]
           Calls == /\ call \in [Callers -> CallSteps] /\ cand \in [Callers -> Workers \cup {None}]
                    /\ mask \in [Callers -> SUBSET Workers]
           Rest == Bits /\ Assigned /\ Work /\ Steps /\ Calls
<1>t. Rest /\ Providers \subseteq Callers /\ Workers \subseteq Callers
  BY DEF IInv, TypeOK, Callers
<1>h. \A c \in Callers : call[c] = "got" => cand[c] \in Workers /\ wake[cand[c]] = 0
  BY DEF IInv, Hands, Holds, Free
<1>1. ASSUME NEW c \in Callers, Acquire(c) PROVE Rest'
  <2>1. UNCHANGED <<active, wake, stopping, assigned, helpWanted, work, pc>>
    BY <1>1 DEF Acquire, Look, LookFails, Grab, bits
  <2>2. sleep' \subseteq Workers
    BY <1>t, <1>1 DEF Acquire, Look, LookFails, Grab, bits
  <2>3. Calls'
    BY <1>t, <1>1 DEF Acquire, Look, LookFails, Grab, CallSteps
  <2> QED
    BY <1>t, <2>1, <2>2, <2>3 DEF assigned, work
<1>2. ASSUME NEW p \in Providers, Provider(p) \/ Retry(p) PROVE Rest'
  <2>1. CASE WakeOne(p)
    <3>1. UNCHANGED <<active, sleep, stopping, bond, helpWanted, work, pc>>
      BY <2>1 DEF WakeOne
    <3>2. PICK w \in Workers : w = cand[p] /\ wake[w] = 0
      BY <1>t, <1>h, <2>1 DEF WakeOne
    <3>3. wake' \in [Workers -> {0, 1}]
      BY <1>t, <2>1, <3>2 DEF WakeOne
    <3>4. cur' \in [Workers -> Providers] /\ owner' \in [Providers -> SUBSET Workers]
      BY <1>t, <2>1, <3>2 DEF WakeOne
    <3>5. Calls'
      BY <1>t, <2>1 DEF WakeOne, CallSteps
    <3> QED
      BY <1>t, <3>1, <3>3, <3>4, <3>5 DEF work
  <2>2. CASE OfferJob(p) \/ WakeNone(p) \/ Retry(p)
    <3>1. UNCHANGED <<active, bits, stopping, assigned, pc>>
      BY <2>2 DEF OfferJob, WakeNone, Retry
    <3>n. unposted[p] \in Nat /\ jobs[p] \in Nat
      BY <1>t
    <3>2. Work'
      <4>1. CASE OfferJob(p)
        <5>1. unposted[p] - 1 \in Nat /\ jobs[p] + 1 \in Nat
          BY <3>n, <4>1 DEF OfferJob
        <5> QED
          BY <1>t, <4>1, <5>1 DEF OfferJob
      <4>2. CASE WakeNone(p) \/ Retry(p)
        BY <1>t, <4>2 DEF WakeNone, Retry, work
      <4> QED
        BY <2>2, <4>1, <4>2
    <3>3. Calls'
      BY <1>t, <2>2 DEF OfferJob, WakeNone, Retry, CallSteps
    <3> QED
      BY <1>t, <3>1, <3>2, <3>3 DEF bits, assigned
  <2> QED
    BY <1>2, <2>1, <2>2 DEF Provider
<1>3. ASSUME NEW w \in Workers, Master(w) \/ OpenGroup(w) PROVE Rest'
  <2>1. CASE BondPeer(w)
    <3>1. UNCHANGED <<active, sleep, stopping, cur, owner, helpWanted, work, pc>>
      BY <2>1 DEF BondPeer
    <3>2. PICK v \in Workers : v = cand[w] /\ wake[v] = 0
      BY <1>t, <1>h, <2>1 DEF BondPeer
    <3>3. wake' \in [Workers -> {0, 1}] /\ bond' \in [Workers -> Workers \cup {None}]
      BY <1>t, <2>1, <3>2 DEF BondPeer
    <3>4. Calls'
      BY <1>t, <2>1 DEF BondPeer, CallSteps
    <3> QED
      BY <1>t, <3>1, <3>3, <3>4 DEF work
  <2>2. CASE OpenGroup(w) \/ BondEnd(w) \/ CloseGroup(w)
    <3>1. UNCHANGED <<active, bits, stopping, assigned, helpWanted, work>>
      BY <2>2 DEF OpenGroup, BondEnd, CloseGroup
    <3>2. Steps'
      BY <1>t, <2>2 DEF OpenGroup, BondEnd, CloseGroup, MainSteps
    <3>3. Calls'
      BY <1>t, <2>2 DEF OpenGroup, BondEnd, CloseGroup, CallSteps, calls
    <3> QED
      BY <1>t, <3>1, <3>2, <3>3 DEF bits, assigned, work
  <2> QED
    BY <1>3, <2>1, <2>2 DEF Master
<1>4. ASSUME NEW w \in Workers, Task(w) PROVE Rest'
  <2>1. UNCHANGED <<active, bits, stopping, cur, owner, helpWanted, work, calls>>
    BY <1>4 DEF Task, TakeTask, FinishTask, NoTaskLeft, ExitPeer, assigned
  <2>2. bond' \in [Workers -> Workers \cup {None}]
    BY <1>t, <1>4 DEF Task, TakeTask, FinishTask, NoTaskLeft, ExitPeer, assigned
  <2>3. Steps'
    BY <1>t, <1>4 DEF Task, TakeTask, FinishTask, NoTaskLeft, ExitPeer, MainSteps
  <2> QED
    BY <1>t, <2>1, <2>2, <2>3 DEF bits, work, calls
<1>5. ASSUME NEW w \in Workers, Main(w) PROVE Rest'
  <2>p. First \in Providers /\ cur[w] \in Providers
    BY <1>t, FirstProvider
  <2>c. UNCHANGED <<active, stopping, bond, calls>>
    BY <1>5 DEF Main, FindJob, FinishJob, FindNone, ClearHelp, Loop, Switch, Start, Doze, WakeUp,
                Exit, bits, assigned
  <2>1. Steps'
    <3>1. CASE FindJob(w) \/ FinishJob(w) \/ FindNone(w) \/ ClearHelp(w) \/ Loop(w) \/ Switch(w)
      BY <1>t, <3>1 DEF FindJob, FinishJob, FindNone, ClearHelp, Loop, Switch, MainSteps
    <3>2. CASE Start(w) \/ Doze(w) \/ WakeUp(w) \/ Exit(w)
      BY <1>t, <3>2 DEF Start, Doze, WakeUp, Exit, MainSteps
    <3> QED
      BY <1>5, <3>1, <3>2 DEF Main
  <2>2. sleep' \subseteq Workers
    BY <1>t, <1>5 DEF Main, FindJob, FinishJob, FindNone, ClearHelp, Loop, Switch, Start, Doze,
                      WakeUp, Exit, ExitBit, bits
  <2>3. wake' \in [Workers -> {0, 1}]
    <3>1. wake' = wake \/ WakeUp(w)
      BY <1>5 DEF Main, FindJob, FinishJob, FindNone, ClearHelp, Loop, Switch, Start, Doze, Exit,
                  bits
    <3>2. CASE WakeUp(w)
      <4>1. wake[w] = 1
        BY <1>t, <3>2 DEF WakeUp
      <4> QED
        BY <1>t, <3>2, <4>1 DEF WakeUp
    <3> QED
      BY <1>t, <3>1, <3>2
  <2>4. Work'
    <3>1. CASE FindJob(w)
      <4>1. jobs[cur[w]] - 1 \in Nat
        BY <1>t, <2>p, <3>1 DEF FindJob
      <4> QED
        BY <1>t, <2>p, <3>1, <4>1 DEF FindJob
    <3>2. CASE FinishJob(w)
      <4>1. done[cur[w]] + 1 \in Nat
        BY <1>t, <2>p
      <4> QED
        BY <1>t, <2>p, <3>2, <4>1 DEF FinishJob
    <3>3. CASE ClearHelp(w)
      BY <1>t, <2>p, <3>3 DEF ClearHelp, work
    <3>4. CASE UNCHANGED <<helpWanted, work>>
      BY <1>t, <3>4 DEF work
    <3> QED
      BY <1>5, <3>1, <3>2, <3>3, <3>4 DEF Main, FindNone, Loop, Switch, Start, Doze, WakeUp, Exit
  <2>5. cur' \in [Workers -> Providers] /\ owner' \in [Providers -> SUBSET Workers]
    <3>1. CASE Start(w)
      BY <1>t, <2>p, <3>1 DEF Start
    <3>2. CASE Switch(w)
      <4>1. CASE Preferred(w) = {}
        BY <1>t, <3>2, <4>1 DEF Switch
      <4>2. CASE Preferred(w) # {}
        <5>1. PICK p \in Providers :
                 /\ owner' = [owner EXCEPT ![cur[w]] = @ \ {w}, ![p] = @ \cup {w}]
                 /\ cur' = [cur EXCEPT ![w] = p]
          BY <3>2, <4>2 DEF Switch, Preferred
        <5> QED
          BY <1>t, <2>p, <5>1
      <4> QED
        BY <4>1, <4>2
    <3>3. CASE UNCHANGED <<cur, owner>>
      BY <1>t, <3>3
    <3> QED
      BY <1>5, <3>1, <3>2, <3>3 DEF Main, FindJob, FinishJob, FindNone, ClearHelp, Loop, Doze,
                                    WakeUp, Exit, assigned
  <2> QED
    BY <1>t, <2>c, <2>1, <2>2, <2>3, <2>4, <2>5 DEF calls
<1>6. ASSUME Stop PROVE Rest'
  <2>1. UNCHANGED <<sleep, assigned, helpWanted, work, pc, calls>>
    BY <1>6 DEF Stop, StopPool, StopWorker, bits
  <2>2. ASSUME StopPool PROVE Bits'
    BY <1>t, <2>2 DEF StopPool, bits
  <2>3. ASSUME NEW w \in Workers, StopWorker(w) PROVE Bits'
    <3>1. wake[w] = 0
      BY <2>3 DEF StopWorker, IInv, Hands
    <3> QED
      BY <1>t, <2>3, <3>1 DEF StopWorker
  <2> QED
    BY <1>t, <1>6, <2>1, <2>2, <2>3 DEF Stop, assigned, work, calls
<1>7. ASSUME UNCHANGED vars PROVE Rest'
  BY <1>t, <1>7 DEF vars, bits, assigned, work, calls
<1>8. Rest'
  BY <1>1, <1>2, <1>3, <1>4, <1>5, <1>6, <1>7, <1>t DEF Next, Worker
<1>9. (\A p \in Providers : unposted[p] + jobs[p] + done[p] <= JobsOf[p])'
  <2> SUFFICES ASSUME NEW p \in Providers
               PROVE  unposted'[p] + jobs'[p] + done'[p] <= JobsOf[p]
    OBVIOUS
  <2>1. unposted'[p] \in Nat /\ jobs'[p] \in Nat /\ done'[p] \in Nat /\ JobsOf[p] \in Nat
    BY <1>8, JobsAssumption
  <2>2. Cardinality(DoingJob(p)') \in Nat
    <3>1. \A S \in SUBSET Workers : Cardinality(S) \in Nat
      BY Cards
    <3> QED
      BY <3>1 DEF DoingJob
  <2>3. unposted'[p] + jobs'[p] + done'[p] + Cardinality(DoingJob(p)') = JobsOf[p]
    BY JobsStep DEF JobsAccounted
  <2> QED
    BY <2>1, <2>2, <2>3
<1> QED
  BY <1>8, <1>9, CountsStep DEF TypeOK

LEMMA StepIInv == IInv /\ [Next]_vars => IInv'
BY TypeStep, JobsStep, AcquirersStep, HandsStep, BondsStep, CountsStep DEF IInv

LEMMA IInvIsExclusive == IInv => Exclusive
<1> SUFFICES ASSUME IInv, NEW w \in Workers,
                    NEW holders, holders = {c \in Callers : call[c] = "got" /\ cand[c] = w},
                    NEW running, running = IF pc[w] \in {"asleep", "ended"} THEN 0 ELSE 1
             PROVE  /\ Cardinality(holders) + wake[w] + running <= 1
                    /\ active /\ w \in sleep => Cardinality(holders) + wake[w] + running = 0
  BY DEF Exclusive
<1>t. Hands /\ Acquirers /\ wake[w] \in {0, 1}
  BY DEF IInv, TypeOK
<1>1. CASE holders = {}
  <2>1. Cardinality(holders) = 0
    BY <1>1, FS_EmptySet
  <2>2. wake[w] = 1 => running = 0
    BY <1>t DEF Hands
  <2>3. active /\ w \in sleep => wake[w] = 0 /\ running = 0
    BY <1>t DEF Hands, Acquirers
  <2> QED
    BY <1>t, <2>1, <2>2, <2>3
<1>2. ASSUME NEW c \in holders
      PROVE  /\ Cardinality(holders) + wake[w] + running <= 1
             /\ active /\ w \in sleep => Cardinality(holders) + wake[w] + running = 0
  <2>1. holders = {c}
    BY <1>t DEF Hands
  <2>2. Cardinality(holders) = 1
    BY <2>1, FS_Singleton
  <2>3. Free(w) /\ w \notin sleep
    BY <1>t DEF Hands, Holds
  <2> QED
    BY <2>2, <2>3 DEF Free
<1> QED
  BY <1>1, <1>2

\* Whatever number of providers and masters acquire workers at a time, and
\* while the pool stops: a worker is in one pair of hands
\* (tryAcquireSleepingThread(), threadpool.cpp:219, and stopWorkers()), and all
\* counters stay within the numbers the code asked for.
THEOREM PoolIsSafe == Spec => []PoolInv
<1>1. IInv => PoolInv
  BY IInvIsExclusive DEF IInv, PoolInv
<1> QED
  BY <1>1, InitIInv, StepIInv, PTL DEF Spec

\* "When waitForExit() returns, all bonded peer threads are guaranteed to have
\* exited processTasks()" (threadpool.h:116), for groups of any size.
THEOREM PeersAreOut == Spec => []NoPeerLeftBehind
<1>1. IInv => NoPeerLeftBehind
  <2> SUFFICES ASSUME IInv, NEW w \in Workers
               PROVE  /\ bond[w] # None => group[bond[w]].open
                      /\ pc[w] = "finish" => group[w].finished = Tasks
    BY DEF NoPeerLeftBehind
  <2>1. bond[w] # None => bond[w] \in Workers /\ pc[bond[w]] \in MasterSteps
    BY DEF IInv, TypeOK, Bonds
  <2> QED
    BY <2>1 DEF IInv, Counts, Counted
<1> QED
  BY <1>1, InitIInv, StepIInv, PTL DEF Spec
=============================================================================
