----------------------------- MODULE ThreadPool -----------------------------
(***************************************************************************)
(* The worker threads of the encoder (common/threadpool.cpp, threadpool.h) *)
(* and the frame encoders that give them work, their job providers.        *)
(*                                                                         *)
(*   a provider   has jobs to do, and wakes a sleeping worker, or leaves   *)
(*                word with helpWanted                                     *)
(*   a worker     does the jobs of its current provider, moves to one of   *)
(*                higher priority that wants help, and sleeps; while it    *)
(*                does a job it may bond sleeping workers to a group of    *)
(*                tasks, do tasks with them and wait until they have left  *)
(*   stopWorkers()  ends the workers one after the other                   *)
(*                                                                         *)
(* A sleeping worker has its bit in the sleep bitmap; whoever clears the   *)
(* bit may change the worker and must wake it.                             *)
(***************************************************************************)
EXTENDS Integers, FiniteSets, FiniteSetsExt

CONSTANTS Workers, Providers,
          Priority,         \* m_sliceType of each provider; lower is first
          JobsOf,           \* bound: jobs of each provider
          Tasks,            \* tasks of a bonded group
          MaxPeers          \* workers a master asks for

ASSUME PriorityAssumption == Priority \in [Providers -> Nat]
ASSUME JobsAssumption == JobsOf \in [Providers -> Nat]
ASSUME BondAssumption == Tasks \in Nat \ {0} /\ MaxPeers \in Nat \ {0}
None == "none"

ASSUME NamesAssumption == Workers \cap Providers = {} /\ None \notin Workers
ASSUME PoolAssumption == IsFiniteSet(Workers) /\ Providers # {}

Callers == Providers \cup Workers       \* threads that acquire workers

VARIABLES
    active,             \* m_isActive
    sleep,              \* m_sleepBitmap
    wake,               \* the counter of each m_wakeEvent
    cur, owner,         \* m_curJobProvider, m_ownerBitmap
    bond,               \* m_bondMaster: the worker whose group it is, or None
    helpWanted,
    unposted, jobs, done,   \* jobs not yet offered, offered, done
    pc,                 \* step of each worker
    call, cand, mask,   \* step of tryAcquireSleepingThread(), its worker, firstTryBitmap
    group,              \* BondedTaskGroup of each worker
    stopping            \* workers stopWorkers() has not joined yet

bits     == <<sleep, wake>>
assigned == <<cur, owner, bond>>
work     == <<unposted, jobs, done>>
calls    == <<call, cand, mask>>
vars     == <<active, bits, assigned, helpWanted, work, pc, calls, group, stopping>>

NoGroup == [open |-> FALSE, acquired |-> 0, finished |-> 0,
            bonded |-> 0, count |-> 0, exited |-> 0]

First == CHOOSE p \in Providers : TRUE          \* m_jpTable[0]

Init == /\ active = TRUE
        /\ sleep = {} /\ wake = [w \in Workers |-> 0]
        /\ cur = [w \in Workers |-> First]
        /\ owner = [p \in Providers |-> {}]
        /\ bond = [w \in Workers |-> None]
        /\ helpWanted = [p \in Providers |-> FALSE]
        /\ unposted = JobsOf
        /\ jobs = [p \in Providers |-> 0] /\ done = [p \in Providers |-> 0]
        /\ pc = [w \in Workers |-> "start"]
        /\ call = [c \in Callers |-> "idle"] /\ cand = [c \in Callers |-> None]
        /\ mask = [c \in Callers |-> {}]
        /\ group = [w \in Workers |-> NoGroup]
        /\ stopping = Workers

Goto(w, label) == pc' = [pc EXCEPT ![w] = label]

-----------------------------------------------------------------------------
(* tryAcquireSleepingThread(): owners first, then, for tryWakeOne() only,  *)
(* any worker.  The bitmap is read, and the bit is cleared later.          *)

\* the owners are passed by value: the call sees none who comes or goes later
Call(c) ==
    /\ call' = [call EXCEPT ![c] = "first"]
    /\ mask' = [mask EXCEPT ![c] = owner[IF c \in Providers THEN c ELSE cur[c]]]

Mask(c) == IF call[c] = "first" THEN mask[c] ELSE Workers

\* the bitmap is read: a candidate, or on to the next try
Look(c) ==
    /\ call[c] \in {"first", "second"} /\ cand[c] = None
    /\ \E w \in sleep \cap Mask(c) : cand' = [cand EXCEPT ![c] = w]
    /\ UNCHANGED <<active, bits, assigned, helpWanted, work, pc, call, mask, group, stopping>>

LookFails(c) ==
    /\ call[c] \in {"first", "second"} /\ cand[c] = None
    /\ sleep \cap Mask(c) = {}
    /\ call' = [call EXCEPT ![c] = IF @ = "first" /\ c \in Providers
                                          THEN "second" ELSE "failed"]
    /\ UNCHANGED <<active, bits, assigned, helpWanted, work, pc, cand, mask, group, stopping>>

IgnoreOld(w) == TRUE                                      \* mutant
\* the old value of the bit, returned by the atomic AND that clears it
WasSet(w) == w \in sleep

Grab(c) ==
    /\ call[c] \in {"first", "second"} /\ cand[c] # None
    /\ sleep' = sleep \ {cand[c]}
    /\ IF WasSet(cand[c])
       THEN call' = [call EXCEPT ![c] = "got"] /\ UNCHANGED cand
       ELSE cand' = [cand EXCEPT ![c] = None] /\ UNCHANGED call
    /\ UNCHANGED <<active, wake, assigned, helpWanted, work, pc, mask, group, stopping>>

Awaken(w) == wake' = [wake EXCEPT ![w] = @ + 1]

\* after a success or a failure the caller is as before
Return(c) ==
    /\ call' = [call EXCEPT ![c] = "idle"]
    /\ cand' = [cand EXCEPT ![c] = None]
    /\ mask' = [mask EXCEPT ![c] = {}]

-----------------------------------------------------------------------------
(* A provider: it offers a job and calls tryWakeOne(), and calls it again  *)
(* from time to time as long as jobs are not done.                         *)

OfferJob(p) ==
    /\ call[p] = "idle" /\ unposted[p] > 0
    /\ unposted' = [unposted EXCEPT ![p] = @ - 1]
    /\ jobs' = [jobs EXCEPT ![p] = @ + 1]
    /\ Call(p)
    /\ UNCHANGED <<active, bits, assigned, helpWanted, done, pc, cand, group, stopping>>

NoRetry(p) == FALSE                                       \* mutant
\* the 250 ms of m_completionEvent.timedWait() are over: a time that no call
\* of tryAcquireSleepingThread() takes
TimedOut(p) == done[p] < JobsOf[p] /\ \A c \in Callers : call[c] = "idle"

Retry(p) ==
    /\ call[p] = "idle" /\ unposted[p] = 0 /\ TimedOut(p)
    /\ Call(p)
    /\ UNCHANGED <<active, bits, assigned, helpWanted, work, pc, cand, group, stopping>>

\* tryWakeOne() got a worker: poach it if it works for another provider
WakeOne(p) ==
    /\ call[p] = "got"
    /\ LET w == cand[p] IN
        /\ owner' = [owner EXCEPT ![cur[w]] = @ \ {w}, ![p] = @ \cup {w}]
        /\ cur' = [cur EXCEPT ![w] = p]
        /\ Awaken(w)
    /\ Return(p)
    /\ UNCHANGED <<active, sleep, bond, helpWanted, work, pc, group, stopping>>

WakeNone(p) ==
    /\ call[p] = "failed"
    /\ helpWanted' = [helpWanted EXCEPT ![p] = TRUE]
    /\ Return(p)
    /\ UNCHANGED <<active, bits, assigned, work, pc, group, stopping>>

-----------------------------------------------------------------------------
(* BondedTaskGroup: the master w bonds peers, does tasks with them, and    *)
(* returns from waitForExit() when every peer has left processTasks().     *)

\* a worker that does a job may divide it; the group lives until waitForExit()
OpenGroup(w) ==
    /\ pc[w] = "job" /\ ~ group[w].open
    /\ group' = [group EXCEPT ![w] = [NoGroup EXCEPT !.open = TRUE]]
    /\ Call(w)
    /\ Goto(w, "bonding")
    /\ UNCHANGED <<active, bits, assigned, helpWanted, work, cand, stopping>>

\* tryBondPeers(): one more peer
BondPeer(w) ==
    /\ pc[w] = "bonding" /\ call[w] = "got"
    /\ bond' = [bond EXCEPT ![cand[w]] = w]
    /\ Awaken(cand[w])
    /\ group' = [group EXCEPT ![w].count = @ + 1]
    /\ call' = [call EXCEPT ![w] = IF group'[w].count < MaxPeers THEN "first" ELSE "failed"]
    /\ cand' = [cand EXCEPT ![w] = None]
    /\ UNCHANGED <<active, sleep, cur, owner, helpWanted, work, pc, mask, stopping>>

\* it returns the number of peers, which the master adds up
BondEnd(w) ==
    /\ pc[w] = "bonding" /\ call[w] = "failed"
    /\ group' = [group EXCEPT ![w].bonded = group[w].count]
    /\ Return(w)
    /\ Goto(w, "own")
    /\ UNCHANGED <<active, bits, assigned, helpWanted, work, stopping>>

\* the group whose processTasks() the worker is in
GroupOf(w) == IF pc[w] \in {"own", "ownTask"} THEN w ELSE bond[w]

TaskLeft(g) == g.acquired < Tasks

\* processTasks(): take a task under the lock of the group, do it
TakeTask(w) ==
    /\ pc[w] \in {"own", "peer"} /\ TaskLeft(group[GroupOf(w)])
    /\ group' = [group EXCEPT ![GroupOf(w)].acquired = @ + 1]
    /\ Goto(w, IF pc[w] = "own" THEN "ownTask" ELSE "peerTask")
    /\ UNCHANGED <<active, bits, assigned, helpWanted, work, calls, stopping>>

FinishTask(w) ==
    /\ pc[w] \in {"ownTask", "peerTask"}
    /\ group' = [group EXCEPT ![GroupOf(w)].finished = @ + 1]
    /\ Goto(w, IF pc[w] = "ownTask" THEN "own" ELSE "peer")
    /\ UNCHANGED <<active, bits, assigned, helpWanted, work, calls, stopping>>

NoTaskLeft(w) ==
    /\ pc[w] \in {"own", "peer"} /\ ~ TaskLeft(group[GroupOf(w)])
    /\ Goto(w, IF pc[w] = "own" THEN "wait" ELSE "leave")
    /\ UNCHANGED <<active, bits, assigned, helpWanted, work, calls, group, stopping>>

\* a peer has left processTasks(): m_exitedPeerCount.incr(), then no master
ExitPeer(w) ==
    /\ pc[w] = "leave"
    /\ group' = [group EXCEPT ![bond[w]].exited = @ + 1]
    /\ bond' = [bond EXCEPT ![w] = None]
    /\ Goto(w, "find")
    /\ UNCHANGED <<active, bits, cur, owner, helpWanted, work, calls, stopping>>

WorkDone(g) == g.finished = Tasks                         \* mutant
\* waitForExit()
AllExited(g) == g.bonded = g.exited

CloseGroup(w) ==
    /\ pc[w] = "wait" /\ AllExited(group[w])
    /\ group' = [group EXCEPT ![w].open = FALSE]
    /\ Goto(w, "finish")
    /\ UNCHANGED <<active, bits, assigned, helpWanted, work, calls, stopping>>

-----------------------------------------------------------------------------
(* threadMain() of a worker.                                               *)

Start(w) ==
    /\ pc[w] = "start"
    /\ owner' = [owner EXCEPT ![First] = @ \cup {w}]
    /\ sleep' = sleep \cup {w}
    /\ Goto(w, "asleep")
    /\ UNCHANGED <<active, wake, cur, bond, helpWanted, work, calls, group, stopping>>

Doze(w) ==
    /\ pc[w] = "doze"
    /\ sleep' = sleep \cup {w}
    /\ Goto(w, "asleep")
    /\ UNCHANGED <<active, wake, assigned, helpWanted, work, calls, group, stopping>>

\* m_wakeEvent.wait() returns; a bonded worker goes to its group first
WakeUp(w) ==
    /\ pc[w] = "asleep" /\ wake[w] > 0
    /\ wake' = [wake EXCEPT ![w] = @ - 1]
    /\ Goto(w, IF ~ active THEN "exit" ELSE IF bond[w] # None THEN "peer" ELSE "find")
    /\ UNCHANGED <<active, sleep, assigned, helpWanted, work, calls, group, stopping>>

\* findJob(): the bit of a job is cleared, and with it the job is taken
FindJob(w) ==
    /\ pc[w] = "find" /\ jobs[cur[w]] > 0
    /\ jobs' = [jobs EXCEPT ![cur[w]] = @ - 1]
    /\ Goto(w, "job")
    /\ UNCHANGED <<active, bits, assigned, helpWanted, unposted, done, calls, group, stopping>>

FinishJob(w) ==
    /\ pc[w] \in {"job", "finish"}
    /\ done' = [done EXCEPT ![cur[w]] = @ + 1]
    /\ helpWanted' = [helpWanted EXCEPT ![cur[w]] = TRUE]
    /\ group' = [group EXCEPT ![w] = NoGroup]
    /\ Goto(w, "switch")
    /\ UNCHANGED <<active, bits, assigned, unposted, jobs, calls, stopping>>

\* no job: the bitmap was read before helpWanted is cleared
FindNone(w) ==
    /\ pc[w] = "find" /\ jobs[cur[w]] = 0
    /\ Goto(w, "none")
    /\ UNCHANGED <<active, bits, assigned, helpWanted, work, calls, group, stopping>>

ClearHelp(w) ==
    /\ pc[w] = "none"
    /\ helpWanted' = [helpWanted EXCEPT ![cur[w]] = FALSE]
    /\ Goto(w, "switch")
    /\ UNCHANGED <<active, bits, assigned, work, calls, group, stopping>>

\* providers the worker prefers to its own: any, when its own wants no help
Preferred(w) ==
    {p \in Providers : /\ helpWanted[p]
                       /\ helpWanted[cur[w]] => Priority[p] < Priority[cur[w]]}

Switch(w) ==
    /\ pc[w] = "switch"
    /\ IF Preferred(w) = {} THEN UNCHANGED <<cur, owner>>
       ELSE \E p \in Preferred(w) :
            /\ \A q \in Preferred(w) : Priority[p] <= Priority[q]
            /\ owner' = [owner EXCEPT ![cur[w]] = @ \ {w}, ![p] = @ \cup {w}]
            /\ cur' = [cur EXCEPT ![w] = p]
    /\ Goto(w, "loop")
    /\ UNCHANGED <<active, bits, bond, helpWanted, work, calls, group, stopping>>

Loop(w) ==
    /\ pc[w] = "loop"
    /\ Goto(w, IF helpWanted[cur[w]] THEN "find" ELSE "doze")
    /\ UNCHANGED <<active, bits, assigned, helpWanted, work, calls, group, stopping>>

NoExitBit(w) == sleep                                     \* mutant
ExitBit(w) == sleep \cup {w}

Exit(w) ==
    /\ pc[w] = "exit"
    /\ sleep' = ExitBit(w)
    /\ Goto(w, "ended")
    /\ UNCHANGED <<active, wake, assigned, helpWanted, work, calls, group, stopping>>

-----------------------------------------------------------------------------
(* stopWorkers(), when the frame encoders have ended (Encoder::stopJobs()). *)

AllDone == done = JobsOf

StopPool ==
    /\ active /\ AllDone
    /\ \A p \in Providers : call[p] = "idle"
    /\ active' = FALSE
    /\ UNCHANGED <<bits, assigned, helpWanted, work, pc, calls, group, stopping>>

\* waits for the bit of the next worker, and wakes it; the bit stays set
StopWorker(w) ==
    /\ ~ active /\ w \in stopping
    /\ \A v \in Workers \ {w} : v \in stopping \/ pc[v] = "ended"
    /\ w \in sleep
    /\ Awaken(w)
    /\ stopping' = stopping \ {w}
    /\ UNCHANGED <<active, sleep, assigned, helpWanted, work, pc, calls, group>>

Stopped == ~ active /\ stopping = {} /\ \A w \in Workers : pc[w] = "ended"

-----------------------------------------------------------------------------
Acquire(c) == Look(c) \/ LookFails(c) \/ Grab(c)
Provider(p) == OfferJob(p) \/ WakeOne(p) \/ WakeNone(p)
Master(w) == BondPeer(w) \/ BondEnd(w) \/ CloseGroup(w)
Task(w) == TakeTask(w) \/ FinishTask(w) \/ NoTaskLeft(w) \/ ExitPeer(w)
Main(w) == \/ Start(w) \/ Doze(w) \/ WakeUp(w)
           \/ FindJob(w) \/ FinishJob(w) \/ FindNone(w) \/ ClearHelp(w)
           \/ Switch(w) \/ Loop(w) \/ Exit(w)
Worker(w) == Acquire(w) \/ Master(w) \/ Task(w) \/ Main(w)
Stop == StopPool \/ \E w \in Workers : StopWorker(w)

Next == \/ \E p \in Providers : Acquire(p) \/ Provider(p) \/ Retry(p)
        \/ \E w \in Workers : Worker(w) \/ OpenGroup(w)
        \/ Stop

Spec == Init /\ [][Next]_vars

FairSpec ==
    /\ Spec
    /\ \A p \in Providers : WF_vars(Acquire(p) \/ Provider(p) \/ Retry(p))
    /\ \A w \in Workers : WF_vars(Worker(w))
    /\ WF_vars(Stop)

-----------------------------------------------------------------------------
GroupType == [open : BOOLEAN, acquired : 0 .. Tasks, finished : 0 .. Tasks,
              bonded : 0 .. MaxPeers, count : 0 .. MaxPeers, exited : 0 .. MaxPeers]
MainSteps == {"start", "doze", "asleep", "find", "job", "none", "switch", "loop", "exit",
              "ended", "peer", "peerTask", "leave", "bonding", "own", "ownTask", "wait",
              "finish"}
CallSteps == {"idle", "first", "second", "got", "failed"}

\* Every variable has its type; a wake event is never triggered twice for one
\* wait, and a group has no more peers than were asked for.
TypeOK ==
    /\ active \in BOOLEAN /\ sleep \subseteq Workers /\ stopping \subseteq Workers
    /\ wake \in [Workers -> {0, 1}]
    /\ cur \in [Workers -> Providers] /\ owner \in [Providers -> SUBSET Workers]
    /\ bond \in [Workers -> Workers \cup {None}]
    /\ helpWanted \in [Providers -> BOOLEAN]
    /\ unposted \in [Providers -> Nat] /\ jobs \in [Providers -> Nat]
    /\ done \in [Providers -> Nat]
    /\ \A p \in Providers : unposted[p] + jobs[p] + done[p] <= JobsOf[p]
    /\ pc \in [Workers -> MainSteps]
    /\ call \in [Callers -> CallSteps]
    /\ cand \in [Callers -> Workers \cup {None}] /\ mask \in [Callers -> SUBSET Workers]
    /\ group \in [Workers -> GroupType]

\* A worker is in one pair of hands: it runs, or a wake-up is on its way, or
\* one caller has acquired it; and while its bit is set nobody has it.  Only so
\* may a caller change m_curJobProvider and m_bondMaster of a worker without a
\* lock (threadpool.cpp:146).
Exclusive ==
    \A w \in Workers :
        LET holders == {c \in Callers : call[c] = "got" /\ cand[c] = w}
            running == IF pc[w] \in {"asleep", "ended"} THEN 0 ELSE 1
            hands   == Cardinality(holders) + wake[w] + running
        IN  /\ hands <= 1
            /\ active /\ w \in sleep => hands = 0

\* The types, and the ownership of workers that their bits stand for.
PoolInv == TypeOK /\ Exclusive

\* "When waitForExit() returns, all bonded peer threads are guaranteed to have
\* exited processTasks()" (threadpool.h:116): no worker is bonded to a group
\* that is closed, and all tasks of a closed group are done.
NoPeerLeftBehind ==
    \A w \in Workers :
        /\ bond[w] # None => group[bond[w]].open
        /\ pc[w] = "finish" => group[w].finished = Tasks

\* A job offered to the pool is done in the end, whatever the workers were
\* about to do when it was offered, and a bonded group ends.
JobsAreDone == <>AllDone

\* stopWorkers() returns: every worker ends.
PoolStops == <>Stopped
=============================================================================
